----------------------------- MODULE RpcClient -----------------------------
(***************************************************************************)
(* One OMP process and the client that owns it (internal/omp/client.go):   *)
(* the reader of its output, which must never wait for the actor; the      *)
(* forwarder that hands events to the actor; the calls that wait for an    *)
(* answer; the byte budget reader and forwarder share; and the supervisor  *)
(* that takes the process down.                                            *)
(*                                                                         *)
(* A frame is its kind.  A physical line costs one credit of the budget, a *)
(* logical frame that arrives in two chunks costs LogicalCost.             *)
(***************************************************************************)
EXTENDS Integers, FiniteSets, Sequences

CONSTANTS
    Calls,       \* callers of CallWithID, each with its request ID
    Negotiation, \* the one that negotiates the protocol
    LogicalCost, \* credits of a reassembled frame
    Budget,      \* maxRPCBufferedBytes
    Slots,       \* capacity of queuedEvents
    MaxFrames    \* bound: frames OMP writes besides answers

ASSUME CallAssumption == Negotiation \in Calls
ASSUME BudgetAssumption ==
    /\ LogicalCost \in Nat \ {0}
    /\ Budget \in Nat \ {0}
    /\ Slots \in Nat \ {0}
    /\ MaxFrames \in Nat

VARIABLES
    \* the OMP process
    omp,        \* "running" or "exited"
    heard,      \* calls whose request it has read
    replied,    \* calls it has answered
    emitted,    \* events it has written
    frames,     \* frames it has written besides answers
    pipe,       \* its output, not yet read
    holder,     \* a descendant keeps its output open
    stdin,      \* stdin is open on our side
    stdout,     \* so is stdout
    killed,     \* SIGKILL was sent to the group
    eof,        \* it may have seen the end of its input while it was not killed
    \* the reader
    reader,     \* "reading", "frame", "draining" or "gone"
    line,       \* the frame it holds
    partial,    \* a chunked frame is being put together
    ready,      \* OMP has announced itself
    used,       \* byteBudget
    \* the forwarder and the actor
    queue,      \* queuedEvents
    fwd,        \* the forwarder: "taking", "offering", "releasing", "gone"
    offer,      \* the event it holds
    got,        \* events the actor has received
    \* the client
    start,      \* "awaiting", "negotiating", "up" or "failed"
    call,       \* the place of each call
    pending,    \* calls registered
    stop,       \* the stop channel is closed
    done,       \* the done channel is closed
    armed,      \* destructiveShutdown
    sup         \* the supervisor's place

ompVars    == <<omp, heard, replied, emitted, frames, pipe, holder>>
pipeVars   == <<stdin, stdout, killed, eof>>
readerVars == <<reader, line, partial, ready>>
fwdVars    == <<fwd, offer, got>>
clientVars == <<start, done, armed, sup>>
rpcVars == <<ompVars, pipeVars, readerVars, used, queue, fwdVars, call, pending, stop, clientVars>>

NoFrame == [kind |-> "none", event |-> 0, of |-> Negotiation, cost |-> 0]
Frame(k) == [NoFrame EXCEPT !.kind = k, !.cost = 1]
Event(n, cost) == [NoFrame EXCEPT !.kind = "event", !.event = n, !.cost = cost]
Kinds == {"ready", "event", "first", "last", "response", "bad", "none"}
Returned == {"answered", "abandoned", "failed"}

-----------------------------------------------------------------------------
\* The OMP process: it writes what it likes, in the order it likes.

Write(f) ==
    /\ omp = "running"
    /\ frames < MaxFrames
    /\ frames' = frames + 1
    /\ pipe' = Append(pipe, f)
    /\ emitted' = IF f.kind \in {"event", "last"} THEN emitted + 1 ELSE emitted
    /\ UNCHANGED <<omp, heard, replied, holder, pipeVars, readerVars, used, queue,
                   fwdVars, call, pending, stop, clientVars>>

\* "bad" stands for whatever the reader rejects: no JSON, a line that is too
\* long, an answer without ID or of another command.
WriteFrame ==
    \/ \E k \in {"ready", "first", "bad"} : Write(Frame(k))
    \/ Write(Event(emitted + 1, 1))
    \/ Write([Event(emitted + 1, 1) EXCEPT !.kind = "last"])

Reply(c) ==
    /\ omp = "running"
    /\ c \in heard \ replied
    /\ replied' = replied \cup {c}
    /\ pipe' = Append(pipe, [Frame("response") EXCEPT !.of = c])
    /\ UNCHANGED <<omp, heard, emitted, frames, holder, pipeVars, readerVars, used,
                   queue, fwdVars, call, pending, stop, clientVars>>

\* It ends by itself, at the end of its input, or by a signal.  A child it
\* leaves behind may keep the output open.
OmpExits ==
    /\ omp = "running"
    /\ omp' = "exited"
    /\ holder' \in BOOLEAN
    /\ UNCHANGED <<heard, replied, emitted, frames, pipe, pipeVars, readerVars, used,
                   queue, fwdVars, call, pending, stop, clientVars>>

-----------------------------------------------------------------------------
\* The reader.

\* c.fail, c.protocolFailure, c.queueOverflow, and the rest is only discarded.
Abandon(credits) ==
    /\ stop' = TRUE
    /\ reader' = "draining"
    /\ line' = NoFrame
    /\ partial' = FALSE
    /\ used' = used - credits

Assembly == IF partial THEN LogicalCost ELSE 0

\* readLineBudget: a line that does not fit the budget ends the client.
ReadLine ==
    /\ reader = "reading"
    /\ stdout
    /\ pipe # <<>>
    /\ pipe' = Tail(pipe)
    /\ IF used + 1 > Budget
         THEN Abandon(Assembly) /\ UNCHANGED ready
         ELSE /\ used' = used + 1
              /\ line' = Head(pipe)
              /\ reader' = "frame"
              /\ UNCHANGED <<partial, ready, stop>>
    /\ UNCHANGED <<omp, heard, replied, emitted, frames, holder, pipeVars, queue,
                   fwdVars, call, pending, clientVars>>

Ended == ~stdout \/ (omp = "exited" /\ pipe = <<>> /\ ~holder)

\* The end of the output: transportEnded, or protocolFailure within a chunked
\* frame.
ReadEnd ==
    /\ reader = "reading"
    /\ Ended
    /\ Abandon(Assembly)
    /\ UNCHANGED <<ompVars, pipeVars, ready, queue, fwdVars, call, pending, clientVars>>

\* The reader goes on to the next line; it gives back what the frame cost.
Finish(credits) ==
    /\ reader' = "reading"
    /\ line' = NoFrame
    /\ used' = used - credits
    /\ UNCHANGED stop

\* What push and decodeObject reject: a frame within a chunked one, a chunk out
\* of place, any whole frame before the announcement but a valid one, a second one.
Rejected ==
    \/ line.kind = "bad"
    \/ partial /\ line.kind # "last"
    \/ ~partial /\ line.kind = "last"
    \/ line.kind # "first" /\ (ready <=> line.kind = "ready")

RejectFrame ==
    /\ reader = "frame"
    /\ Rejected
    /\ Abandon(1 + Assembly)
    /\ UNCHANGED <<ompVars, pipeVars, ready, queue, fwdVars, call, pending, clientVars>>

Announced ==
    /\ reader = "frame"
    /\ ~Rejected
    /\ line.kind = "ready"
    /\ ready' = TRUE
    /\ Finish(1)
    /\ UNCHANGED <<ompVars, pipeVars, partial, queue, fwdVars, call, pending, clientVars>>

\* The first chunk reserves the whole logical frame.
FirstChunk ==
    /\ reader = "frame"
    /\ ~Rejected
    /\ line.kind = "first"
    /\ IF used + LogicalCost > Budget
         THEN Abandon(1)
         ELSE Finish(1 - LogicalCost) /\ partial' = TRUE
    /\ UNCHANGED <<ompVars, pipeVars, ready, queue, fwdVars, call, pending, clientVars>>

\* An answer goes to the call that waits for it, if it still does.
Response ==
    /\ reader = "frame"
    /\ ~Rejected
    /\ line.kind = "response"
    /\ Finish(1)
    /\ pending' = pending \ {line.of}
    /\ IF line.of \in pending
         THEN call' = [call EXCEPT ![line.of] = "given"]
         ELSE UNCHANGED call
    /\ UNCHANGED <<ompVars, pipeVars, partial, ready, queue, fwdVars, clientVars>>

\* The frame that is complete with this line and what it costs; the chunk's own
\* line is given back.
Complete == IF partial THEN Event(line.event, LogicalCost) ELSE line
HasEvent == reader = "frame" /\ ~Rejected /\ line.kind \in {"event", "last"}

EnqueueEvent ==
    /\ HasEvent
    /\ Len(queue) < Slots
    /\ queue' = Append(queue, Complete)
    /\ Finish(IF partial THEN 1 ELSE 0)
    /\ partial' = FALSE
    /\ UNCHANGED <<ompVars, pipeVars, ready, fwdVars, call, pending, clientVars>>

\* Mutant: the reader waits for a slot.
OverflowNever == FALSE /\ UNCHANGED rpcVars

\* Mutant: the event is dropped and the reader goes on.
OverflowDropping ==
    /\ HasEvent
    /\ Len(queue) = Slots
    /\ Finish(1 + Assembly)
    /\ partial' = FALSE
    /\ UNCHANGED <<ompVars, pipeVars, ready, queue, fwdVars, call, pending, clientVars>>

Overflow ==
    /\ HasEvent
    /\ Len(queue) = Slots
    /\ Abandon(1 + Assembly)
    /\ UNCHANGED <<ompVars, pipeVars, ready, queue, fwdVars, call, pending, clientVars>>

\* io.Copy(io.Discard, stdout), until the output ends.
Drain ==
    /\ reader = "draining"
    /\ IF Ended
         THEN reader' = "gone" /\ UNCHANGED pipe
         ELSE pipe # <<>> /\ pipe' = <<>> /\ UNCHANGED reader
    /\ UNCHANGED <<omp, heard, replied, emitted, frames, holder, pipeVars, line, partial,
                   ready, used, queue, fwdVars, call, pending, stop, clientVars>>

ReaderStep ==
    \/ ReadLine \/ ReadEnd \/ RejectFrame \/ Announced \/ FirstChunk
    \/ Response \/ EnqueueEvent \/ Overflow \/ Drain

-----------------------------------------------------------------------------
\* forwardEvents; the actor receives when it likes.

Forwarded ==
    UNCHANGED <<ompVars, pipeVars, readerVars, call, pending, stop, clientVars>>

TakeEvent ==
    /\ fwd = "taking"
    /\ queue # <<>>
    /\ fwd' = "offering"
    /\ offer' = Head(queue)
    /\ queue' = Tail(queue)
    /\ UNCHANGED <<used, got>>
    /\ Forwarded

Receive ==
    /\ fwd = "offering"
    /\ fwd' = "releasing"
    /\ got' = Append(got, offer.event)
    /\ UNCHANGED <<used, queue, offer>>
    /\ Forwarded

Release ==
    /\ fwd = "releasing"
    /\ fwd' = "taking"
    /\ offer' = NoFrame
    /\ used' = used - offer.cost
    /\ UNCHANGED <<queue, got>>
    /\ Forwarded

ForwarderLeaves ==
    /\ fwd \in {"taking", "offering"}
    /\ stop \/ (fwd = "taking" /\ queue = <<>> /\ reader = "gone")
    /\ fwd' = "gone"
    /\ UNCHANGED <<used, queue, offer, got>>
    /\ Forwarded

-----------------------------------------------------------------------------
\* The calls.

Called ==
    UNCHANGED <<omp, replied, emitted, frames, pipe, holder, pipeVars, readerVars, used,
                queue, fwdVars>>

Register(c) ==
    /\ call[c] = "idle"
    /\ start = (IF c = Negotiation THEN "negotiating" ELSE "up")
    /\ call' = [call EXCEPT ![c] = "sending"]
    /\ pending' = pending \cup {c}
    /\ UNCHANGED <<heard, stop, clientVars>>
    /\ Called

\* Send, after it checked stop; OMP reads the request if it still runs.
SendRequest(c) ==
    /\ call[c] = "sending"
    /\ ~stop
    /\ stdin
    /\ call' = [call EXCEPT ![c] = "waiting"]
    /\ heard' = IF omp = "running" THEN heard \cup {c} ELSE heard
    /\ UNCHANGED <<pending, stop, clientVars>>
    /\ Called

\* The deferred removal of the pending entry.
Leave(c, outcome) ==
    /\ call' = [call EXCEPT ![c] = outcome]
    /\ pending' = pending \ {c}

\* A write that fails, or is interrupted by the caller's context, leaves the
\* state of OMP unknown: the client ends.
SendFails(c) ==
    /\ call[c] = "sending"
    /\ heard' \in {heard, heard \cup {c}}
    /\ omp = "exited" => heard' = heard
    /\ Leave(c, "failed")
    /\ stop' = TRUE
    /\ UNCHANGED clientVars
    /\ Called

TakeAnswer(c) ==
    /\ call[c] = "given"
    /\ Leave(c, "answered")
    /\ UNCHANGED <<heard, stop, clientVars>>
    /\ Called

\* stop or done is closed.
CallFails(c) ==
    /\ call[c] \in {"sending", "waiting", "given"}
    /\ stop
    /\ Leave(c, "failed")
    /\ UNCHANGED <<heard, stop, clientVars>>
    /\ Called

\* The caller's context is done.
GiveUp(c) ==
    /\ call[c] \in {"sending", "waiting", "given"}
    /\ Leave(c, "abandoned")
    /\ UNCHANGED <<heard, stop, clientVars>>
    /\ Called

-----------------------------------------------------------------------------
\* startOnce: the announcement, the negotiation, or 20 seconds.

Started == UNCHANGED <<ompVars, pipeVars, readerVars, used, queue, fwdVars, call,
                       pending, done, armed, sup>>

Negotiate ==
    /\ start = "awaiting"
    /\ ready
    /\ start' = "negotiating"
    /\ UNCHANGED stop
    /\ Started

Negotiated ==
    /\ start = "negotiating"
    /\ call[Negotiation] = "answered"
    /\ start' = "up"
    /\ UNCHANGED stop
    /\ Started

StartFails ==
    /\ start \in {"awaiting", "negotiating"}
    /\ start = "negotiating" => call[Negotiation] \in Returned
    /\ start' = "failed"
    /\ stop' = TRUE
    /\ Started

-----------------------------------------------------------------------------
\* Shutdown.  shutdownMu makes each of ArmDestructiveShutdown, TerminateNow's
\* kill and CloseStdin one step.

ShutdownStep == UNCHANGED <<heard, replied, emitted, frames, omp, pipe, readerVars, used,
                            queue, fwdVars, call, pending, start>>

\* Mutant: stop is not looked at.
ArmUnchecked ==
    /\ start = "up"
    /\ armed' = TRUE
    /\ UNCHANGED <<holder, pipeVars, stop, done, sup>>
    /\ ShutdownStep

\* A command that deletes history arms the client before it is sent.
ArmDestructiveShutdown ==
    /\ start = "up"
    /\ ~stop
    /\ armed' = TRUE
    /\ UNCHANGED <<holder, pipeVars, stop, done, sup>>
    /\ ShutdownStep

\* Close, up to its wait for done.
Close ==
    /\ start = "up"
    /\ ~stop
    /\ stop' = TRUE
    /\ UNCHANGED <<holder, pipeVars, done, armed, sup>>
    /\ ShutdownStep

\* TerminateNow kills first; Close follows.
TerminateNow ==
    /\ start = "up"
    /\ ~done
    /\ ~killed
    /\ killed' = TRUE
    /\ UNCHANGED <<holder, stdin, stdout, eof, stop, done, armed, sup>>
    /\ ShutdownStep

\* The process exited, its context was cancelled, or stop is closed already.
Notice ==
    /\ sup = "watching"
    /\ sup' = "closing"
    /\ stop' = TRUE
    /\ UNCHANGED <<holder, pipeVars, done, armed>>
    /\ ShutdownStep

CloseStdin ==
    /\ sup = "closing"
    /\ sup' = "waiting"
    /\ killed' = (killed \/ armed)
    /\ stdin' = FALSE
    /\ eof' = (eof \/ (omp = "running" /\ ~killed'))
    /\ UNCHANGED <<holder, stdout, stop, done, armed>>
    /\ ShutdownStep

\* Two seconds to end by itself, one after SIGTERM, then the group is killed;
\* a descendant may have left the group.
KillGroup ==
    /\ sup = "waiting"
    /\ sup' = "reaping"
    /\ killed' = TRUE
    /\ holder' \in {holder, FALSE}
    /\ UNCHANGED <<stdin, stdout, eof, stop, done, armed>>
    /\ ShutdownStep

Reap ==
    /\ sup = "reaping"
    /\ omp = "exited"
    /\ sup' = "draining"
    /\ UNCHANGED <<holder, pipeVars, stop, done, armed>>
    /\ ShutdownStep

\* Mutant: the supervisor waits for the reader however long it takes.
CloseStdoutNever == FALSE /\ UNCHANGED rpcVars

\* The reader did not end within a second.
CloseStdout ==
    /\ sup = "draining"
    /\ reader # "gone"
    /\ stdout
    /\ stdout' = FALSE
    /\ UNCHANGED <<holder, stdin, killed, eof, stop, done, armed, sup>>
    /\ ShutdownStep

CloseDone ==
    /\ sup = "draining"
    /\ reader = "gone"
    /\ sup' = "gone"
    /\ stdout' = FALSE
    /\ done' = TRUE
    /\ UNCHANGED <<holder, stdin, killed, eof, stop, armed>>
    /\ ShutdownStep

Supervise == Notice \/ CloseStdin \/ KillGroup \/ Reap \/ CloseStdout \/ CloseDone

-----------------------------------------------------------------------------
Init ==
    /\ omp = "running"
    /\ heard = {} /\ replied = {}
    /\ emitted = 0 /\ frames = 0
    /\ pipe = <<>>
    /\ holder = FALSE
    /\ stdin = TRUE /\ stdout = TRUE
    /\ killed = FALSE /\ eof = FALSE
    /\ reader = "reading" /\ line = NoFrame /\ partial = FALSE /\ ready = FALSE
    /\ used = 0
    /\ queue = <<>>
    /\ fwd = "taking" /\ offer = NoFrame /\ got = <<>>
    /\ start = "awaiting"
    /\ call = [c \in Calls |-> "idle"]
    /\ pending = {}
    /\ stop = FALSE /\ done = FALSE /\ armed = FALSE
    /\ sup = "watching"

Next ==
    \/ WriteFrame \/ OmpExits
    \/ ReaderStep
    \/ TakeEvent \/ Receive \/ Release \/ ForwarderLeaves
    \/ \E c \in Calls :
        \/ Reply(c) \/ Register(c) \/ SendRequest(c) \/ SendFails(c)
        \/ TakeAnswer(c) \/ CallFails(c) \/ GiveUp(c)
    \/ Negotiate \/ Negotiated \/ StartFails
    \/ ArmDestructiveShutdown \/ Close \/ TerminateNow
    \/ Supervise

Spec == Init /\ [][Next]_rpcVars

\* The client's goroutines run while the client is, a killed process ends, a call
\* whose answer or failure is there returns.  Nothing is assumed of OMP or of
\* the actor.
Fairness ==
    /\ WF_rpcVars(ReaderStep)
    /\ WF_rpcVars(ForwarderLeaves)
    /\ WF_rpcVars((stop \/ omp = "exited") /\ Supervise)
    /\ WF_rpcVars(killed /\ OmpExits)
    /\ \A c \in Calls : WF_rpcVars(TakeAnswer(c) \/ CallFails(c))

FairSpec == Spec /\ Fairness

-----------------------------------------------------------------------------
TypeOK ==
    /\ omp \in {"running", "exited"}
    /\ heard \subseteq Calls /\ replied \subseteq heard
    /\ emitted \in 0 .. MaxFrames /\ frames \in 0 .. MaxFrames
    /\ \A i \in DOMAIN pipe : pipe[i].kind \in Kinds
    /\ {holder, stdin, stdout, killed, eof, partial, ready, stop, done, armed} \subseteq BOOLEAN
    /\ reader \in {"reading", "frame", "draining", "gone"}
    /\ fwd \in {"taking", "offering", "releasing", "gone"}
    /\ start \in {"awaiting", "negotiating", "up", "failed"}
    /\ call \in [Calls -> {"idle", "sending", "waiting", "given"} \cup Returned]
    /\ sup \in {"watching", "closing", "waiting", "reaping", "draining", "gone"}
    /\ Len(queue) <= Slots

\* What was read and has not been received, in credits; an event in the queue has
\* those of its line, or of the frame that was put together.
Reassembled == {i \in DOMAIN queue : queue[i].cost # 1}
Outstanding ==
    line.cost + Assembly + offer.cost
        + (Len(queue) + (LogicalCost - 1) * Cardinality(Reassembled))

\* BufferedOutput tells the actor whether anything OMP wrote is still on its way
\* to it: credits are held for exactly what was read and is not yet received,
\* within the budget, whatever the reader, the forwarder and an overflow of
\* either limit do at the same time.
CreditsMatch == used = Outstanding /\ used \in 0 .. Budget

\* The actor receives the events in the order OMP wrote them and without a gap,
\* and while the client runs every event is somewhere on its way: what does not
\* fit ends the client, it is never skipped (forwardEvents, queueOverflow).
EventsInOrder ==
    /\ \A i \in DOMAIN got : got[i] = i
    /\ ~stop =>
        emitted = Len(got) + Len(queue)
                    + Cardinality({s \in {"offer"} : fwd = "offering"})
                    + Cardinality({s \in {"line"} : line.event > 0})
                    + Cardinality({i \in DOMAIN pipe : pipe[i].event > 0})

\* What was read and not yet received is accounted for, byte and event: the actor
\* trusts BufferedOutput when it asks whether anything is still on its way.
EventsAreAccounted == CreditsMatch /\ EventsInOrder

\* OMP can write deleted history again when its input ends: once a client is
\* armed for a command that deletes, OMP never sees the end of its input alive,
\* whichever of the command, a failure, Close and TerminateNow came first.
DeletionIsFinal == armed => ~eof

\* A call that OMP has answered returns although nobody takes the events written
\* before the answer: the reader waits for nobody.
AnswersArrive == \A c \in Calls : c \in replied ~> call[c] \in Returned

\* Once the client stops, the process is reaped and done is closed, also if a
\* descendant keeps the output open.
ShutdownEnds == stop ~> done
=============================================================================
