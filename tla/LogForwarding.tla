--------------------------- MODULE LogForwarding ---------------------------
(***************************************************************************)
(* The library logs (include/libcomm/logging.h) from inside                *)
(* FrameTransport::Send, at some places with the static transmitMutex      *)
(* held, and LogEndpoint forwards log records with that very Send.  This   *)
(* module is a program that does both: worker threads that send, the log   *)
(* sink they all call, and a thread that forwards what the sink was given. *)
(*                                                                         *)
(* The sink is the application's.  It may not send: the mutex it would     *)
(* wait for may be held by its own thread.  So it puts the record into a   *)
(* queue of its own, under a mutex of its own (the example's sink holds    *)
(* one while it prints), and the forwarder takes it out.  Forwarding may   *)
(* fail as any Send may, and a Send that fails logs again.                 *)
(***************************************************************************)
EXTENDS Integers, Sequences

CONSTANTS
    Workers,
    Forwarder,
    Nobody,        \* the holder of a free mutex
    LogLevel,      \* LIBCOMM_LOG_LEVEL: 2 unless the build says otherwise
    QueueSize,     \* how many records the sink's queue holds
    MaxSends,      \* bound: calls of Send per worker
    MaxFailures    \* bound: failures of write_

ASSUME LogAssumption ==
    /\ Forwarder \notin Workers /\ Nobody \notin Workers \cup {Forwarder}
    /\ LogLevel \in 0 .. 4
    /\ QueueSize \in Nat \ {0} /\ MaxSends \in Nat /\ MaxFailures \in Nat

VARIABLES
    pc,             \* where each thread is in Send
    payload,        \* what it sends: "good", "null" or "too long"
    transmitMutex,  \* its holder
    sinkMutex,      \* its holder
    queue,          \* the levels of the records in the sink's queue
    carried,        \* the record the forwarder sends
    sends,          \* how often each worker has called Send
    failures,       \* how often write_ has failed
    heard           \* history: an Error record has reached the host since then

vars == <<pc, payload, transmitMutex, sinkMutex, queue, carried, sends, failures, heard>>

Threads == Workers \cup {Forwarder}

Levels == {"Error", "Warning", "Info", "Debug"}

\* LOG_LEVEL_ERROR, LOG_LEVEL_WARN, LOG_LEVEL_INFO, LOG_LEVEL_DEBUG.
Rank == [Error |-> 1, Warning |-> 2, Info |-> 3, Debug |-> 4]

\* Mutant: the comparison is the wrong way round.
CompiledReversed(level) == LogLevel <= Rank[level]

\* Which of the LIBCOMM_LOG_ macros do something.
Compiled(level) == LogLevel >= Rank[level]

\* Mutant: a failed write is not worth an Error.
FailureLevelDebug == "Debug"

\* The level at which TransmitFrame and Send log a failure of write_.
FailureLevel == "Error"

\* The places of Send and TransmitFrame that log, their levels, and where the
\* thread goes on.
LogPoints ==
    [nullPayload |-> [level |-> "Error", next |-> "idle"],
     called      |-> [level |-> "Debug", next |-> "checking"],
     tooLong     |-> [level |-> "Error", next |-> "failed"],
     composed    |-> [level |-> "Debug", next |-> "writing"],
     writeFailed |-> [level |-> FailureLevel, next |-> "unlocking"],
     sent        |-> [level |-> "Debug", next |-> "idle"],
     failed      |-> [level |-> FailureLevel, next |-> "idle"]]

AtLogPoint(t) == pc[t] \in DOMAIN LogPoints

GoTo(t, place) == pc' = [pc EXCEPT ![t] = place]

-----------------------------------------------------------------------------
Init ==
    /\ pc = [t \in Threads |-> "idle"]
    /\ payload = [t \in Threads |-> "good"]
    /\ transmitMutex = Nobody
    /\ sinkMutex = Nobody
    /\ queue = <<>>
    /\ carried = "Error"
    /\ sends = [w \in Workers |-> 0]
    /\ failures = 0
    /\ heard = TRUE

\* A worker calls Send, on whatever endpoint.
CallSend(w, kind) ==
    /\ pc[w] = "idle" /\ sends[w] < MaxSends
    /\ sends' = [sends EXCEPT ![w] = @ + 1]
    /\ payload' = [payload EXCEPT ![w] = kind]
    /\ GoTo(w, IF kind = "null" THEN "nullPayload" ELSE "called")
    /\ UNCHANGED <<transmitMutex, sinkMutex, queue, carried, failures, heard>>

-----------------------------------------------------------------------------
(***************************************************************************)
(* A log point.                                                            *)
(***************************************************************************)
\* The macro does nothing.
Skip(t) ==
    /\ AtLogPoint(t) /\ ~ Compiled(LogPoints[pc[t]].level)
    /\ GoTo(t, LogPoints[pc[t]].next)
    /\ UNCHANGED <<payload, transmitMutex, sinkMutex, queue, carried, sends, failures, heard>>

\* The sink is called and waits for its mutex ...
EnterSink(t) ==
    /\ AtLogPoint(t) /\ Compiled(LogPoints[pc[t]].level)
    /\ sinkMutex = Nobody
    /\ sinkMutex' = t
    /\ UNCHANGED <<pc, payload, transmitMutex, queue, carried, sends, failures, heard>>

\* ... keeps the record, if there is room for it, and returns.
LeaveSink(t) ==
    /\ AtLogPoint(t) /\ sinkMutex = t
    /\ sinkMutex' = Nobody
    /\ queue' = IF Len(queue) < QueueSize THEN Append(queue, LogPoints[pc[t]].level) ELSE queue
    /\ GoTo(t, LogPoints[pc[t]].next)
    /\ UNCHANGED <<payload, transmitMutex, carried, sends, failures, heard>>

-----------------------------------------------------------------------------
(***************************************************************************)
(* The rest of Send.                                                       *)
(***************************************************************************)
Check(t) ==
    /\ pc[t] = "checking"
    /\ GoTo(t, IF payload[t] = "too long" THEN "tooLong" ELSE "locking")
    /\ UNCHANGED <<payload, transmitMutex, sinkMutex, queue, carried, sends, failures, heard>>

Lock(t) ==
    /\ pc[t] = "locking" /\ transmitMutex = Nobody
    /\ transmitMutex' = t
    /\ GoTo(t, "composed")
    /\ UNCHANGED <<payload, sinkMutex, queue, carried, sends, failures, heard>>

\* write_ has sent the frame, and TransmitFrame returns.
WriteSucceeds(t) ==
    /\ pc[t] = "writing"
    /\ transmitMutex' = Nobody
    /\ heard' = (heard \/ (t = Forwarder /\ carried = "Error"))
    /\ GoTo(t, "sent")
    /\ UNCHANGED <<payload, sinkMutex, queue, carried, sends, failures>>

WriteFails(t) ==
    /\ pc[t] = "writing" /\ failures < MaxFailures
    /\ failures' = failures + 1
    /\ heard' = FALSE
    /\ GoTo(t, "writeFailed")
    /\ UNCHANGED <<payload, transmitMutex, sinkMutex, queue, carried, sends>>

\* Mutant: the way out after a failed write leaves the mutex locked.
ReleaseForgotten == UNCHANGED transmitMutex

\* The end of the lock_guard.
Release == transmitMutex' = Nobody

Unlock(t) ==
    /\ pc[t] = "unlocking"
    /\ Release
    /\ GoTo(t, "failed")
    /\ UNCHANGED <<payload, sinkMutex, queue, carried, sends, failures, heard>>

-----------------------------------------------------------------------------
(***************************************************************************)
(* The forwarder: it takes the oldest record, builds a LogForward of it    *)
(* and sends that, once.                                                   *)
(***************************************************************************)
EnterQueue ==
    /\ pc[Forwarder] = "idle" /\ queue # <<>> /\ sinkMutex = Nobody
    /\ sinkMutex' = Forwarder
    /\ GoTo(Forwarder, "taking")
    /\ UNCHANGED <<payload, transmitMutex, queue, carried, sends, failures, heard>>

Forward ==
    /\ pc[Forwarder] = "taking"
    /\ sinkMutex' = Nobody
    /\ carried' = Head(queue)
    /\ queue' = Tail(queue)
    /\ GoTo(Forwarder, "called")
    /\ UNCHANGED <<payload, transmitMutex, sends, failures, heard>>

-----------------------------------------------------------------------------
Step(t) ==
    \/ Skip(t) \/ EnterSink(t) \/ LeaveSink(t)
    \/ Check(t) \/ Lock(t) \/ WriteSucceeds(t) \/ WriteFails(t) \/ Unlock(t)

AllIdle == \A t \in Threads : pc[t] = "idle"

\* The workers have made their calls and nothing is left to forward.
Finished ==
    /\ AllIdle /\ queue = <<>>
    /\ \A w \in Workers : sends[w] = MaxSends
    /\ UNCHANGED vars

Next ==
    \/ \E w \in Workers, kind \in {"good", "null", "too long"} : CallSend(w, kind)
    \/ \E t \in Threads : Step(t)
    \/ EnterQueue \/ Forward
    \/ Finished

\* A thread inside Send goes on, and so does the forwarder; a free mutex is given
\* to a thread that waits for it in the end.  Nobody has to call Send.
Fairness ==
    /\ \A t \in Threads : WF_vars(Step(t))
    /\ WF_vars(EnterQueue) /\ WF_vars(Forward)

Spec == Init /\ [][Next]_vars /\ Fairness

-----------------------------------------------------------------------------
(***************************************************************************)
(* Properties.                                                             *)
(***************************************************************************)

\* Every Send returns, those that forward included: no thread waits for a mutex
\* whose holder waits for it, though records are logged with transmitMutex held.
SendersReturn == \A t \in Threads : pc[t] # "idle" ~> pc[t] = "idle"

\* Forwarding the log comes to an end when the link works again: forwarding a
\* record does not make new ones for ever.
LogDrains == <>[](queue = <<>> /\ AllIdle)

\* A failure of the link is reported over that link: when everything has come
\* to rest, the host has got an Error record since the last failure, however
\* many records the failures themselves, the queue's bound and failing to
\* forward have cost.
HostLearns == AllIdle /\ queue = <<>> => heard

\* Thread t cannot go on before u gives up a mutex: a thread that sends, one that
\* logs, or the forwarder on its way to the queue.
WaitsFor(t, u) ==
    \/ pc[t] = "locking" /\ transmitMutex = u
    \/ /\ AtLogPoint(t) /\ Compiled(LogPoints[pc[t]].level)
       /\ sinkMutex = u /\ u # t
    \/ t = Forwarder /\ pc[t] = "idle" /\ queue # <<>> /\ sinkMutex = u

\* Whoever a thread waits for waits at most for a thread that waits for none: the
\* sink's mutex may be taken under transmitMutex and never the other way round,
\* and no thread takes one of them twice.
LocksOrdered ==
    \A t, u, v, w \in Threads : WaitsFor(t, u) /\ WaitsFor(u, v) => ~ WaitsFor(v, w)
=============================================================================
