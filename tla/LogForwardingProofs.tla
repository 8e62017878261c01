------------------------ MODULE LogForwardingProofs ------------------------
(***************************************************************************)
(* What is proved of logging from inside Send: the two mutexes are taken   *)
(* in one order, and a failure of the link is reported to the host unless  *)
(* Errors are compiled out.  Any number of workers, any bound of the       *)
(* queue, any number of calls and failures.                                *)
(***************************************************************************)
EXTENDS LogForwarding, TLAPS

Holding == {"composed", "writing", "writeFailed", "unlocking"}

Places == DOMAIN LogPoints \cup {"idle", "checking", "locking", "writing", "unlocking", "taking"}

\* The places of the threads.  Only the forwarder takes a record, and never from
\* an empty queue.
PlacesOK ==
    /\ pc \in [Threads -> Places]
    /\ queue \in Seq(Levels)
    /\ \A w \in Workers : pc[w] # "taking"
    /\ pc[Forwarder] = "taking" => queue # <<>>

\* transmitMutex is held from the composing of a frame to the return of write_.
TransmitHeld ==
    /\ transmitMutex \in Threads \cup {Nobody}
    /\ \A t \in Threads : pc[t] \in Holding <=> transmitMutex = t

\* The sink's mutex is held at a log point that is compiled in, and by the
\* forwarder at its queue.
SinkHeld ==
    /\ sinkMutex \in Threads \cup {Nobody}
    /\ \A t \in Threads : sinkMutex = t =>
          \/ AtLogPoint(t) /\ Compiled(LogPoints[pc[t]].level)
          \/ pc[t] = "taking"
    /\ pc[Forwarder] = "taking" => sinkMutex = Forwarder

LockInv == PlacesOK /\ TransmitHeld /\ SinkHeld

\* What Send logs, and where it goes on.
LEMMA LogPointsAre ==
    /\ DOMAIN LogPoints = {"nullPayload", "called", "tooLong", "composed", "writeFailed",
                           "sent", "failed"}
    /\ LogPoints["nullPayload"] = [level |-> "Error", next |-> "idle"]
    /\ LogPoints["called"] = [level |-> "Debug", next |-> "checking"]
    /\ LogPoints["tooLong"] = [level |-> "Error", next |-> "failed"]
    /\ LogPoints["composed"] = [level |-> "Debug", next |-> "writing"]
    /\ LogPoints["writeFailed"] = [level |-> "Error", next |-> "unlocking"]
    /\ LogPoints["sent"] = [level |-> "Debug", next |-> "idle"]
    /\ LogPoints["failed"] = [level |-> "Error", next |-> "idle"]
  BY DEF LogPoints, FailureLevel

\* A log point leads to a place, and into or out of transmitMutex never.
LEMMA LogPointNext ==
    ASSUME NEW place \in DOMAIN LogPoints
    PROVE  /\ LogPoints[place].next \in Places \ {"taking"}
           /\ LogPoints[place].level \in Levels
           /\ LogPoints[place].next \in Holding <=> place \in Holding
  BY LogPointsAre DEF Places, Holding, Levels

\* The threads are not the holder of a free mutex.
LEMMA NobodyApart == Nobody \notin Threads /\ Forwarder \notin Workers
  BY LogAssumption DEF Threads

\* Nothing is held before the first call.
LEMMA InitLock == Init => LockInv
  <1> SUFFICES ASSUME Init PROVE LockInv
    OBVIOUS
  <1>1. \A t \in Threads : pc[t] = "idle"
    BY DEF Init
  <1>2. PlacesOK
    BY <1>1, NobodyApart DEF Init, PlacesOK, Places, Threads
  <1> QED BY <1>1, <1>2, NobodyApart DEF Init, LockInv, TransmitHeld, SinkHeld, Holding, Threads

\* A call begins outside both mutexes.
LEMMA CallLock ==
    ASSUME LockInv, NEW w \in Workers, NEW kind \in {"good", "null", "too long"},
           CallSend(w, kind)
    PROVE  LockInv'
  <1>1. PICK place \in {"nullPayload", "called"} :
            pc[w] = "idle" /\ pc' = [pc EXCEPT ![w] = place]
    BY DEF CallSend, GoTo
  <1>2. /\ place \in Places /\ place \notin Holding /\ place # "taking"
        /\ UNCHANGED <<transmitMutex, sinkMutex, queue>>
    BY LogPointsAre DEF CallSend, Places, Holding
  <1>3. w \in Threads /\ w # Forwarder /\ Forwarder \in Threads /\ Workers \subseteq Threads
    BY NobodyApart DEF Threads
  <1>4. PlacesOK'
    BY <1>1, <1>2, <1>3 DEF LockInv, PlacesOK
  <1>5. TransmitHeld'
    BY <1>1, <1>2, <1>3 DEF LockInv, PlacesOK, TransmitHeld, Holding
  <1>6. sinkMutex # w
    BY <1>1, <1>3, LogPointsAre DEF LockInv, SinkHeld, AtLogPoint
  <1>7. SinkHeld'
    BY <1>1, <1>2, <1>3, <1>6 DEF LockInv, PlacesOK, SinkHeld, AtLogPoint
  <1> QED BY <1>4, <1>5, <1>7 DEF LockInv

\* The sink takes its own mutex and gives it back before the caller goes on.
LEMMA LogLock ==
    ASSUME LockInv, NEW t \in Threads, Skip(t) \/ EnterSink(t) \/ LeaveSink(t)
    PROVE  LockInv'
  <1>1. AtLogPoint(t) /\ pc[t] \in DOMAIN LogPoints
    BY DEF Skip, EnterSink, LeaveSink, AtLogPoint
  <1> DEFINE place == LogPoints[pc[t]].next
  <1>2. /\ place \in Places /\ place # "taking"
        /\ LogPoints[pc[t]].level \in Levels
        /\ place \in Holding <=> pc[t] \in Holding
        /\ pc[t] # "taking"
    BY <1>1, LogPointNext, LogPointsAre
  <1> HIDE DEF place
  <1>3. transmitMutex' = transmitMutex
    BY DEF Skip, EnterSink, LeaveSink
  <1>4. CASE Skip(t)
    <2>1. /\ pc' = [pc EXCEPT ![t] = place] /\ UNCHANGED <<sinkMutex, queue>>
          /\ ~ Compiled(LogPoints[pc[t]].level)
      BY <1>4 DEF Skip, GoTo, place
    <2>2. sinkMutex # t
      BY <1>2, <2>1 DEF LockInv, SinkHeld
    <2>3. PlacesOK'
      BY <1>2, <2>1 DEF LockInv, PlacesOK
    <2>4. TransmitHeld'
      BY <1>2, <1>3, <2>1 DEF LockInv, PlacesOK, TransmitHeld
    <2>5. SinkHeld'
      BY <1>2, <2>1, <2>2 DEF LockInv, PlacesOK, SinkHeld, AtLogPoint
    <2> QED BY <2>3, <2>4, <2>5 DEF LockInv
  <1>5. CASE EnterSink(t)
    <2>1. /\ sinkMutex = Nobody /\ sinkMutex' = t /\ UNCHANGED <<pc, queue>>
          /\ Compiled(LogPoints[pc[t]].level)
      BY <1>5 DEF EnterSink
    <2>2. PlacesOK' /\ TransmitHeld'
      BY <1>3, <2>1 DEF LockInv, PlacesOK, TransmitHeld
    <2>3. SinkHeld'
      BY <1>1, <2>1, NobodyApart DEF LockInv, SinkHeld, AtLogPoint, Threads, Compiled
    <2> QED BY <2>2, <2>3 DEF LockInv
  <1>6. CASE LeaveSink(t)
    <2>1. /\ sinkMutex = t /\ sinkMutex' = Nobody /\ pc' = [pc EXCEPT ![t] = place]
          /\ queue' = IF Len(queue) < QueueSize
                      THEN Append(queue, LogPoints[pc[t]].level) ELSE queue
      BY <1>6 DEF LeaveSink, GoTo, place
    <2>2. queue' \in Seq(Levels) /\ (queue # <<>> => queue' # <<>>)
      BY <1>2, <2>1 DEF LockInv, PlacesOK
    <2>3. pc[Forwarder] # "taking"
      BY <1>2, <2>1 DEF LockInv, SinkHeld
    <2>4. PlacesOK'
      BY <1>2, <2>1, <2>2, <2>3 DEF LockInv, PlacesOK, Threads
    <2>5. TransmitHeld'
      BY <1>2, <1>3, <2>1 DEF LockInv, PlacesOK, TransmitHeld
    <2>6. SinkHeld'
      BY <1>2, <2>1, <2>3, NobodyApart DEF LockInv, PlacesOK, SinkHeld, Threads
    <2> QED BY <2>4, <2>5, <2>6 DEF LockInv
  <1> QED BY <1>4, <1>5, <1>6

\* The rest of Send takes transmitMutex with the sink's mutex free of its thread.
LEMMA SendLock ==
    ASSUME LockInv, NEW t \in Threads,
           Check(t) \/ Lock(t) \/ WriteSucceeds(t) \/ WriteFails(t) \/ Unlock(t)
    PROVE  LockInv'
  <1>1. pc[t] \in {"checking", "locking", "writing", "unlocking"}
    BY DEF Check, Lock, WriteSucceeds, WriteFails, Unlock
  <1>2. UNCHANGED <<sinkMutex, queue>> /\ sinkMutex # t
    BY <1>1, LogPointsAre
       DEF Check, Lock, WriteSucceeds, WriteFails, Unlock, LockInv, SinkHeld, AtLogPoint
  <1>3. PICK place \in {"tooLong", "locking", "composed", "sent", "writeFailed", "failed"} :
            pc' = [pc EXCEPT ![t] = place]
    BY DEF Check, Lock, WriteSucceeds, WriteFails, Unlock, GoTo
  <1>4. place \in Places /\ place # "taking"
    BY LogPointsAre DEF Places
  <1>5. PlacesOK'
    BY <1>1, <1>2, <1>3, <1>4 DEF LockInv, PlacesOK
  <1>6. SinkHeld'
    BY <1>1, <1>2, <1>3, <1>4 DEF LockInv, PlacesOK, SinkHeld, AtLogPoint
  <1>7. TransmitHeld'
    <2>1. CASE Check(t)
      BY <1>3, <2>1 DEF Check, GoTo, LockInv, PlacesOK, TransmitHeld, Holding
    <2>2. CASE Lock(t)
      BY <1>3, <2>2, NobodyApart DEF Lock, GoTo, LockInv, PlacesOK, TransmitHeld, Holding
    <2>3. CASE WriteSucceeds(t)
      BY <1>3, <2>3, NobodyApart
         DEF WriteSucceeds, GoTo, LockInv, PlacesOK, TransmitHeld, Holding
    <2>4. CASE WriteFails(t)
      BY <1>3, <2>4 DEF WriteFails, GoTo, LockInv, PlacesOK, TransmitHeld, Holding
    <2>5. CASE Unlock(t)
      BY <1>3, <2>5, NobodyApart
         DEF Unlock, Release, GoTo, LockInv, PlacesOK, TransmitHeld, Holding
    <2> QED BY <2>1, <2>2, <2>3, <2>4, <2>5
  <1> QED BY <1>5, <1>6, <1>7 DEF LockInv

\* The forwarder takes the record and lets go of the queue before it sends.
LEMMA ForwarderLock ==
    ASSUME LockInv, EnterQueue \/ Forward
    PROVE  LockInv'
  <1>1. Forwarder \in Threads /\ transmitMutex' = transmitMutex
    BY DEF Threads, EnterQueue, Forward
  <1>2. CASE EnterQueue
    <2>1. /\ pc[Forwarder] = "idle" /\ queue # <<>> /\ sinkMutex = Nobody
          /\ sinkMutex' = Forwarder /\ queue' = queue
          /\ pc' = [pc EXCEPT ![Forwarder] = "taking"]
      BY <1>2 DEF EnterQueue, GoTo
    <2>2. PlacesOK'
      BY <1>1, <2>1, NobodyApart DEF LockInv, PlacesOK, Places, Threads
    <2>3. TransmitHeld'
      BY <1>1, <2>1 DEF LockInv, PlacesOK, TransmitHeld, Holding
    <2>4. SinkHeld'
      BY <1>1, <2>1, NobodyApart DEF LockInv, PlacesOK, SinkHeld
    <2> QED BY <2>2, <2>3, <2>4 DEF LockInv
  <1>3. CASE Forward
    <2>1. /\ pc[Forwarder] = "taking" /\ sinkMutex' = Nobody /\ queue' = Tail(queue)
          /\ pc' = [pc EXCEPT ![Forwarder] = "called"]
      BY <1>3 DEF Forward, GoTo
    <2>2. queue' \in Seq(Levels)
      BY <2>1 DEF LockInv, PlacesOK
    <2>3. PlacesOK'
      BY <1>1, <2>1, <2>2, NobodyApart, LogPointsAre DEF LockInv, PlacesOK, Places, Threads
    <2>4. TransmitHeld'
      BY <1>1, <2>1 DEF LockInv, PlacesOK, TransmitHeld, Holding
    <2>5. SinkHeld'
      BY <1>1, <2>1, NobodyApart DEF LockInv, PlacesOK, SinkHeld
    <2> QED BY <2>3, <2>4, <2>5 DEF LockInv
  <1> QED BY <1>2, <1>3

\* Every step takes and gives back the mutexes so.
LEMMA NextLock == LockInv /\ [Next]_vars => LockInv'
  <1> SUFFICES ASSUME LockInv, [Next]_vars PROVE LockInv'
    OBVIOUS
  <1>1. CASE Finished \/ UNCHANGED vars
    BY <1>1 DEF Finished, vars, LockInv, PlacesOK, TransmitHeld, SinkHeld, AtLogPoint, Compiled
  <1> QED
    BY <1>1, CallLock, LogLock, SendLock, ForwarderLock DEF Next, Step

\* The lock order: a thread that holds the sink's mutex waits for nobody, and one
\* that holds transmitMutex at most for such a thread.
THEOREM Ordered == Spec => []LocksOrdered
  <1>1. LockInv => LocksOrdered
    <2> SUFFICES ASSUME LockInv, NEW t \in Threads, NEW u \in Threads, NEW v \in Threads,
                        NEW w \in Threads, WaitsFor(t, u), WaitsFor(u, v), WaitsFor(v, w)
                 PROVE  FALSE
      BY DEF LocksOrdered
    <2>1. ASSUME NEW x \in Threads, NEW y \in Threads, sinkMutex = x
          PROVE  ~ WaitsFor(x, y)
      BY <2>1, LogPointsAre DEF LockInv, SinkHeld, WaitsFor, AtLogPoint
    <2>2. sinkMutex # u /\ sinkMutex # v
      BY <2>1
    <2>3. /\ pc[t] = "locking" /\ transmitMutex = u
          /\ pc[u] = "locking" /\ transmitMutex = v
      BY <2>2 DEF WaitsFor
    <2> QED BY <2>3 DEF LockInv, TransmitHeld, Holding
  <1> QED BY <1>1, InitLock, NextLock, PTL DEF Spec

-----------------------------------------------------------------------------
(***************************************************************************)
(* A failure of the link is reported.                                      *)
(***************************************************************************)

\* The levels that Send logs at, of those compiled in: Errors, and at level 4
\* what it does step by step.
Recorded == IF LogLevel = 4 THEN {"Error", "Debug"} ELSE {"Error"}

Records ==
    /\ queue \in Seq(Recorded)
    /\ carried \in Recorded
    /\ payload \in [Threads -> {"good", "null", "too long"}]
    /\ payload[Forwarder] = "good"
    /\ pc[Forwarder] \notin {"nullPayload", "tooLong"}

\* The thread will log an Error before it is done.
WillLog(t) == pc[t] \in {"writeFailed", "unlocking", "failed"}

\* The forwarder has a record on the way whose arrival tells the host or, where
\* the Debug level is compiled in, makes the next one.
Underway ==
    \/ pc[Forwarder] \in {"called", "checking", "locking", "composed", "writing"}
    \/ pc[Forwarder] = "sent" /\ LogLevel = 4

\* A failure the host has not heard of is in the queue or on its way.
Pending == ~ heard => queue # <<>> \/ Underway \/ \E t \in Threads : WillLog(t)

HeardInv == LockInv /\ Records /\ Pending

\* Errors are compiled in; Debug records at level 4 only.
LEMMA CompiledIs ==
    ASSUME LogLevel > 0
    PROVE  /\ Compiled("Error")
           /\ Compiled("Debug") <=> LogLevel = 4
  BY LogAssumption DEF Compiled, Rank

\* A thread that logs leaves a record in the queue, a recorded one.
LEMMA LeaveQueue ==
    ASSUME LogLevel > 0, HeardInv, NEW t \in Threads, LeaveSink(t)
    PROVE  queue' \in Seq(Recorded) /\ queue' # <<>>
  <1> DEFINE level == LogPoints[pc[t]].level
  <1>1. /\ queue' = IF Len(queue) < QueueSize THEN Append(queue, level) ELSE queue
        /\ AtLogPoint(t) /\ sinkMutex = t
    BY DEF LeaveSink
  <1>2. pc[t] \in DOMAIN LogPoints /\ pc[t] # "taking" /\ level \in {"Error", "Debug"}
    BY <1>1, LogPointsAre DEF AtLogPoint
  <1>3. Compiled(level)
    BY <1>1, <1>2 DEF HeardInv, LockInv, SinkHeld
  <1>4. level \in Recorded
    BY <1>2, <1>3, CompiledIs DEF Recorded
  <1> HIDE DEF level
  <1>5. queue \in Seq(Recorded)
    BY DEF HeardInv, Records
  <1>6. CASE Len(queue) < QueueSize
    BY <1>1, <1>4, <1>5, <1>6
  <1>7. CASE ~ (Len(queue) < QueueSize)
    <2>1. queue # <<>>
      <3>1. Len(<<>>) = 0 /\ 0 < QueueSize
        BY LogAssumption
      <3> QED BY <1>7, <3>1
    <2> QED BY <1>1, <1>5, <1>7, <2>1
  <1> QED BY <1>6, <1>7

\* A step of a thread inside Send.
LEMMA StepHeard ==
    ASSUME LogLevel > 0, HeardInv, NEW t \in Threads, Step(t)
    PROVE  Records' /\ Pending'
  <1>0. /\ pc \in [Threads -> Places] /\ payload[Forwarder] = "good"
        /\ Forwarder \in Threads /\ carried \in Recorded
        /\ pc[Forwarder] \notin {"nullPayload", "tooLong"}
    BY DEF HeardInv, LockInv, PlacesOK, Records, Threads
  <1>7. payload \in [Threads -> {"good", "null", "too long"}]
    BY DEF HeardInv, Records
  <1>1. CASE LeaveSink(t)
    <2>1. Pending'
      BY <1>1, LeaveQueue DEF Pending
    <2>2. pc' = [pc EXCEPT ![t] = LogPoints[pc[t]].next] /\ pc[t] \in DOMAIN LogPoints
      BY <1>1 DEF LeaveSink, GoTo, AtLogPoint
    <2>3. pc'[Forwarder] \notin {"nullPayload", "tooLong"}
      BY <1>0, <2>2, LogPointsAre
    <2> QED BY <1>0, <1>1, <1>7, <2>1, <2>3, LeaveQueue DEF Records, LeaveSink
  <1>2. CASE Skip(t)
    <2>1. /\ pc' = [pc EXCEPT ![t] = LogPoints[pc[t]].next] /\ pc[t] \in DOMAIN LogPoints
          /\ UNCHANGED <<queue, carried, payload, heard>>
          /\ ~ Compiled(LogPoints[pc[t]].level)
      BY <1>2 DEF Skip, GoTo, AtLogPoint
    <2>2. pc[t] \in {"called", "composed", "sent"} /\ LogLevel # 4
      BY <2>1, LogPointsAre, CompiledIs
    <2>3. pc'[Forwarder] \notin {"nullPayload", "tooLong"}
      BY <1>0, <2>1, <2>2, LogPointsAre
    <2>4. Underway => Underway'
      BY <1>0, <2>1, <2>2, LogPointsAre DEF Underway
    <2>5. \A u \in Threads : WillLog(u) => WillLog(u)'
      BY <1>0, <2>1, <2>2 DEF WillLog
    <2> QED BY <1>0, <2>1, <2>3, <2>4, <2>5 DEF HeardInv, Records, Pending
  <1>3. CASE EnterSink(t)
    BY <1>3 DEF EnterSink, HeardInv, Records, Pending, Underway, WillLog
  <1>4. CASE WriteFails(t)
    <2>1. /\ pc' = [pc EXCEPT ![t] = "writeFailed"]
          /\ UNCHANGED <<queue, carried, payload>>
      BY <1>4 DEF WriteFails, GoTo
    <2> QED BY <1>0, <2>1 DEF HeardInv, Records, Pending, WillLog
  <1>5. CASE Check(t) \/ Lock(t) \/ Unlock(t)
    <2>1. /\ UNCHANGED <<queue, carried, payload, heard>>
          /\ \/ /\ pc[t] = "checking"
                /\ pc' = [pc EXCEPT ![t] = IF payload[t] = "too long" THEN "tooLong"
                                                                     ELSE "locking"]
             \/ pc[t] = "locking" /\ pc' = [pc EXCEPT ![t] = "composed"]
             \/ pc[t] = "unlocking" /\ pc' = [pc EXCEPT ![t] = "failed"]
      BY <1>5 DEF Check, Lock, Unlock, GoTo
    <2>2. pc'[Forwarder] \notin {"nullPayload", "tooLong"} /\ (Underway => Underway')
      BY <1>0, <2>1 DEF Underway
    <2>3. \A u \in Threads : WillLog(u) => WillLog(u)'
      BY <1>0, <2>1 DEF WillLog
    <2> QED BY <1>0, <2>1, <2>2, <2>3 DEF HeardInv, Records, Pending
  <1>6. CASE WriteSucceeds(t)
    <2>1. /\ pc[t] = "writing" /\ pc' = [pc EXCEPT ![t] = "sent"]
          /\ UNCHANGED <<queue, carried, payload>>
          /\ heard' = (heard \/ (t = Forwarder /\ carried = "Error"))
      BY <1>6 DEF WriteSucceeds, GoTo
    <2>2. pc'[Forwarder] \notin {"nullPayload", "tooLong"}
      BY <1>0, <2>1
    <2>3. ~ heard' => (Underway => Underway')
      BY <1>0, <2>1 DEF Underway, Recorded
    <2>4. \A u \in Threads : WillLog(u) => WillLog(u)'
      BY <1>0, <2>1 DEF WillLog
    <2>5. heard => heard'
      BY <2>1
    <2> QED BY <1>0, <2>1, <2>2, <2>3, <2>4, <2>5 DEF HeardInv, Records, Pending
  <1> QED BY <1>1, <1>2, <1>3, <1>4, <1>5, <1>6 DEF Step

\* Every step leaves a failure in the queue or on its way.
LEMMA NextHeard == LogLevel > 0 /\ HeardInv /\ [Next]_vars => HeardInv'
  <1> SUFFICES ASSUME LogLevel > 0, HeardInv, [Next]_vars PROVE Records' /\ Pending'
    BY NextLock DEF HeardInv
  <1>0. /\ pc \in [Threads -> Places] /\ Forwarder \in Threads
        /\ queue \in Seq(Recorded) /\ carried \in Recorded
    BY DEF HeardInv, LockInv, PlacesOK, Records, Threads
  <1>5. payload \in [Threads -> {"good", "null", "too long"}]
    BY DEF HeardInv, Records
  <1>1. ASSUME NEW w \in Workers, NEW kind \in {"good", "null", "too long"}, CallSend(w, kind)
        PROVE  Records' /\ Pending'
    <2>1. PICK place \in {"nullPayload", "called"} :
              pc[w] = "idle" /\ pc' = [pc EXCEPT ![w] = place]
      BY <1>1 DEF CallSend, GoTo
    <2>2. /\ UNCHANGED <<queue, carried, heard>>
          /\ payload' = [payload EXCEPT ![w] = kind]
          /\ w # Forwarder /\ w \in Threads
      BY <1>1, NobodyApart DEF CallSend, Threads
    <2>3. /\ pc'[Forwarder] = pc[Forwarder] /\ payload'[Forwarder] = payload[Forwarder]
          /\ payload' \in [Threads -> {"good", "null", "too long"}]
      BY <1>0, <1>5, <2>1, <2>2
    <2>4. \A u \in Threads : WillLog(u) => WillLog(u)'
      BY <1>0, <2>1, <2>2 DEF WillLog
    <2> QED BY <2>2, <2>3, <2>4 DEF HeardInv, Records, Pending, Underway
  <1>2. CASE EnterQueue
    <2>1. /\ queue # <<>> /\ UNCHANGED <<queue, carried, payload, heard>>
          /\ pc' = [pc EXCEPT ![Forwarder] = "taking"]
      BY <1>2 DEF EnterQueue, GoTo
    <2> QED BY <1>0, <2>1 DEF HeardInv, Records, Pending
  <1>3. CASE Forward
    <2>1. /\ queue # <<>> /\ carried' = Head(queue) /\ queue' = Tail(queue)
          /\ UNCHANGED <<payload, heard>>
          /\ pc' = [pc EXCEPT ![Forwarder] = "called"]
      BY <1>3 DEF Forward, GoTo, HeardInv, LockInv, PlacesOK
    <2>2. carried' \in Recorded /\ queue' \in Seq(Recorded)
      BY <1>0, <2>1
    <2> QED BY <1>0, <2>1, <2>2 DEF HeardInv, Records, Pending, Underway
  <1>4. CASE Finished \/ UNCHANGED vars
    BY <1>4 DEF Finished, vars, HeardInv, Records, Pending, Underway, WillLog
  <1> QED BY <1>1, <1>2, <1>3, <1>4, StepHeard DEF Next

\* Whatever the failures, the queue's bound and the failed forwarding cost, when
\* everything has come to rest the host has got an Error since the last failure.
THEOREM Reported ==
    ASSUME LogLevel > 0
    PROVE  Spec => []HostLearns
  <1>1. Init => HeardInv
    <2> SUFFICES ASSUME Init PROVE Records /\ Pending
      BY InitLock DEF HeardInv
    <2>1. Forwarder \in Threads
      BY DEF Threads
    <2> QED BY <2>1 DEF Init, Records, Pending, Recorded
  <1>2. HeardInv /\ [Next]_vars => HeardInv'
    BY NextHeard
  <1>3. HeardInv => HostLearns
    <2> SUFFICES ASSUME HeardInv, AllIdle, queue = <<>> PROVE heard
      BY DEF HostLearns
    <2>1. \A t \in Threads : pc[t] = "idle"
      BY DEF AllIdle
    <2>2. pc[Forwarder] = "idle"
      BY <2>1 DEF Threads
    <2> QED BY <2>1, <2>2 DEF HeardInv, Pending, Underway, WillLog
  <1> QED BY <1>1, <1>2, <1>3, PTL DEF Spec
=============================================================================
