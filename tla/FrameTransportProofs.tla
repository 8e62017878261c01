------------------------ MODULE FrameTransportProofs ------------------------
(***************************************************************************)
(* What is proved of FrameTransport, for any number of threads, transports *)
(* and links, any assignment of one to the other, any counter width and    *)
(* any number of calls.                                                    *)
(***************************************************************************)
EXTENDS FrameTransport, SequenceTheorems, FiniteSetTheorems, TLAPS

\* NextSequence stays in the range and off the reserved 0.
LEMMA BumpType == \A n \in Sequences : Bump(n) \in Sequences
  BY TransportAssumption DEF Bump, Sequences

\* Turning to the other buffer: there are two, and turning twice comes back.
LEMMA OtherBufferType ==
    \A b \in BufferIds : /\ OtherBuffer(b) \in BufferIds /\ OtherBuffer(b) # b
                         /\ OtherBuffer(OtherBuffer(b)) = b
  BY DEF OtherBuffer, BufferIds

\* An empty buffer is not taken for a frame: its number is the reserved 0.
LEMMA NoFrameApart == NoFrame \notin Frames
  BY DEF NoFrame, Frames, Sequences

\* A link that reads has one of the two buffers.
LEMMA ReadingSlot ==
    ASSUME TypeOK, NEW l \in Links, ~ Ready(l)
    PROVE  reading[l][1].slot \in BufferIds
  <1> DEFINE s == reading[l]
  <1>1. s \in Seq(Transfers) /\ s # <<>>
    BY DEF TypeOK, Ready
  <1> HIDE DEF s
  <1>2. Len(s) \in Nat /\ Len(s) # 0
    BY <1>1
  <1>3. s[1] \in Transfers
    BY <1>1, <1>2, ElementOfSeq
  <1> QED BY <1>3 DEF s, Transfers

\* What both invariants say of the initial state.
LEMMA InitInv == Init => IInv /\ SharedInv
  <1> SUFFICES ASSUME Init PROVE IInv /\ SharedInv
    OBVIOUS
  <1>1. 1 \in Sequences /\ 0 \in BufferIds /\ 0 \in 0 .. MaxSends /\ 0 \in Nat
    BY TransportAssumption DEF Sequences, BufferIds
  <1>2. <<>> \in Seq(Transfers) /\ <<>> \in Seq(Frames)
    OBVIOUS
  <1>3. TypeOK
    BY <1>1, <1>2 DEF Init, TypeOK
  <1> QED
    BY <1>3 DEF Init, IInv, SharedInv, LockOwned, FilledIntact, ReadingFrames, ReadingApart,
       InFlightIntact, Ready

-----------------------------------------------------------------------------
(***************************************************************************)
(* One lemma per step of Send.                                             *)
(***************************************************************************)

\* A step that touches neither the lock nor the buffers, of a thread that has
\* none filled before or after it.
LEMMA OutsideLock ==
    ASSUME IInv, NEW t \in Threads, UNCHANGED bufferVars, UNCHANGED reading, TypeOK',
           pc[t] # "filled", pc'[t] # "filled",
           pc'[t] # "idle" => call'[t] \in Frames,
           \A u \in Threads \ {t} : /\ pc'[u] = pc[u] /\ call'[u] = call[u]
                                    /\ slot'[u] = slot[u]
    PROVE  IInv'
  <1>1. UNCHANGED <<mutexHeld, activeBuffer, buffers>>
    BY DEF bufferVars
  <1>2. \A u \in Threads : pc'[u] = "filled" <=> pc[u] = "filled"
    OBVIOUS
  <1>3. \A u \in Threads : pc[u] = "filled" => /\ slot'[u] = slot[u] /\ call'[u] = call[u]
    OBVIOUS
  <1>4. LockOwned'
    <2>1. mutexHeld' <=> \E u \in Threads : pc'[u] = "filled"
      BY <1>1, <1>2 DEF IInv, LockOwned
    <2>2. \A u, v \in Threads : pc'[u] = "filled" /\ pc'[v] = "filled" => u = v
      BY <1>2 DEF IInv, LockOwned
    <2>3. \A u \in Threads : pc'[u] = "filled" => slot'[u] = OtherBuffer(activeBuffer)'
      BY <1>1, <1>2, <1>3 DEF IInv, LockOwned, OtherBuffer
    <2>4. \A u \in Threads : pc'[u] # "idle" => call'[u] \in Frames
      BY DEF IInv, LockOwned
    <2> QED BY <2>1, <2>2, <2>3, <2>4 DEF LockOwned
  <1>5. FilledIntact'
    BY <1>1, <1>2, <1>3 DEF IInv, FilledIntact
  <1>6. ReadingFrames'
    BY <1>1 DEF IInv, ReadingFrames, Ready
  <1> QED BY <1>4, <1>5, <1>6 DEF IInv

\* The bound on the calls of Send.
LEMMA OneMoreSend ==
    ASSUME IInv, NEW t \in Threads, sends[t] < MaxSends,
           sends' = [sends EXCEPT ![t] = @ + 1]
    PROVE  sends' \in [Threads -> 0 .. MaxSends]
  <1>1. sends[t] + 1 \in 0 .. MaxSends
    BY TransportAssumption DEF IInv, TypeOK
  <1> QED BY <1>1 DEF IInv, TypeOK

\* Send with a null payload.
LEMMA SendNullStep ==
    ASSUME IInv, NEW t \in Threads, SendNull(t)
    PROVE  IInv'
  <1>1. TypeOK'
    <2>1. sends' \in [Threads -> 0 .. MaxSends]
      BY OneMoreSend DEF IInv, TypeOK, SendNull
    <2>2. call' \in [Threads -> Frames \cup {NoFrame}]
      BY DEF IInv, TypeOK, SendNull
    <2>3. returned' \in [Threads -> BOOLEAN]
      BY DEF IInv, TypeOK, SendNull
    <2> QED BY <2>1, <2>2, <2>3 DEF IInv, TypeOK, SendNull, bufferVars
  <1>2. \A u \in Threads \ {t} : /\ pc'[u] = pc[u] /\ call'[u] = call[u]
                                 /\ slot'[u] = slot[u]
    BY DEF IInv, TypeOK, SendNull
  <1> QED BY <1>1, <1>2, OutsideLock DEF SendNull

\* Send up to NextSequence: a new frame, in no buffer yet.
LEMMA AllocateStep ==
    ASSUME IInv, NEW t \in Threads, NEW x \in Senders[t],
           NEW payload \in Payloads \cup {TooLong}, Allocate(t, x, payload)
    PROVE  IInv'
  <1> DEFINE frame == [transport |-> x, seq |-> nextSequence[x], payload |-> payload]
  <1>1. x \in Transports
    BY TransportAssumption
  <1>2. frame \in Frames
    BY <1>1 DEF Frames, IInv, TypeOK
  <1>3. call'[t] = frame /\ call' \in [Threads -> Frames \cup {NoFrame}]
    BY <1>2 DEF Allocate, IInv, TypeOK
  <1>4. nextSequence' \in [Transports -> Sequences]
    BY <1>1, BumpType DEF Allocate, IInv, TypeOK
  <1>5. TypeOK'
    <2>1. sends' \in [Threads -> 0 .. MaxSends]
      BY OneMoreSend DEF Allocate
    <2>2. pc' \in [Threads -> {"idle", "allocated", "filled"}]
      BY DEF IInv, TypeOK, Allocate
    <2> QED BY <1>3, <1>4, <2>1, <2>2 DEF Allocate, IInv, TypeOK, bufferVars
  <1>6. /\ \A u \in Threads \ {t} : /\ pc'[u] = pc[u] /\ call'[u] = call[u]
                                    /\ slot'[u] = slot[u]
        /\ pc[t] = "idle" /\ pc'[t] = "allocated" /\ UNCHANGED bufferVars
        /\ UNCHANGED reading
    BY DEF IInv, TypeOK, Allocate
  <1> QED BY <1>2, <1>3, <1>5, <1>6, OutsideLock

\* TransmitFrame gives up before it locks.
LEMMA RefuseStep ==
    ASSUME IInv, NEW t \in Threads, Refuse(t)
    PROVE  IInv'
  <1>1. TypeOK'
    BY DEF IInv, TypeOK, Refuse, bufferVars
  <1>2. /\ \A u \in Threads \ {t} : /\ pc'[u] = pc[u] /\ call'[u] = call[u]
                                    /\ slot'[u] = slot[u]
        /\ pc[t] = "allocated" /\ pc'[t] = "idle"
    BY DEF IInv, TypeOK, Refuse
  <1> QED BY <1>1, <1>2, OutsideLock DEF Refuse

\* Nobody else has a buffer filled, so the one filled now is nobody's.
LEMMA FillStep ==
    ASSUME IInv, NEW t \in Threads, Fill(t)
    PROVE  IInv'
  <1>1. /\ ~ mutexHeld /\ mutexHeld' = TRUE /\ pc[t] = "allocated"
        /\ activeBuffer \in BufferIds /\ activeBuffer' = OtherBuffer(activeBuffer)
        /\ call' = call /\ call[t] \in Frames
    BY DEF Fill, CanLock, IInv, TypeOK, LockOwned
  <1>2. /\ pc' = [pc EXCEPT ![t] = "filled"] /\ slot' = [slot EXCEPT ![t] = activeBuffer]
        /\ buffers' = [buffers EXCEPT ![activeBuffer] = call[t]]
    BY DEF Fill
  <1>3. \A u \in Threads : pc'[u] = "filled" <=> u = t
    BY <1>1, <1>2 DEF IInv, TypeOK, LockOwned
  <1>4. slot'[t] = activeBuffer /\ buffers'[activeBuffer] = call[t]
    BY <1>1, <1>2 DEF IInv, TypeOK
  <1>5. TypeOK'
    BY <1>1, <1>2, OtherBufferType DEF Fill, IInv, TypeOK
  <1>6. LockOwned'
    <2>1. slot'[t] = OtherBuffer(activeBuffer')
      BY <1>1, <1>4, OtherBufferType
    <2>2. \A u \in Threads : pc'[u] # "idle" => call'[u] \in Frames
      BY <1>1, <1>2 DEF IInv, TypeOK, LockOwned
    <2> QED BY <1>1, <1>3, <2>1, <2>2 DEF LockOwned, OtherBuffer
  <1>7. FilledIntact'
    BY <1>1, <1>3, <1>4 DEF FilledIntact
  <1>8. ReadingFrames'
    <2>1. \A l \in Links : ~ Ready(l) => reading[l][1].slot \in BufferIds
      BY ReadingSlot DEF IInv
    <2>2. \A b \in BufferIds : buffers[b] \in Frames => buffers'[b] \in Frames
      BY <1>1, <1>2 DEF IInv, TypeOK
    <2> QED BY <2>1, <2>2 DEF Fill, IInv, ReadingFrames, Ready
  <1> QED BY <1>5, <1>6, <1>7, <1>8 DEF IInv

\* TransmitFrame and Send return.
LEMMA ReturnStep ==
    ASSUME IInv, NEW t \in Threads, pc[t] = "filled", NEW ok \in BOOLEAN, Return(t, ok),
           reading' \in [Links -> Seq(Transfers)], wire' \in [Links -> Seq(Frames)],
           ReadingFrames'
    PROVE  IInv'
  <1>1. /\ mutexHeld' = FALSE /\ pc' = [pc EXCEPT ![t] = "idle"]
        /\ UNCHANGED <<nextSequence, activeBuffer, buffers, call, slot, sends>>
        /\ returned' = [returned EXCEPT ![t] = ok]
    BY DEF Return, WriteResult
  <1>2. TypeOK'
    <2>2. returned' \in [Threads -> BOOLEAN]
      BY <1>1 DEF IInv, TypeOK
    <2>3. pc' \in [Threads -> {"idle", "allocated", "filled"}] /\ mutexHeld' \in BOOLEAN
      BY <1>1 DEF IInv, TypeOK
    <2> QED BY <1>1, <2>2, <2>3 DEF IInv, TypeOK
  <1>3. \A u \in Threads : pc'[u] # "filled" /\ (pc'[u] # "idle" => pc[u] # "idle")
    BY <1>1 DEF IInv, TypeOK, LockOwned
  <1>4. LockOwned' /\ FilledIntact'
    BY <1>1, <1>3 DEF IInv, LockOwned, FilledIntact
  <1> QED BY <1>2, <1>4 DEF IInv

\* What write_ is called with.
LEMMA FilledFrame ==
    ASSUME IInv, NEW t \in Threads, pc[t] = "filled"
    PROVE  /\ buffers[slot[t]] \in Frames /\ slot[t] \in BufferIds
           /\ LinkOf[call[t].transport] \in Links
  <1>1. call[t] \in Frames
    BY DEF IInv, LockOwned
  <1>2. call[t].transport \in Transports
    BY <1>1 DEF Frames
  <1> QED BY <1>1, <1>2, TransportAssumption DEF IInv, TypeOK, FilledIntact

\* write_ is called, whatever the link makes of it.
LEMMA WriteStep ==
    ASSUME IInv, NEW t \in Threads, Write(t)
    PROVE  IInv'
  <1> DEFINE l == LinkOf[call[t].transport]
  <1>1. pc[t] = "filled"
    BY DEF Write, WriteSync, WriteAsync, WriteFails
  <1>2. buffers[slot[t]] \in Frames /\ slot[t] \in BufferIds /\ l \in Links
    BY <1>1, FilledFrame
  <1>3. CASE WriteSync(t)
    <2>1. wire' = [wire EXCEPT ![l] = Append(@, buffers[slot[t]])]
      BY <1>3 DEF WriteSync
    <2>2. wire' \in [Links -> Seq(Frames)]
      BY <1>2, <2>1 DEF IInv, TypeOK
    <2>3. ReadingFrames'
      BY <1>3 DEF WriteSync, Return, IInv, ReadingFrames, Ready
    <2> QED BY <1>1, <1>3, <2>2, <2>3, ReturnStep DEF WriteSync, IInv, TypeOK
  <1>4. CASE WriteAsync(t)
    <2> DEFINE new == [slot |-> slot[t], frame |-> buffers[slot[t]]]
    <2>1. reading' = [reading EXCEPT ![l] = <<new>>]
      BY <1>4 DEF WriteAsync
    <2>2. new \in Transfers /\ <<new>> \in Seq(Transfers) /\ <<new>>[1] = new
      BY <1>2 DEF Transfers
    <2>3. reading' \in [Links -> Seq(Transfers)]
      BY <1>2, <2>1, <2>2 DEF IInv, TypeOK
    <2>4. \A m \in Links : reading'[m] = IF m = l THEN <<new>> ELSE reading[m]
      BY <2>1 DEF IInv, TypeOK
    <2>5. ReadingFrames'
      <3>1. buffers' = buffers
        BY <1>4 DEF WriteAsync, Return
      <3>2. new.slot = slot[t]
        OBVIOUS
      <3> QED BY <1>2, <2>2, <2>4, <3>1, <3>2 DEF IInv, ReadingFrames, Ready
    <2> QED BY <1>1, <1>4, <2>3, <2>5, ReturnStep DEF WriteAsync, IInv, TypeOK
  <1>5. CASE WriteFails(t)
    <2>1. ReadingFrames'
      BY <1>5 DEF WriteFails, Return, IInv, ReadingFrames, Ready
    <2> QED BY <1>1, <1>5, <2>1, ReturnStep DEF WriteFails, IInv, TypeOK
  <1> QED BY <1>3, <1>4, <1>5 DEF Write

\* A link comes to the end of its buffer.
LEMMA DrainStep ==
    ASSUME IInv, NEW l \in Links, Drain(l)
    PROVE  IInv'
  <1>1. /\ UNCHANGED <<nextSequence, mutexHeld, activeBuffer, buffers>>
        /\ UNCHANGED <<pc, call, slot, returned, sends>>
    BY DEF Drain, bufferVars, senderVars
  <1>2. buffers[reading[l][1].slot] \in Frames
    BY DEF Drain, IInv, ReadingFrames
  <1>3. wire' \in [Links -> Seq(Frames)]
    BY <1>2 DEF Drain, IInv, TypeOK
  <1>4. reading' \in [Links -> Seq(Transfers)] /\ reading'[l] = <<>>
    BY DEF Drain, IInv, TypeOK
  <1>5. \A m \in Links : m # l => reading'[m] = reading[m]
    BY DEF Drain, IInv, TypeOK
  <1>6. TypeOK'
    BY <1>1, <1>3, <1>4 DEF IInv, TypeOK
  <1>7. LockOwned' /\ FilledIntact'
    BY <1>1 DEF IInv, LockOwned, FilledIntact, OtherBuffer
  <1>8. ReadingFrames'
    BY <1>1, <1>4, <1>5 DEF IInv, ReadingFrames, Ready
  <1> QED BY <1>6, <1>7, <1>8 DEF IInv

\* Nothing happens.
LEMMA StutterStep == IInv /\ UNCHANGED vars => IInv'
  BY DEF vars, bufferVars, senderVars, IInv, TypeOK, LockOwned, FilledIntact, ReadingFrames,
     Ready, OtherBuffer

\* Every step preserves the inductive invariant.
LEMMA NextInv == IInv /\ [Next]_vars => IInv'
  <1> SUFFICES ASSUME IInv, [Next]_vars PROVE IInv'
    OBVIOUS
  <1>1. CASE \E t \in Threads : SendNull(t)
    BY <1>1, SendNullStep
  <1>2. CASE \E t \in Threads : \E x \in Senders[t], payload \in Payloads \cup {TooLong} :
                Allocate(t, x, payload)
    BY <1>2, AllocateStep
  <1>3. CASE \E t \in Threads : Refuse(t)
    BY <1>3, RefuseStep
  <1>4. CASE \E t \in Threads : Fill(t)
    BY <1>4, FillStep
  <1>5. CASE \E t \in Threads : Write(t)
    BY <1>5, WriteStep
  <1>6. CASE \E l \in Links : Drain(l)
    BY <1>6, DrainStep
  <1>7. CASE Finished \/ UNCHANGED vars
    BY <1>7, StutterStep DEF Finished
  <1> QED BY <1>1, <1>2, <1>3, <1>4, <1>5, <1>6, <1>7 DEF Next

\* IInv is an invariant of every program that uses the library.
THEOREM Inductive == Spec => []IInv
  BY InitInv, NextInv, PTL DEF Spec

\* Type correctness: whatever the threads send, no sequence number is the
\* reserved 0 and what a link sends is a frame somebody composed.
THEOREM Typing == Spec => []TypeOK
  <1>1. IInv => TypeOK
    BY DEF IInv
  <1> QED BY <1>1, Inductive, PTL

\* However many threads send, on however many transports, write_ is called
\* with the caller's own frame.
THEOREM Filled == Spec => []FilledIntact
  <1>1. IInv => FilledIntact
    BY DEF IInv
  <1> QED BY <1>1, Inductive, PTL

-----------------------------------------------------------------------------
(***************************************************************************)
(* Two transmit buffers are enough in two kinds of program: if no link     *)
(* reads its buffer after write_ has returned, or if all transports share  *)
(* one link, and its write_ does not fail while the link reads.  Then that *)
(* link takes the second frame, or refuses it, only when it is done with   *)
(* the first, so the frame after that finds the first buffer free.         *)
(***************************************************************************)
TwoBuffersEnough ==
    \/ AsyncLinks = {}
    \/ AsyncLinks \cap FailsAtOnce = {} /\ \A l, m \in Links : l = m

\* The buffer that is composed next is not the one the link reads.
LEMMA SharedFill ==
    ASSUME IInv, SharedInv, NEW t \in Threads, Fill(t)
    PROVE  SharedInv'
  <1>1. /\ ~ mutexHeld /\ mutexHeld' = TRUE /\ activeBuffer \in BufferIds
        /\ activeBuffer' = OtherBuffer(activeBuffer) /\ reading' = reading
        /\ buffers' = [buffers EXCEPT ![activeBuffer] = call[t]]
    BY DEF Fill, CanLock, IInv, TypeOK
  <1>2. \A l \in Links : ~ Ready(l) => reading[l][1].slot = OtherBuffer(activeBuffer)
    BY <1>1 DEF SharedInv, ReadingApart
  <1>3. buffers'[OtherBuffer(activeBuffer)] = buffers[OtherBuffer(activeBuffer)]
    BY <1>1, OtherBufferType DEF IInv, TypeOK
  <1>4. ReadingApart'
    BY <1>1, <1>2 DEF SharedInv, ReadingApart, Ready
  <1>5. InFlightIntact'
    BY <1>1, <1>2, <1>3 DEF SharedInv, InFlightIntact, Ready
  <1> QED BY <1>4, <1>5 DEF SharedInv

\* The link takes a frame when it is done with the one before.
LEMMA SharedWrite ==
    ASSUME IInv, SharedInv, TwoBuffersEnough, NEW t \in Threads, Write(t)
    PROVE  SharedInv'
  <1> DEFINE l == LinkOf[call[t].transport]
  <1>1. /\ pc[t] = "filled" /\ mutexHeld' = FALSE
        /\ buffers' = buffers /\ activeBuffer' = activeBuffer
    BY DEF Write, WriteSync, WriteAsync, WriteFails, Return
  <1>2. l \in Links /\ AsyncLinks \subseteq Links
    BY <1>1, FilledFrame, TransportAssumption
  <1>3. CASE WriteSync(t) \/ WriteFails(t)
    <2>0. ~ Ready(l) => l \in AsyncLinks \cap FailsAtOnce
      BY <1>2, <1>3 DEF WriteSync, WriteFails, SharedInv, ReadingApart
    <2>1. Ready(l) /\ reading' = reading
      BY <1>2, <1>3, <2>0 DEF WriteSync, WriteFails, TwoBuffersEnough, SharedInv, ReadingApart
    <2>2. \A m \in Links : Ready(m)'
      BY <1>2, <2>1 DEF Ready, TwoBuffersEnough, SharedInv, ReadingApart
    <2> QED BY <2>2 DEF SharedInv, ReadingApart, InFlightIntact
  <1>4. CASE WriteAsync(t)
    <2>0. l \in AsyncLinks /\ \A m \in Links : m = l
      BY <1>2, <1>4 DEF WriteAsync, TwoBuffersEnough
    <2> DEFINE new == [slot |-> slot[t], frame |-> buffers[slot[t]]]
    <2>1. reading'[l] = <<new>>
      BY <1>2, <1>4 DEF WriteAsync, IInv, TypeOK
    <2>2. /\ reading'[l][1].slot = slot[t]
          /\ reading'[l][1].frame = buffers[slot[t]]
      BY <2>1
    <2>3. slot[t] = OtherBuffer(activeBuffer)
      BY <1>1 DEF IInv, LockOwned
    <2>4. ReadingApart'
      BY <1>1, <2>0, <2>2, <2>3 DEF ReadingApart, OtherBuffer
    <2>5. InFlightIntact'
      BY <1>1, <2>0, <2>2 DEF InFlightIntact
    <2> QED BY <2>4, <2>5 DEF SharedInv
  <1> QED BY <1>3, <1>4 DEF Write

\* A link that is done reads nothing.
LEMMA SharedDrain ==
    ASSUME IInv, SharedInv, NEW l \in Links, Drain(l)
    PROVE  SharedInv'
  <1>1. UNCHANGED <<mutexHeld, activeBuffer, buffers>>
    BY DEF Drain, bufferVars
  <1>2. \A m \in Links : reading'[m] = <<>> \/ reading'[m] = reading[m]
    BY DEF Drain, IInv, TypeOK
  <1>3. \A m \in Links : ~ Ready(m)' => ~ Ready(m) /\ reading'[m] = reading[m]
    BY <1>2 DEF Ready
  <1>4. ReadingApart'
    BY <1>1, <1>3 DEF SharedInv, ReadingApart, OtherBuffer
  <1>5. InFlightIntact'
    BY <1>1, <1>3 DEF SharedInv, InFlightIntact
  <1> QED BY <1>4, <1>5 DEF SharedInv

\* The steps that leave the lock, the buffers and the links alone.
LEMMA SharedRest ==
    ASSUME SharedInv, UNCHANGED bufferVars, UNCHANGED reading
    PROVE  SharedInv'
  BY DEF bufferVars, SharedInv, ReadingApart, InFlightIntact, Ready, OtherBuffer

\* Every step of such a program keeps its buffers apart.
LEMMA SharedNext == IInv /\ SharedInv /\ TwoBuffersEnough /\ [Next]_vars => SharedInv'
  <1> SUFFICES ASSUME IInv, SharedInv, TwoBuffersEnough, [Next]_vars PROVE SharedInv'
    OBVIOUS
  <1>1. CASE \E t \in Threads : Fill(t)
    BY <1>1, SharedFill
  <1>2. CASE \E t \in Threads : Write(t)
    BY <1>2, SharedWrite
  <1>3. CASE \E l \in Links : Drain(l)
    BY <1>3, SharedDrain
  <1>4. CASE \E t \in Threads :
                \/ SendNull(t)
                \/ \E x \in Senders[t], payload \in Payloads \cup {TooLong} :
                      Allocate(t, x, payload)
                \/ Refuse(t)
    <2>1. UNCHANGED bufferVars /\ UNCHANGED reading
      BY <1>4 DEF SendNull, Allocate, Refuse
    <2> QED BY <2>1, SharedRest
  <1>5. CASE Finished \/ UNCHANGED vars
    <2>1. UNCHANGED bufferVars /\ UNCHANGED reading
      BY <1>5 DEF Finished, vars
    <2> QED BY <2>1, SharedRest
  <1> QED BY <1>1, <1>2, <1>3, <1>4, <1>5 DEF Next

\* A frame is never composed in the buffer a link still reads.
LEMMA SharedInductive ==
    ASSUME TwoBuffersEnough
    PROVE  Spec => [](IInv /\ SharedInv)
  <1>1. Init => IInv /\ SharedInv
    BY InitInv
  <1>2. IInv /\ SharedInv /\ [Next]_vars => (IInv /\ SharedInv)'
    BY NextInv, SharedNext
  <1> QED BY <1>1, <1>2, PTL DEF Spec

\* What a link reads stays what it was handed until the link is done with it.
THEOREM InFlight ==
    ASSUME TwoBuffersEnough
    PROVE  Spec => []InFlightIntact
  <1>1. IInv /\ SharedInv => InFlightIntact
    BY DEF SharedInv
  <1> QED BY <1>1, SharedInductive, PTL

-----------------------------------------------------------------------------
(***************************************************************************)
(* The frames a link has accepted: that FrameTransport implements          *)
(* FrameSender, and the properties of the order and the numbers of the     *)
(* frames on the wire.  All of it is about programs for which two transmit *)
(* buffers are enough.                                                     *)
(***************************************************************************)
\* A link reads at most one buffer.
OneTransfer == \A l \in Links : Len(reading[l]) <= 1

LinkInv == IInv /\ SharedInv /\ OneTransfer

\* A transfer begins on a link that is ready, and ends with nothing to read.
LEMMA OneTransferNext == IInv /\ OneTransfer /\ [Next]_vars => OneTransfer'
  <1> SUFFICES ASSUME IInv, OneTransfer, [Next]_vars PROVE OneTransfer'
    OBVIOUS
  <1> USE DEF OneTransfer
  <1>1. ASSUME NEW t \in Threads, WriteAsync(t)
        PROVE  OneTransfer'
    <2> DEFINE new == [slot |-> slot[t], frame |-> buffers[slot[t]]]
               l   == LinkOf[call[t].transport]
    <2>1. reading' = [reading EXCEPT ![l] = <<new>>]
      BY <1>1 DEF WriteAsync
    <2>2. Len(<<new>>) = 1
      OBVIOUS
    <2> QED BY <2>1, <2>2 DEF IInv, TypeOK
  <1>2. ASSUME NEW l \in Links, Drain(l)
        PROVE  OneTransfer'
    <2>1. reading' = [reading EXCEPT ![l] = <<>>] /\ Len(<<>>) <= 1
      BY <1>2 DEF Drain
    <2> QED BY <2>1 DEF IInv, TypeOK
  <1>3. CASE UNCHANGED reading
    BY <1>3
  <1> QED
    BY <1>1, <1>2, <1>3 DEF Next, vars, SendNull, Allocate, Refuse, Fill, Write, WriteSync,
       WriteFails, Finished

\* LinkInv is an invariant of a program for which two buffers are enough.
LEMMA LinkInductive ==
    ASSUME TwoBuffersEnough
    PROVE  Spec => []LinkInv
  <1>1. Init => OneTransfer
    BY DEF Init, OneTransfer
  <1>2. IInv /\ OneTransfer /\ [Next]_vars => OneTransfer'
    BY OneTransferNext
  <1> QED BY <1>1, <1>2, SharedInductive, PTL DEF Spec, LinkInv

-----------------------------------------------------------------------------
(***************************************************************************)
(* What a link has accepted.                                               *)
(***************************************************************************)

\* A sequence with nothing or one thing behind it.
LEMMA ConcatNone ==
    ASSUME NEW S, NEW s \in Seq(S), NEW f, DOMAIN f = {}, f = [i \in DOMAIN f |-> f[i]]
    PROVE  s \o f = s
  <1>1. f \in [1 .. 0 -> S]
    OBVIOUS
  <1>2. f \in Seq(S) /\ Len(f) = 0
    BY <1>1
  <1>3. f = <<>>
    BY <1>2, EmptySeq
  <1> QED BY <1>3, ConcatEmptySeq

\* Appending one element, as a concatenation.
LEMMA ConcatOne ==
    ASSUME NEW S, NEW s \in Seq(S), NEW e \in S, NEW f, f = [i \in 1 .. 1 |-> e]
    PROVE  s \o f = Append(s, e)
  <1>1. f \in [1 .. 1 -> S]
    OBVIOUS
  <1>2. f \in Seq(S) /\ Len(f) = 1 /\ f[1] = e
    BY <1>1
  <1>3. <<e>> \in Seq(S) /\ Len(<<e>>) = 1 /\ <<e>>[1] = e
    OBVIOUS
  <1>4. f = <<e>>
    BY <1>2, <1>3, SeqEqual
  <1> QED BY <1>4, AppendIsConcat

\* A sequence of at most one element that is not empty has one.
LEMMA LenOne ==
    ASSUME NEW S, NEW s \in Seq(S), s # <<>>, Len(s) <= 1
    PROVE  Len(s) = 1
  <1>1. Len(s) \in Nat \ {0}
    BY EmptySeq
  <1> QED BY <1>1

\* A link has accepted what it has sent and the frame it reads.
LEMMA AcceptedIs ==
    LinkInv => \A l \in Links :
        /\ Ready(l) => Accepted(l) = wire[l]
        /\ ~ Ready(l) => /\ Accepted(l) = Append(wire[l], reading[l][1].frame)
                         /\ buffers[reading[l][1].slot] = reading[l][1].frame
                         /\ reading[l][1].frame \in Frames
                         /\ Len(reading[l]) = 1
        /\ wire[l] \in Seq(Frames)
        /\ Accepted(l) \in Seq(Frames)
  <1> SUFFICES ASSUME LinkInv, NEW l \in Links
               PROVE  /\ Ready(l) => Accepted(l) = wire[l]
                      /\ ~ Ready(l) =>
                            /\ Accepted(l) = Append(wire[l], reading[l][1].frame)
                            /\ buffers[reading[l][1].slot] = reading[l][1].frame
                            /\ reading[l][1].frame \in Frames
                            /\ Len(reading[l]) = 1
                      /\ wire[l] \in Seq(Frames)
                      /\ Accepted(l) \in Seq(Frames)
    OBVIOUS
  <1> DEFINE held == [i \in DOMAIN reading[l] |-> buffers[reading[l][i].slot]]
  <1>1. wire[l] \in Seq(Frames) /\ reading[l] \in Seq(Transfers)
    BY DEF LinkInv, IInv, TypeOK
  <1>2. Accepted(l) = wire[l] \o held
    BY DEF Accepted
  <1>3. CASE Ready(l)
    <2>1. DOMAIN held = {}
      BY <1>3 DEF Ready
    <2>2. held = [i \in DOMAIN held |-> held[i]]
      OBVIOUS
    <2> HIDE DEF held
    <2>3. wire[l] \o held = wire[l]
      BY <1>1, <2>1, <2>2, ConcatNone
    <2> QED BY <1>1, <1>2, <1>3, <2>3
  <1>4. CASE ~ Ready(l)
    <2> DEFINE frame == reading[l][1].frame
    <2>1. Len(reading[l]) = 1
      <3>1. reading[l] # <<>> /\ Len(reading[l]) <= 1
        BY <1>4 DEF LinkInv, OneTransfer, Ready
      <3> QED BY <1>1, <3>1, LenOne
    <2>2. DOMAIN reading[l] = 1 .. 1
      BY <1>1, <2>1
    <2>3. buffers[reading[l][1].slot] = frame /\ frame \in Frames
      BY <1>4 DEF LinkInv, IInv, SharedInv, InFlightIntact, ReadingFrames
    <2>4. held = [i \in 1 .. 1 |-> frame]
      BY <2>2, <2>3
    <2> HIDE DEF held, frame
    <2>5. wire[l] \o held = Append(wire[l], frame)
      BY <1>1, <2>3, <2>4, ConcatOne
    <2> QED BY <1>1, <1>2, <1>4, <2>1, <2>3, <2>5 DEF frame
  <1> QED BY <1>3, <1>4

\* The same of the next state.
LEMMA AcceptedIsNext ==
    LinkInv' => (\A l \in Links :
        /\ Ready(l) => Accepted(l) = wire[l]
        /\ ~ Ready(l) => /\ Accepted(l) = Append(wire[l], reading[l][1].frame)
                         /\ buffers[reading[l][1].slot] = reading[l][1].frame
                         /\ reading[l][1].frame \in Frames
                         /\ Len(reading[l]) = 1
        /\ wire[l] \in Seq(Frames)
        /\ Accepted(l) \in Seq(Frames))'
  BY AcceptedIs, PTL

\* A step in which links accept nothing, and one in which the link of t's frame
\* accepts it.
Keeps == \A m \in Links : Accepted(m)' = Accepted(m)

Accepts(t) ==
    \A m \in Links :
        Accepted(m)' = IF m = LinkOf[call[t].transport] THEN Append(Accepted(m), call[t])
                                                       ELSE Accepted(m)

\* What a link has accepted depends on what it has sent and what it reads.
LEMMA AcceptedSame ==
    ASSUME LinkInv, LinkInv', NEW m \in Links, wire'[m] = wire[m], reading'[m] = reading[m]
    PROVE  Accepted(m)' = Accepted(m)
  <1>1. Ready(m)' <=> Ready(m)
    BY DEF Ready
  <1> QED BY <1>1, AcceptedIs, AcceptedIsNext

\* write_ succeeds: the link has accepted the caller's frame.
LEMMA WriteAccepts ==
    ASSUME LinkInv, LinkInv', NEW t \in Threads, WriteSync(t) \/ WriteAsync(t)
    PROVE  Accepts(t)
  <1>0. pc[t] = "filled"
    BY DEF WriteSync, WriteAsync
  <1>1. PICK l \in Links : l = LinkOf[call[t].transport] /\ Ready(l)
    BY <1>0, FilledFrame DEF LinkInv, WriteSync, WriteAsync
  <1>2. /\ buffers[slot[t]] = call[t]
        /\ buffers[slot[t]] \in Frames /\ slot[t] \in BufferIds
    BY <1>0, FilledFrame DEF LinkInv, IInv, FilledIntact
  <1>3. Accepted(l) = wire[l]
    BY <1>1, AcceptedIs
  <1>4. CASE WriteSync(t)
    <2>1. wire' = [wire EXCEPT ![l] = Append(@, call[t])] /\ reading' = reading
      BY <1>1, <1>2, <1>4 DEF WriteSync
    <2>2. \A m \in Links \ {l} : wire'[m] = wire[m] /\ reading'[m] = reading[m]
      BY <2>1 DEF LinkInv, IInv, TypeOK
    <2>3. wire'[l] = Append(wire[l], call[t]) /\ Ready(l)'
      BY <1>1, <1>2, <2>1 DEF LinkInv, IInv, TypeOK, Ready
    <2>4. Accepted(l)' = Append(Accepted(l), call[t])
      BY <1>2, <1>3, <2>3, AcceptedIsNext
    <2> QED BY <1>1, <2>2, <2>4, AcceptedSame DEF Accepts
  <1>5. CASE WriteAsync(t)
    <2> DEFINE new == [slot |-> slot[t], frame |-> call[t]]
    <2>1. reading' = [reading EXCEPT ![l] = <<new>>] /\ wire' = wire
      BY <1>1, <1>2, <1>5 DEF WriteAsync
    <2>2. \A m \in Links \ {l} : wire'[m] = wire[m] /\ reading'[m] = reading[m]
      BY <2>1 DEF LinkInv, IInv, TypeOK
    <2>3. reading'[l] = <<new>> /\ wire'[l] = wire[l]
      BY <1>2, <2>1 DEF LinkInv, IInv, TypeOK
    <2>4. ~ Ready(l)' /\ reading'[l][1].frame = call[t]
      BY <2>3 DEF Ready
    <2>5. Accepted(l)' = Append(Accepted(l), call[t])
      BY <1>2, <1>3, <2>3, <2>4, AcceptedIsNext
    <2> QED BY <1>1, <2>2, <2>5, AcceptedSame DEF Accepts
  <1> QED BY <1>4, <1>5

\* A link that is done with its buffer has accepted nothing new.
LEMMA DrainKeeps ==
    ASSUME LinkInv, LinkInv', NEW l \in Links, Drain(l)
    PROVE  Keeps
  <1> DEFINE frame == reading[l][1].frame
  <1>1. ~ Ready(l)
    BY DEF Drain
  <1>2. /\ Accepted(l) = Append(wire[l], frame)
        /\ buffers[reading[l][1].slot] = frame
    BY <1>1, AcceptedIs
  <1>3. /\ wire' = [wire EXCEPT ![l] = Append(@, frame)]
        /\ reading' = [reading EXCEPT ![l] = <<>>]
    BY <1>2 DEF Drain
  <1> HIDE DEF frame
  <1>4. Ready(l)' /\ wire'[l] = Append(wire[l], frame)
    BY <1>3 DEF LinkInv, IInv, TypeOK, Ready
  <1>5. Accepted(l)' = Accepted(l)
    BY <1>2, <1>4, AcceptedIsNext
  <1>6. \A m \in Links \ {l} : wire'[m] = wire[m] /\ reading'[m] = reading[m]
    BY <1>3 DEF LinkInv, IInv, TypeOK
  <1> QED BY <1>5, <1>6, AcceptedSame DEF Keeps

\* Nor has any link in the steps that hand nothing over.
LEMMA RestKeeps ==
    ASSUME LinkInv, LinkInv', UNCHANGED <<wire, reading>>
    PROVE  Keeps
  BY AcceptedSame DEF Keeps

-----------------------------------------------------------------------------
(***************************************************************************)
(* FrameTransport implements FrameSender.                                  *)
(***************************************************************************)

\* The mapping's pending frames and accepted frames.
Pending == [t \in Threads |-> IF pc[t] = "idle" THEN {} ELSE {call[t]}]
AcceptedAll == [l \in Links |-> Accepted(l)]

\* A link that is left alone has accepted what it had accepted.
LEMMA KeepsAll == Keeps => AcceptedAll' = AcceptedAll
  BY DEF Keeps, AcceptedAll

\* What a link has accepted after it accepts one more frame.
LEMMA AcceptsAll ==
    ASSUME NEW t \in Threads, NEW l \in Links, l = LinkOf[call[t].transport], Accepts(t)
    PROVE  AcceptedAll' = [AcceptedAll EXCEPT ![l] = Append(@, call[t])]
  BY DEF Accepts, AcceptedAll

\* The start of Send is a call.
LEMMA AllocateRefines ==
    ASSUME LinkInv, Keeps, NEW t \in Threads, NEW x \in Senders[t],
           NEW payload \in Payloads \cup {TooLong}, Allocate(t, x, payload)
    PROVE  Sender!Call(t)
  <1> DEFINE frame == [transport |-> x, seq |-> nextSequence[x], payload |-> payload]
  <1>1. x \in Transports
    BY TransportAssumption
  <1>2. Pending[t] = {} /\ Pending' = [Pending EXCEPT ![t] = {frame}]
    BY DEF Allocate, Pending, LinkInv, IInv, TypeOK
  <1>3. /\ nextSequence' = [nextSequence EXCEPT ![x] = Bump(@)]
        /\ returned' = returned /\ AcceptedAll' = AcceptedAll
    BY KeepsAll DEF Allocate
  <1> QED BY <1>1, <1>2, <1>3 DEF Sender!Call, Pending, AcceptedAll

\* A null payload is a refusal, without a call.
LEMMA SendNullRefines ==
    ASSUME LinkInv, Keeps, NEW t \in Threads, SendNull(t)
    PROVE  Sender!Refuse(t)
  <1>1. Pending' = [Pending EXCEPT ![t] = {}]
    BY DEF SendNull, Pending, LinkInv, IInv, TypeOK
  <1>2. /\ nextSequence' = nextSequence /\ returned' = [returned EXCEPT ![t] = FALSE]
        /\ AcceptedAll' = AcceptedAll
    BY KeepsAll DEF SendNull
  <1> QED BY <1>1, <1>2 DEF Sender!Refuse, Pending, AcceptedAll

\* What Send refuses, and what the link refuses.
LEMMA RefuseRefines ==
    ASSUME LinkInv, Keeps, NEW t \in Threads, Refuse(t) \/ WriteFails(t)
    PROVE  Sender!Refuse(t)
  <1>1. /\ pc' = [pc EXCEPT ![t] = "idle"] /\ call' = call
        /\ nextSequence' = nextSequence /\ returned' = [returned EXCEPT ![t] = FALSE]
    BY DEF Refuse, WriteFails, Return, WriteResult
  <1>2. Pending' = [Pending EXCEPT ![t] = {}]
    BY <1>1 DEF Pending, LinkInv, IInv, TypeOK
  <1> QED BY <1>1, <1>2, KeepsAll DEF Sender!Refuse, Pending, AcceptedAll

\* The moment at which a link accepts is the successful write_.
LEMMA WriteRefines ==
    ASSUME LinkInv, LinkInv', NEW t \in Threads, WriteSync(t) \/ WriteAsync(t)
    PROVE  Sender!Accept(t)
  <1>1. /\ pc[t] = "filled" /\ pc' = [pc EXCEPT ![t] = "idle"] /\ call' = call
        /\ nextSequence' = nextSequence /\ returned' = [returned EXCEPT ![t] = TRUE]
    BY DEF WriteSync, WriteAsync, Return, WriteResult
  <1>2. PICK l \in Links : l = LinkOf[call[t].transport]
    BY <1>1, FilledFrame DEF LinkInv
  <1>3. AcceptedAll' = [AcceptedAll EXCEPT ![l] = Append(@, call[t])]
    BY <1>2, WriteAccepts, AcceptsAll
  <1>4. Pending[t] = {call[t]} /\ Pending' = [Pending EXCEPT ![t] = {}]
    BY <1>1 DEF Pending, LinkInv, IInv, TypeOK
  <1> QED BY <1>1, <1>2, <1>3, <1>4 DEF Sender!Accept, Pending, AcceptedAll

\* Composing the frame and finishing a transfer are nothing a caller sees.
LEMMA RestRefines ==
    ASSUME LinkInv, Keeps, UNCHANGED <<nextSequence, returned>>,
           Pending' = Pending
    PROVE  UNCHANGED Sender!vars
  BY KeepsAll DEF Sender!vars, Pending, AcceptedAll

\* Every step is one of FrameSender or none.
LEMMA SenderNext == LinkInv /\ LinkInv' /\ [Next]_vars => [Sender!Next]_Sender!vars
  <1> SUFFICES ASSUME LinkInv, LinkInv', [Next]_vars PROVE [Sender!Next]_Sender!vars
    OBVIOUS
  <1>1. ASSUME NEW t \in Threads, NEW x \in Senders[t],
               NEW payload \in Payloads \cup {TooLong}, Allocate(t, x, payload)
        PROVE  Sender!Next
    <2>1. Keeps
      BY <1>1, RestKeeps DEF Allocate
    <2> QED BY <1>1, <2>1, AllocateRefines DEF Sender!Next
  <1>2. ASSUME NEW t \in Threads, SendNull(t)
        PROVE  Sender!Next
    <2>1. Keeps
      BY <1>2, RestKeeps DEF SendNull
    <2> QED BY <1>2, <2>1, SendNullRefines DEF Sender!Next
  <1>3. ASSUME NEW t \in Threads, Refuse(t) \/ WriteFails(t)
        PROVE  Sender!Next
    <2>1. Keeps
      BY <1>3, RestKeeps DEF Refuse, WriteFails
    <2> QED BY <1>3, <2>1, RefuseRefines DEF Sender!Next
  <1>4. ASSUME NEW t \in Threads, WriteSync(t) \/ WriteAsync(t)
        PROVE  Sender!Next
    BY <1>4, WriteRefines DEF Sender!Next
  <1>5. ASSUME NEW t \in Threads, Fill(t)
        PROVE  UNCHANGED Sender!vars
    <2>1. Keeps
      BY <1>5, RestKeeps DEF Fill
    <2>2. Pending' = Pending
      BY <1>5 DEF Fill, Pending, LinkInv, IInv, TypeOK
    <2> QED BY <1>5, <2>1, <2>2, RestRefines DEF Fill
  <1>6. ASSUME NEW l \in Links, Drain(l)
        PROVE  UNCHANGED Sender!vars
    <2>1. UNCHANGED <<nextSequence, returned, pc, call>>
      BY <1>6 DEF Drain, senderVars
    <2>2. Pending' = Pending
      BY <2>1 DEF Pending
    <2> QED BY <1>6, <2>1, <2>2, DrainKeeps, RestRefines
  <1>7. CASE Finished \/ UNCHANGED vars
    <2>1. UNCHANGED <<nextSequence, returned, pc, call, wire, reading>>
      BY <1>7 DEF Finished, vars, senderVars
    <2>2. Pending' = Pending
      BY <2>1 DEF Pending
    <2> QED BY <2>1, <2>2, RestKeeps, RestRefines
  <1> QED BY <1>1, <1>2, <1>3, <1>4, <1>5, <1>6, <1>7 DEF Next, Write

\* Whatever the interleaving of any number of threads, links and transports, for
\* its callers Send is one step that hands over the frame, and no frame that was
\* accepted is changed or lost.
THEOREM Implements ==
    ASSUME TwoBuffersEnough
    PROVE  Spec => ImplementsFrameSender
  <1>1. Init => Sender!Init
    <2> SUFFICES ASSUME Init PROVE Sender!Init
      OBVIOUS
    <2>1. LinkInv
      BY InitInv DEF Init, LinkInv, OneTransfer
    <2>2. \A l \in Links : Accepted(l) = <<>>
      BY <2>1, AcceptedIs DEF Init, Ready
    <2> QED BY <2>2 DEF Init, Sender!Init
  <1> QED BY <1>1, SenderNext, LinkInductive, PTL DEF Spec, ImplementsFrameSender, Sender!Spec

-----------------------------------------------------------------------------
(***************************************************************************)
(* The numbers of the frames.  They identify frames as long as a transport *)
(* does not give more of them than there are, which is so if its threads   *)
(* make fewer calls of Send than that.                                     *)
(***************************************************************************)

\* The calls of Send the threads that use a transport make, and have made.
CallsAllowed(x) == {c \in Threads \X (1 .. MaxSends) : x \in Senders[c[1]]}
CallsMade(x) == {c \in CallsAllowed(x) : c[2] <= sends[c[1]]}

NumbersSuffice ==
    \A x \in Transports :
        IsFiniteSet(CallsAllowed(x)) /\ Cardinality(CallsAllowed(x)) < SeqModulus

SameNumber(f, g) == f.transport = g.transport /\ f.seq = g.seq

HasCall(t) == call[t] # NoFrame

\* A number that will still be given has not been given.
CallFresh(x) == \A t \in Threads : HasCall(t) /\ call[t].transport = x
                                      => call[t].seq < nextSequence[x]
AcceptedFresh(x) ==
    \A l \in Links : \A i \in 1 .. Len(Accepted(l)) :
        Accepted(l)[i].transport = x => Accepted(l)[i].seq < nextSequence[x]

Fresh ==
    \A x \in Transports : CallsMade(x) # CallsAllowed(x) =>
        /\ nextSequence[x] <= Cardinality(CallsMade(x)) + 1
        /\ CallFresh(x) /\ AcceptedFresh(x)

CallsDistinct ==
    \A t, u \in Threads :
        HasCall(t) /\ HasCall(u) /\ SameNumber(call[t], call[u]) => t = u

AcceptedDistinct ==
    \A l \in Links : \A i, j \in 1 .. Len(Accepted(l)) :
        SameNumber(Accepted(l)[i], Accepted(l)[j]) => i = j

\* A frame is accepted by its own transport's link; the frame of a call is
\* accepted if and only if Send returned true.
AcceptedOwnLink ==
    \A l \in Links : \A i \in 1 .. Len(Accepted(l)) :
        LinkOf[Accepted(l)[i].transport] = l

CallSettled(t) ==
    \A l \in Links : l = LinkOf[call[t].transport] =>
        IF pc[t] = "idle" /\ returned[t]
        THEN \E i \in 1 .. Len(Accepted(l)) : Accepted(l)[i] = call[t]
        ELSE \A i \in 1 .. Len(Accepted(l)) : ~ SameNumber(Accepted(l)[i], call[t])

Settled == \A t \in Threads : HasCall(t) => CallSettled(t)

Numbering ==
    Fresh /\ CallsDistinct /\ AcceptedDistinct /\ AcceptedOwnLink /\ Settled

\* The calls made when a thread makes one more.
LEMMA OneMoreCall ==
    ASSUME TypeOK, NumbersSuffice, NEW t \in Threads, sends[t] < MaxSends,
           sends' = [sends EXCEPT ![t] = @ + 1], NEW x \in Transports
    PROVE  /\ CallsMade(x)' # CallsAllowed(x) => CallsMade(x) # CallsAllowed(x)
           /\ Cardinality(CallsMade(x)) \in Nat /\ Cardinality(CallsMade(x)') \in Nat
           /\ Cardinality(CallsMade(x)) <= Cardinality(CallsMade(x)')
           /\ x \in Senders[t] =>
                 /\ CallsMade(x) # CallsAllowed(x)
                 /\ Cardinality(CallsMade(x)') = Cardinality(CallsMade(x)) + 1
           /\ CallsMade(x)' # CallsAllowed(x) =>
                 Cardinality(CallsMade(x)') + 1 < SeqModulus
  <1> DEFINE made == CallsMade(x)
             made2 == CallsMade(x)'
             all == CallsAllowed(x)
             new == <<t, sends[t] + 1>>
  <1>1. /\ \A u \in Threads : sends[u] \in 0 .. MaxSends
        /\ \A u \in Threads : sends'[u] = IF u = t THEN sends[t] + 1 ELSE sends[u]
        /\ MaxSends \in Nat /\ SeqModulus \in Nat
    BY TransportAssumption DEF TypeOK
  <1>2. made \subseteq made2 /\ made2 \subseteq all
    BY <1>1 DEF CallsMade, CallsAllowed
  <1>3. IsFiniteSet(all) /\ Cardinality(all) \in Nat /\ Cardinality(all) < SeqModulus
    BY FS_CardinalityType DEF NumbersSuffice
  <1>4. x \in Senders[t] => /\ new \in all /\ new \notin made
                            /\ made2 = made \cup {new}
    <2> SUFFICES ASSUME x \in Senders[t]
                 PROVE  /\ new \in all /\ new \notin made
                        /\ made2 = made \cup {new}
      OBVIOUS
    <2>1. new \in all /\ new \notin made /\ new \in made2
      BY <1>1 DEF CallsMade, CallsAllowed
    <2>2. ASSUME NEW c \in made2
          PROVE  c \in made \cup {new}
      <3>1. c \in all /\ c[2] <= sends'[c[1]] /\ c = <<c[1], c[2]>> /\ c[1] \in Threads
            /\ c[2] \in Nat
        BY <2>2, <1>1 DEF CallsMade, CallsAllowed
      <3>2. CASE c[2] <= sends[c[1]]
        BY <3>1, <3>2 DEF CallsMade
      <3>3. CASE ~ (c[2] <= sends[c[1]])
        BY <3>1, <3>3, <1>1
      <3> QED BY <3>2, <3>3
    <2> QED BY <1>2, <2>1, <2>2
  <1> HIDE DEF made, made2, all, new
  <1>5. /\ IsFiniteSet(made2) /\ IsFiniteSet(made)
        /\ Cardinality(made2) \in Nat /\ Cardinality(made) \in Nat
        /\ Cardinality(made) <= Cardinality(made2)
        /\ Cardinality(made2) <= Cardinality(all)
        /\ Cardinality(made2) = Cardinality(all) => made2 = all
    BY <1>2, <1>3, FS_Subset, FS_CardinalityType
  <1>6. x \in Senders[t] => /\ made # all
                            /\ Cardinality(made2) = Cardinality(made) + 1
    BY <1>4, <1>5, FS_AddElement
  <1>7. made2 # all => made # all /\ Cardinality(made2) + 1 < SeqModulus
    BY <1>1, <1>2, <1>3, <1>5
  <1> QED BY <1>5, <1>6, <1>7 DEF made, made2, all


\* The frames the invariants speak of are frames.
LEMMA FramesKnown ==
    ASSUME LinkInv
    PROVE  /\ \A t \in Threads : HasCall(t) =>
                 call[t].transport \in Transports /\ call[t].seq \in Nat
           /\ \A l \in Links : Len(Accepted(l)) \in Nat
           /\ \A l \in Links : \A i \in 1 .. Len(Accepted(l)) :
                 /\ Accepted(l)[i].transport \in Transports
                 /\ Accepted(l)[i].seq \in Nat
           /\ \A x \in Transports : nextSequence[x] \in Nat
           /\ SeqModulus \in Nat
  <1>1. \A t \in Threads : HasCall(t) => call[t] \in Frames
    BY DEF LinkInv, IInv, TypeOK, HasCall
  <1>2. \A l \in Links : Accepted(l) \in Seq(Frames)
    BY AcceptedIs
  <1>3. \A l \in Links : \A i \in 1 .. Len(Accepted(l)) : Accepted(l)[i] \in Frames
    BY <1>2
  <1>4. \A x \in Transports : nextSequence[x] \in Nat
    BY DEF LinkInv, IInv, TypeOK, Sequences
  <1> QED BY <1>1, <1>2, <1>3, <1>4, TransportAssumption DEF Frames, Sequences

\* A step in which nothing is accepted disturbs neither invariant of the frames
\* accepted.
LEMMA KeepsAccepted ==
    ASSUME Keeps
    PROVE  /\ AcceptedDistinct => AcceptedDistinct'
           /\ AcceptedOwnLink => AcceptedOwnLink'
           /\ \A x \in Transports : nextSequence'[x] = nextSequence[x]
                                      => (AcceptedFresh(x) => AcceptedFresh(x)')
  BY DEF Keeps, AcceptedDistinct, AcceptedOwnLink, AcceptedFresh

\* A Send's outcome on the wire stays what it is while no frame is accepted and
\* the Send itself neither starts nor returns.
LEMMA KeepsSettled ==
    ASSUME Keeps, NEW u \in Threads, CallSettled(u), call'[u] = call[u],
           (pc'[u] = "idle" /\ returned'[u]) <=> (pc[u] = "idle" /\ returned[u])
    PROVE  CallSettled(u)'
  <1> SUFFICES ASSUME NEW l \in Links, l = LinkOf[call[u].transport]
               PROVE  IF pc'[u] = "idle" /\ returned'[u]
                      THEN \E i \in 1 .. Len(Accepted(l)') : Accepted(l)'[i] = call[u]
                      ELSE \A i \in 1 .. Len(Accepted(l)') :
                                ~ SameNumber(Accepted(l)'[i], call[u])
    BY DEF CallSettled, SameNumber
  <1>1. Accepted(l)' = Accepted(l)
    BY DEF Keeps
  <1>2. IF pc[u] = "idle" /\ returned[u]
        THEN \E i \in 1 .. Len(Accepted(l)) : Accepted(l)[i] = call[u]
        ELSE \A i \in 1 .. Len(Accepted(l)) : ~ SameNumber(Accepted(l)[i], call[u])
    BY DEF CallSettled
  <1> QED BY <1>1, <1>2

\* A new number is above all the others, whether they are on their way, sent or
\* given up.
LEMMA AllocateNumbering ==
    ASSUME LinkInv, NumbersSuffice, Numbering, Keeps, NEW t \in Threads,
           NEW x \in Senders[t], NEW payload \in Payloads \cup {TooLong},
           Allocate(t, x, payload)
    PROVE  Numbering'
  <1> DEFINE n == nextSequence[x]
             frame == [transport |-> x, seq |-> n, payload |-> payload]
  <1>1. x \in Transports
    BY TransportAssumption
  <1>2. /\ sends[t] < MaxSends /\ sends' = [sends EXCEPT ![t] = @ + 1]
        /\ nextSequence' = [nextSequence EXCEPT ![x] = Bump(n)]
        /\ \A u \in Threads \ {t} : /\ call'[u] = call[u] /\ pc'[u] = pc[u]
                                      /\ returned'[u] = returned[u]
        /\ call'[t] = frame /\ pc'[t] = "allocated"
    BY DEF Allocate, LinkInv, IInv, TypeOK
  <1>3. /\ frame.transport = x /\ frame.seq = n /\ frame # NoFrame
        /\ n \in Nat
    BY <1>1, NoFrameApart DEF LinkInv, IInv, TypeOK, Sequences, NoFrame
  <1> HIDE DEF frame
  <1>4. CallFresh(x) /\ AcceptedFresh(x) /\ n <= Cardinality(CallsMade(x)) + 1
    BY <1>1, <1>2, OneMoreCall DEF LinkInv, IInv, Numbering, Fresh
  <1>5. CallsMade(x)' # CallsAllowed(x) =>
            nextSequence'[x] = n + 1 /\ n <= Cardinality(CallsMade(x)')
    <2>1. /\ Cardinality(CallsMade(x)') = Cardinality(CallsMade(x)) + 1
          /\ Cardinality(CallsMade(x)) \in Nat
          /\ CallsMade(x)' # CallsAllowed(x) =>
                Cardinality(CallsMade(x)') + 1 < SeqModulus
      BY <1>1, <1>2, OneMoreCall DEF LinkInv, IInv
    <2>2. CallsMade(x)' # CallsAllowed(x) => n + 1 # SeqModulus
      BY <1>3, <1>4, <2>1, FramesKnown
    <2>3. nextSequence'[x] = Bump(n)
      BY <1>1, <1>2 DEF LinkInv, IInv, TypeOK
    <2> QED BY <1>4, <2>1, <2>2, <2>3 DEF Bump
  <1>6. Fresh'
    <2> SUFFICES ASSUME NEW y \in Transports, CallsMade(y)' # CallsAllowed(y)
                 PROVE  /\ nextSequence'[y] <= Cardinality(CallsMade(y)') + 1
                        /\ CallFresh(y)' /\ AcceptedFresh(y)'
      BY DEF Fresh, CallsAllowed
    <2>1. /\ nextSequence[y] <= Cardinality(CallsMade(y)) + 1
          /\ CallFresh(y) /\ AcceptedFresh(y)
          /\ Cardinality(CallsMade(y)) \in Nat /\ Cardinality(CallsMade(y)') \in Nat
          /\ Cardinality(CallsMade(y)) <= Cardinality(CallsMade(y)')
      BY <1>2, OneMoreCall DEF LinkInv, IInv, Numbering, Fresh
    <2>2. CASE y = x
      <3>1. nextSequence'[x] = n + 1
        BY <1>5, <2>2
      <3>2. CallFresh(x)'
        BY <1>2, <1>3, <1>4, <3>1, FramesKnown DEF CallFresh, HasCall
      <3>3. AcceptedFresh(x)'
        BY <1>3, <1>4, <3>1, FramesKnown DEF AcceptedFresh, Keeps
      <3> QED BY <1>3, <1>5, <2>1, <2>2, <3>1, <3>2, <3>3
    <2>3. CASE y # x
      <3>1. nextSequence'[y] = nextSequence[y] /\ nextSequence[y] \in Nat
        BY <1>2, <2>3 DEF LinkInv, IInv, TypeOK, Sequences
      <3>2. CallFresh(y)'
        BY <1>2, <1>3, <2>1, <2>3, <3>1 DEF CallFresh, HasCall
      <3> QED BY <2>1, <3>1, <3>2, KeepsAccepted
    <2> QED BY <2>2, <2>3
  <1>7. CallsDistinct'
    <2>1. \A u \in Threads \ {t} : HasCall(u) => ~ SameNumber(call[u], frame)
      BY <1>3, <1>4, FramesKnown DEF CallFresh, SameNumber
    <2>2. \A f, g : SameNumber(f, g) => SameNumber(g, f)
      BY DEF SameNumber
    <2>3. \A u, v \in Threads : u # t /\ v # t /\ HasCall(u)' /\ HasCall(v)'
                                 /\ SameNumber(call'[u], call'[v]) => u = v
      BY <1>2 DEF Numbering, CallsDistinct, HasCall
    <2>4. \A u, v \in Threads : HasCall(u)' /\ HasCall(v)'
                                 /\ SameNumber(call'[u], call'[v]) => u = v
      <3> SUFFICES ASSUME NEW u \in Threads, NEW v \in Threads, HasCall(u)', HasCall(v)',
                          SameNumber(call'[u], call'[v])
                   PROVE  u = v
        OBVIOUS
      <3>1. CASE u # t /\ v # t
        BY <2>3, <3>1
      <3>2. CASE u = t /\ v # t
        BY <1>2, <2>1, <2>2, <3>2 DEF HasCall
      <3>3. CASE v = t /\ u # t
        BY <1>2, <2>1, <2>2, <3>3 DEF HasCall
      <3> QED BY <3>1, <3>2, <3>3
    <2> QED BY <2>4 DEF CallsDistinct, SameNumber
  <1>8. Settled'
    <2>1. CallSettled(t)'
      <3>1. \A l \in Links : \A i \in 1 .. Len(Accepted(l)) : ~ SameNumber(Accepted(l)[i], frame)
        BY <1>3, <1>4, FramesKnown DEF AcceptedFresh, SameNumber
      <3> QED BY <1>2, <3>1 DEF CallSettled, Keeps, SameNumber
    <2>2. \A u \in Threads \ {t} : HasCall(u)' => CallSettled(u)'
      BY <1>2, KeepsSettled DEF Numbering, Settled, HasCall
    <2> QED BY <2>1, <2>2 DEF Settled
  <1> QED BY <1>6, <1>7, <1>8, KeepsAccepted DEF Numbering

\* A call that makes no frame uses none of the numbers.
LEMMA SendNullNumbering ==
    ASSUME LinkInv, NumbersSuffice, Numbering, Keeps, NEW t \in Threads, SendNull(t)
    PROVE  Numbering'
  <1>1. /\ sends[t] < MaxSends /\ sends' = [sends EXCEPT ![t] = @ + 1]
        /\ nextSequence' = nextSequence /\ pc' = pc
        /\ \A u \in Threads \ {t} : call'[u] = call[u] /\ returned'[u] = returned[u]
        /\ ~ HasCall(t)'
    BY DEF SendNull, HasCall, LinkInv, IInv, TypeOK
  <1>2. \A u \in Threads : HasCall(u)' => u # t /\ HasCall(u) /\ call'[u] = call[u]
    BY <1>1 DEF HasCall
  <1>3. Fresh'
    <2> SUFFICES ASSUME NEW y \in Transports, CallsMade(y)' # CallsAllowed(y)
                 PROVE  /\ nextSequence'[y] <= Cardinality(CallsMade(y)') + 1
                        /\ CallFresh(y)' /\ AcceptedFresh(y)'
      BY DEF Fresh, CallsAllowed
    <2>1. /\ nextSequence[y] <= Cardinality(CallsMade(y)) + 1
          /\ CallFresh(y) /\ AcceptedFresh(y)
          /\ Cardinality(CallsMade(y)) \in Nat /\ Cardinality(CallsMade(y)') \in Nat
          /\ Cardinality(CallsMade(y)) <= Cardinality(CallsMade(y)')
      BY <1>1, OneMoreCall DEF LinkInv, IInv, Numbering, Fresh
    <2>2. nextSequence'[y] <= Cardinality(CallsMade(y)') + 1
      BY <1>1, <2>1, FramesKnown
    <2>3. CallFresh(y)'
      BY <1>1, <1>2, <2>1 DEF CallFresh
    <2> QED BY <1>1, <2>1, <2>2, <2>3, KeepsAccepted
  <1>4. CallsDistinct'
    BY <1>2 DEF Numbering, CallsDistinct, SameNumber
  <1>5. Settled'
    BY <1>1, <1>2, KeepsSettled DEF Numbering, Settled
  <1> QED BY <1>3, <1>4, <1>5, KeepsAccepted DEF Numbering

\* The steps between Allocate and write_, those that refuse a frame, and those of
\* the links.
LEMMA RestNumbering ==
    ASSUME LinkInv, Numbering, Keeps, UNCHANGED <<nextSequence, call, sends>>,
           \A u \in Threads : (pc'[u] = "idle" /\ returned'[u])
                                   <=> (pc[u] = "idle" /\ returned[u])
    PROVE  Numbering'
  <1>1. \A y \in Transports : CallsMade(y)' = CallsMade(y) /\ CallsAllowed(y)' = CallsAllowed(y)
    BY DEF CallsMade, CallsAllowed
  <1>2. \A y \in Transports : /\ CallFresh(y) => CallFresh(y)'
                              /\ AcceptedFresh(y) => AcceptedFresh(y)'
    BY KeepsAccepted DEF CallFresh, HasCall
  <1>3. Fresh'
    BY <1>1, <1>2 DEF Numbering, Fresh
  <1>4. CallsDistinct'
    BY DEF Numbering, CallsDistinct, HasCall, SameNumber
  <1>5. Settled'
    BY KeepsSettled DEF Numbering, Settled, HasCall
  <1> QED BY <1>3, <1>4, <1>5, KeepsAccepted DEF Numbering

\* The frames of a link that accepts one more.
LEMMA AcceptsFrames ==
    ASSUME LinkInv, NEW t \in Threads, HasCall(t), NEW l \in Links,
           l = LinkOf[call[t].transport], Accepts(t)
    PROVE  /\ \A m \in Links \ {l} : Accepted(m)' = Accepted(m)
           /\ Len(Accepted(l)) \in Nat
           /\ Len(Accepted(l)') = Len(Accepted(l)) + 1
           /\ \A i \in 1 .. Len(Accepted(l)) : Accepted(l)'[i] = Accepted(l)[i]
           /\ Accepted(l)'[Len(Accepted(l)) + 1] = call[t]
  <1>1. /\ \A m \in Links \ {l} : Accepted(m)' = Accepted(m)
        /\ Accepted(l)' = Append(Accepted(l), call[t])
    BY DEF Accepts
  <1>2. Accepted(l) \in Seq(Frames) /\ call[t] \in Frames
    BY AcceptedIs DEF LinkInv, IInv, TypeOK, HasCall
  <1> QED BY <1>1, <1>2, AppendProperties, LenProperties

\* A frame that is accepted had not been accepted before, and no other thread
\* sends one with its number.
LEMMA WriteNumbering ==
    ASSUME LinkInv, LinkInv', Numbering, NEW t \in Threads, WriteSync(t) \/ WriteAsync(t)
    PROVE  Numbering'
  <1>1. /\ pc[t] = "filled" /\ pc' = [pc EXCEPT ![t] = "idle"]
        /\ returned' = [returned EXCEPT ![t] = TRUE]
        /\ UNCHANGED <<nextSequence, call, sends>>
    BY DEF WriteSync, WriteAsync, Return, WriteResult
  <1>2. HasCall(t)
    BY <1>1, NoFrameApart DEF HasCall, LinkInv, IInv, LockOwned
  <1>3. PICK l \in Links : l = LinkOf[call[t].transport]
    BY <1>1, FilledFrame DEF LinkInv
  <1> DEFINE k == Len(Accepted(l))
  <1>4. /\ \A m \in Links \ {l} : Accepted(m)' = Accepted(m)
        /\ k \in Nat
        /\ Len(Accepted(l)') = k + 1
        /\ \A i \in 1 .. k : Accepted(l)'[i] = Accepted(l)[i]
        /\ Accepted(l)'[k + 1] = call[t]
    BY <1>2, <1>3, WriteAccepts, AcceptsFrames
  <1>5. \A i \in 1 .. k : ~ SameNumber(Accepted(l)[i], call[t])
    BY <1>1, <1>2, <1>3 DEF Numbering, Settled, CallSettled
  <1>6. \A i \in 1 .. k + 1 : i \in 1 .. k \/ i = k + 1
    BY <1>4
  <1>7. Fresh'
    <2>1. \A y \in Transports : /\ CallsMade(y)' = CallsMade(y)
                                /\ CallsAllowed(y)' = CallsAllowed(y)
                                /\ CallFresh(y) => CallFresh(y)'
      BY <1>1 DEF CallsMade, CallsAllowed, CallFresh, HasCall
    <2>2. ASSUME NEW y \in Transports, CallFresh(y), AcceptedFresh(y)
          PROVE  AcceptedFresh(y)'
      <3> SUFFICES ASSUME NEW m \in Links, NEW i \in 1 .. Len(Accepted(m)'),
                          Accepted(m)'[i].transport = y
                   PROVE  Accepted(m)'[i].seq < nextSequence[y]
        BY <1>1 DEF AcceptedFresh
      <3>1. CASE m # l
        BY <1>4, <2>2, <3>1 DEF AcceptedFresh
      <3>2. CASE m = l /\ i \in 1 .. k
        BY <1>4, <2>2, <3>2 DEF AcceptedFresh
      <3>3. CASE m = l /\ i = k + 1
        BY <1>2, <1>4, <2>2, <3>3 DEF CallFresh
      <3> QED BY <1>4, <1>6, <3>1, <3>2, <3>3
    <2> QED BY <1>1, <2>1, <2>2 DEF Numbering, Fresh
  <1>8. AcceptedDistinct'
    <2> SUFFICES ASSUME NEW m \in Links, NEW i \in 1 .. Len(Accepted(m)'),
                        NEW j \in 1 .. Len(Accepted(m)'),
                        SameNumber(Accepted(m)'[i], Accepted(m)'[j])
                 PROVE  i = j
      BY DEF AcceptedDistinct, SameNumber
    <2>1. SameNumber(Accepted(m)'[j], Accepted(m)'[i])
      BY DEF SameNumber
    <2>2. CASE m # l
      BY <1>4, <2>2 DEF Numbering, AcceptedDistinct
    <2>3. CASE m = l /\ i \in 1 .. k /\ j \in 1 .. k
      BY <1>4, <2>3 DEF Numbering, AcceptedDistinct
    <2>4. CASE m = l /\ i \in 1 .. k /\ j = k + 1
      BY <1>4, <1>5, <2>4
    <2>5. CASE m = l /\ i = k + 1 /\ j \in 1 .. k
      BY <1>4, <1>5, <2>1, <2>5
    <2> QED BY <1>4, <1>6, <2>2, <2>3, <2>4, <2>5
  <1>9. AcceptedOwnLink'
    <2> SUFFICES ASSUME NEW m \in Links, NEW i \in 1 .. Len(Accepted(m)')
                 PROVE  LinkOf[Accepted(m)'[i].transport] = m
      BY DEF AcceptedOwnLink
    <2>1. CASE m # l
      BY <1>4, <2>1 DEF Numbering, AcceptedOwnLink
    <2>2. CASE m = l /\ i \in 1 .. k
      BY <1>4, <2>2 DEF Numbering, AcceptedOwnLink
    <2>3. CASE m = l /\ i = k + 1
      BY <1>3, <1>4, <2>3
    <2> QED BY <1>4, <1>6, <2>1, <2>2, <2>3
  <1>10. CallsDistinct'
    BY <1>1 DEF Numbering, CallsDistinct, HasCall, SameNumber
  <1>11. Settled'
    <2>1. CallSettled(t)'
      <3>1. pc'[t] = "idle" /\ returned'[t] = TRUE /\ call'[t] = call[t]
        BY <1>1 DEF LinkInv, IInv, TypeOK
      <3>2. k + 1 \in 1 .. Len(Accepted(l)')
        BY <1>4
      <3> QED BY <1>3, <1>4, <3>1, <3>2 DEF CallSettled
    <2>2. ASSUME NEW u \in Threads \ {t}, HasCall(u), CallSettled(u)
          PROVE  CallSettled(u)'
      <3>1. pc'[u] = pc[u] /\ returned'[u] = returned[u] /\ call'[u] = call[u]
        BY <1>1
      <3>2. ~ SameNumber(call[t], call[u])
        BY <1>2, <2>2 DEF Numbering, CallsDistinct
      <3> SUFFICES ASSUME NEW m \in Links, m = LinkOf[call[u].transport]
                   PROVE  IF pc[u] = "idle" /\ returned[u]
                          THEN \E i \in 1 .. Len(Accepted(m)') : Accepted(m)'[i] = call[u]
                          ELSE \A i \in 1 .. Len(Accepted(m)') :
                                    ~ SameNumber(Accepted(m)'[i], call[u])
        BY <3>1 DEF CallSettled, SameNumber
      <3>3. IF pc[u] = "idle" /\ returned[u]
            THEN \E i \in 1 .. Len(Accepted(m)) : Accepted(m)[i] = call[u]
            ELSE \A i \in 1 .. Len(Accepted(m)) : ~ SameNumber(Accepted(m)[i], call[u])
        BY <2>2 DEF CallSettled
      <3>4. CASE m # l
        BY <1>4, <3>3, <3>4
      <3>5. CASE m = l /\ pc[u] = "idle" /\ returned[u]
        <4>1. PICK i \in 1 .. k : Accepted(l)[i] = call[u]
          BY <3>3, <3>5
        <4>2. i \in 1 .. Len(Accepted(l)') /\ Accepted(l)'[i] = call[u]
          BY <1>4, <4>1
        <4> QED BY <3>5, <4>2
      <3>6. CASE m = l /\ ~ (pc[u] = "idle" /\ returned[u])
        <4>1. ASSUME NEW i \in 1 .. k + 1
              PROVE  ~ SameNumber(Accepted(l)'[i], call[u])
          <5>1. CASE i \in 1 .. k
            BY <1>4, <3>3, <3>6, <5>1
          <5>2. CASE i = k + 1
            BY <1>4, <3>2, <5>2
          <5> QED BY <1>6, <5>1, <5>2
        <4> QED BY <1>4, <3>6, <4>1
      <3> QED BY <3>4, <3>5, <3>6
    <2> QED BY <1>1, <2>1, <2>2 DEF Numbering, Settled, HasCall
  <1> QED BY <1>7, <1>8, <1>9, <1>10, <1>11 DEF Numbering

\* Every step keeps the numbers of the frames apart.
LEMMA NumberingNext ==
    LinkInv /\ LinkInv' /\ NumbersSuffice /\ Numbering /\ [Next]_vars => Numbering'
  <1> SUFFICES ASSUME LinkInv, LinkInv', NumbersSuffice, Numbering, [Next]_vars
               PROVE  Numbering'
    OBVIOUS
  <1>1. ASSUME NEW t \in Threads, NEW x \in Senders[t],
               NEW payload \in Payloads \cup {TooLong}, Allocate(t, x, payload)
        PROVE  Numbering'
    <2>1. Keeps
      BY <1>1, RestKeeps DEF Allocate
    <2> QED BY <1>1, <2>1, AllocateNumbering
  <1>2. ASSUME NEW t \in Threads, SendNull(t)
        PROVE  Numbering'
    <2>1. Keeps
      BY <1>2, RestKeeps DEF SendNull
    <2> QED BY <1>2, <2>1, SendNullNumbering
  <1>3. ASSUME NEW t \in Threads, Refuse(t) \/ WriteFails(t)
        PROVE  Numbering'
    <2>1. Keeps
      BY <1>3, RestKeeps DEF Refuse, WriteFails
    <2>2. /\ UNCHANGED <<nextSequence, call, sends>>
          /\ pc[t] # "idle" /\ pc' = [pc EXCEPT ![t] = "idle"]
          /\ returned' = [returned EXCEPT ![t] = FALSE]
      BY <1>3 DEF Refuse, WriteFails, Return, WriteResult
    <2>3. \A u \in Threads : (pc'[u] = "idle" /\ returned'[u])
                                <=> (pc[u] = "idle" /\ returned[u])
      BY <2>2 DEF LinkInv, IInv, TypeOK
    <2> QED BY <2>1, <2>2, <2>3, RestNumbering
  <1>4. ASSUME NEW t \in Threads, WriteSync(t) \/ WriteAsync(t)
        PROVE  Numbering'
    BY <1>4, WriteNumbering
  <1>5. ASSUME NEW t \in Threads, Fill(t)
        PROVE  Numbering'
    <2>1. Keeps
      BY <1>5, RestKeeps DEF Fill
    <2>2. /\ UNCHANGED <<nextSequence, call, sends>> /\ returned' = returned
          /\ pc[t] # "idle" /\ pc' = [pc EXCEPT ![t] = "filled"]
      BY <1>5 DEF Fill
    <2>3. \A u \in Threads : pc'[u] = "idle" <=> pc[u] = "idle"
      BY <2>2 DEF LinkInv, IInv, TypeOK
    <2> QED BY <2>1, <2>2, <2>3, RestNumbering
  <1>6. ASSUME NEW l \in Links, Drain(l)
        PROVE  Numbering'
    BY <1>6, DrainKeeps, RestNumbering DEF Drain, senderVars
  <1>7. CASE Finished \/ UNCHANGED vars
    <2>1. UNCHANGED <<nextSequence, call, sends, pc, returned, wire, reading>>
      BY <1>7 DEF Finished, vars, senderVars
    <2> QED BY <2>1, RestKeeps, RestNumbering
  <1> QED BY <1>1, <1>2, <1>3, <1>4, <1>5, <1>6, <1>7 DEF Next, Write

\* Before the first call nothing has a number.
LEMMA NumberingInit == Init /\ LinkInv /\ NumbersSuffice => Numbering
  <1> SUFFICES ASSUME Init, LinkInv, NumbersSuffice PROVE Numbering
    OBVIOUS
  <1>1. \A t \in Threads : ~ HasCall(t)
    BY DEF Init, HasCall
  <1>2. \A l \in Links : Accepted(l) = <<>>
    BY AcceptedIs DEF Init, Ready
  <1>3. \A l \in Links : Len(Accepted(l)) = 0
    BY <1>2
  <1>4. Fresh
    <2>1. ASSUME NEW x \in Transports
          PROVE  nextSequence[x] <= Cardinality(CallsMade(x)) + 1
      <3>1. nextSequence[x] = 1
        BY DEF Init
      <3>2. CallsMade(x) \subseteq CallsAllowed(x) /\ IsFiniteSet(CallsAllowed(x))
        BY DEF CallsMade, NumbersSuffice
      <3>3. Cardinality(CallsMade(x)) \in Nat
        BY <3>2, FS_Subset, FS_CardinalityType
      <3> QED BY <3>1, <3>3
    <2> QED BY <1>1, <1>3, <2>1 DEF Fresh, CallFresh, AcceptedFresh
  <1> QED BY <1>1, <1>3, <1>4
          DEF Numbering, CallsDistinct, AcceptedDistinct, AcceptedOwnLink, Settled

\* The numbers identify the frames of such a program.
LEMMA NumberingInductive ==
    ASSUME TwoBuffersEnough, NumbersSuffice
    PROVE  Spec => [](LinkInv /\ Numbering)
  <1>1. Init /\ LinkInv => Numbering
    BY NumberingInit
  <1>2. LinkInv /\ LinkInv' /\ Numbering /\ [Next]_vars => Numbering'
    BY NumberingNext
  <1> QED BY <1>1, <1>2, LinkInductive, PTL DEF Spec

\* What a link has sent is what it has accepted, but for a frame it still reads.
LEMMA SentAccepted ==
    ASSUME LinkInv, NEW l \in Links
    PROVE  /\ Len(wire[l]) \in Nat /\ Len(Accepted(l)) \in Nat
           /\ Len(wire[l]) <= Len(Accepted(l))
           /\ \A i \in 1 .. Len(wire[l]) : Accepted(l)[i] = wire[l][i]
           /\ Ready(l) => Len(Accepted(l)) = Len(wire[l])
           /\ ~ Ready(l) => /\ Len(Accepted(l)) = Len(wire[l]) + 1
                            /\ Accepted(l)[Len(wire[l]) + 1] = reading[l][1].frame
  <1>1. /\ Ready(l) => Accepted(l) = wire[l]
        /\ ~ Ready(l) => /\ Accepted(l) = Append(wire[l], reading[l][1].frame)
                         /\ reading[l][1].frame \in Frames
        /\ wire[l] \in Seq(Frames)
    BY AcceptedIs
  <1>2. Len(wire[l]) \in Nat
    BY <1>1, LenProperties
  <1>3. CASE Ready(l)
    BY <1>1, <1>2, <1>3
  <1>4. CASE ~ Ready(l)
    <2> DEFINE frame == reading[l][1].frame
    <2>1. Accepted(l) = Append(wire[l], frame) /\ frame \in Frames
      BY <1>1, <1>4
    <2> HIDE DEF frame
    <2>2. /\ Len(Accepted(l)) = Len(wire[l]) + 1
          /\ \A i \in 1 .. Len(wire[l]) : Accepted(l)[i] = wire[l][i]
          /\ Accepted(l)[Len(wire[l]) + 1] = frame
      BY <1>1, <2>1, AppendProperties
    <2> QED BY <1>2, <1>4, <2>2 DEF frame
  <1> QED BY <1>3, <1>4

\* A frame is on the wire at most once: its number is no other frame's, and no
\* buffer is sent twice, whatever threads, links and transports there are.
THEOREM Unique ==
    ASSUME TwoBuffersEnough, NumbersSuffice
    PROVE  Spec => []WireUnique
  <1>1. LinkInv /\ Numbering => WireUnique
    <2> SUFFICES ASSUME LinkInv, AcceptedDistinct, NEW l \in Links,
                        NEW i \in 1 .. Len(wire[l]), NEW j \in 1 .. Len(wire[l]),
                        wire[l][i].transport = wire[l][j].transport,
                        wire[l][i].seq = wire[l][j].seq
                 PROVE  i = j
      BY DEF Numbering, WireUnique
    <2>1. /\ i \in 1 .. Len(Accepted(l)) /\ Accepted(l)[i] = wire[l][i]
          /\ j \in 1 .. Len(Accepted(l)) /\ Accepted(l)[j] = wire[l][j]
      BY SentAccepted
    <2> QED BY <2>1 DEF AcceptedDistinct, SameNumber
  <1> QED BY <1>1, NumberingInductive, PTL

\* Send returns true exactly when its frame is sent or being sent.
THEOREM Truthful ==
    ASSUME TwoBuffersEnough, NumbersSuffice
    PROVE  Spec => []ReturnTellsTruth
  <1>1. LinkInv /\ Numbering => ReturnTellsTruth
    <2> SUFFICES ASSUME LinkInv, Settled, NEW t \in Threads,
                        pc[t] = "idle", HasCall(t)
                 PROVE  returned[t] <=> Handed(call[t])
      BY DEF Numbering, ReturnTellsTruth, HasCall
    <2>1. PICK l \in Links : l = LinkOf[call[t].transport]
      BY FramesKnown, TransportAssumption
    <2>2. IF returned[t]
          THEN \E i \in 1 .. Len(Accepted(l)) : Accepted(l)[i] = call[t]
          ELSE \A i \in 1 .. Len(Accepted(l)) : Accepted(l)[i] # call[t]
      BY <2>1 DEF Settled, CallSettled, SameNumber
    <2>3. Handed(call[t]) <=> \/ \E i \in 1 .. Len(wire[l]) : wire[l][i] = call[t]
                              \/ ~ Ready(l) /\ reading[l][1].frame = call[t]
      BY <2>1 DEF Handed
    <2>4. ASSUME returned[t]
          PROVE  Handed(call[t])
      <3>1. PICK i \in 1 .. Len(Accepted(l)) : Accepted(l)[i] = call[t]
        BY <2>2, <2>4
      <3>2. CASE i \in 1 .. Len(wire[l])
        BY <2>3, <3>1, <3>2, SentAccepted
      <3>3. CASE i \notin 1 .. Len(wire[l])
        <4>1. ~ Ready(l) /\ i = Len(wire[l]) + 1
          BY <3>3, SentAccepted
        <4> QED BY <2>3, <3>1, <4>1, SentAccepted
      <3> QED BY <3>2, <3>3
    <2>5. ASSUME Handed(call[t])
          PROVE  \E i \in 1 .. Len(Accepted(l)) : Accepted(l)[i] = call[t]
      <3>1. CASE \E i \in 1 .. Len(wire[l]) : wire[l][i] = call[t]
        <4>1. PICK i \in 1 .. Len(wire[l]) : wire[l][i] = call[t]
          BY <3>1
        <4>2. i \in 1 .. Len(Accepted(l)) /\ Accepted(l)[i] = call[t]
          BY <4>1, SentAccepted
        <4> QED BY <4>2
      <3>2. CASE ~ Ready(l) /\ reading[l][1].frame = call[t]
        <4>1. /\ Len(wire[l]) + 1 \in 1 .. Len(Accepted(l))
              /\ Accepted(l)[Len(wire[l]) + 1] = call[t]
          BY <3>2, SentAccepted
        <4> QED BY <4>1
      <3> QED BY <2>3, <2>5, <3>1, <3>2
    <2> QED BY <2>2, <2>4, <2>5
  <1> QED BY <1>1, NumberingInductive, PTL

-----------------------------------------------------------------------------
(***************************************************************************)
(* The order of the frames of a transport that one thread owns.            *)
(***************************************************************************)
CallsOwn == \A t \in Threads : HasCall(t) => call[t].transport \in Senders[t]

AcceptedInSequence ==
    \A l \in Links : \A i, j \in 1 .. Len(Accepted(l)) :
        i < j /\ Accepted(l)[i].transport = Accepted(l)[j].transport
              /\ Owned(Accepted(l)[i].transport)
            => Accepted(l)[i].seq < Accepted(l)[j].seq

\* The frame an owner is sending comes after all it has sent.
CallLast(t) ==
    pc[t] # "idle" /\ Owned(call[t].transport) =>
        \A l \in Links : \A i \in 1 .. Len(Accepted(l)) :
            Accepted(l)[i].transport = call[t].transport => Accepted(l)[i].seq < call[t].seq

CallsLast == \A t \in Threads : CallLast(t)

Sequencing == CallsOwn /\ AcceptedInSequence /\ CallsLast

\* A step in which nothing is accepted, but for a new call, disturbs the order
\* of no other thread's frames.
LEMMA KeepsSequencing ==
    ASSUME Keeps
    PROVE  /\ AcceptedInSequence => AcceptedInSequence'
           /\ \A u \in Threads : call'[u] = call[u] /\ (pc'[u] # "idle" => pc[u] # "idle")
                => (CallLast(u) => CallLast(u)')
  BY DEF Keeps, AcceptedInSequence, CallLast, Owned

\* A new frame has the highest number of its transport.
LEMMA AllocateSequencing ==
    ASSUME LinkInv, NumbersSuffice, Numbering, Sequencing, Keeps, NEW t \in Threads,
           NEW x \in Senders[t], NEW payload \in Payloads \cup {TooLong},
           Allocate(t, x, payload)
    PROVE  Sequencing'
  <1> DEFINE n == nextSequence[x]
             frame == [transport |-> x, seq |-> n, payload |-> payload]
  <1>1. x \in Transports
    BY TransportAssumption
  <1>2. /\ sends[t] < MaxSends /\ sends' = [sends EXCEPT ![t] = @ + 1]
        /\ \A u \in Threads \ {t} : call'[u] = call[u] /\ pc'[u] = pc[u]
        /\ call'[t] = frame
    BY DEF Allocate, LinkInv, IInv, TypeOK
  <1>3. frame.transport = x /\ frame.seq = n
    OBVIOUS
  <1> HIDE DEF frame
  <1>4. AcceptedFresh(x)
    BY <1>1, <1>2, OneMoreCall DEF LinkInv, IInv, Numbering, Fresh
  <1>5. CallLast(t)'
    BY <1>2, <1>3, <1>4 DEF CallLast, AcceptedFresh, Keeps
  <1>6. CallsLast'
    BY <1>2, <1>5, KeepsSequencing DEF Sequencing, CallsLast
  <1>7. CallsOwn'
    BY <1>2, <1>3 DEF Sequencing, CallsOwn, HasCall
  <1> QED BY <1>6, <1>7, KeepsSequencing DEF Sequencing

\* The frame that is accepted is the last one of its transport, and its thread
\* has no other on the way.
LEMMA WriteSequencing ==
    ASSUME LinkInv, LinkInv', Sequencing, NEW t \in Threads, WriteSync(t) \/ WriteAsync(t)
    PROVE  Sequencing'
  <1>1. /\ pc[t] = "filled" /\ pc' = [pc EXCEPT ![t] = "idle"] /\ call' = call
    BY DEF WriteSync, WriteAsync, Return, WriteResult
  <1>2. HasCall(t) /\ call[t].transport \in Senders[t]
    BY <1>1, NoFrameApart DEF HasCall, LinkInv, IInv, LockOwned, Sequencing, CallsOwn
  <1>3. PICK l \in Links : l = LinkOf[call[t].transport]
    BY <1>1, FilledFrame DEF LinkInv
  <1> DEFINE k == Len(Accepted(l))
  <1>4. /\ \A m \in Links \ {l} : Accepted(m)' = Accepted(m)
        /\ k \in Nat
        /\ Len(Accepted(l)') = k + 1
        /\ \A i \in 1 .. k : Accepted(l)'[i] = Accepted(l)[i]
        /\ Accepted(l)'[k + 1] = call[t]
    BY <1>2, <1>3, WriteAccepts, AcceptsFrames
  <1>5. CallLast(t) /\ CallsLast /\ AcceptedInSequence
    BY DEF Sequencing, CallsLast
  <1>6. AcceptedInSequence'
    <2> SUFFICES ASSUME NEW m \in Links, NEW i \in 1 .. Len(Accepted(m)'),
                        NEW j \in 1 .. Len(Accepted(m)'), i < j,
                        Accepted(m)'[i].transport = Accepted(m)'[j].transport,
                        Owned(Accepted(m)'[i].transport)
                 PROVE  Accepted(m)'[i].seq < Accepted(m)'[j].seq
      BY DEF AcceptedInSequence, Owned
    <2>1. CASE m # l
      BY <1>4, <1>5, <2>1 DEF AcceptedInSequence
    <2>2. CASE m = l /\ j \in 1 .. k
      <3>1. i \in 1 .. k
        BY <1>4, <2>2
      <3> QED BY <1>4, <1>5, <2>2, <3>1 DEF AcceptedInSequence
    <2>3. CASE m = l /\ j = k + 1
      <3>1. i \in 1 .. k /\ Accepted(l)'[i] = Accepted(l)[i] /\ Accepted(l)'[j] = call[t]
        BY <1>4, <2>3
      <3>2. Accepted(l)[i].transport = call[t].transport /\ Owned(call[t].transport)
        BY <2>3, <3>1
      <3> QED BY <1>1, <1>5, <2>3, <3>1, <3>2 DEF CallLast
    <2> QED BY <1>4, <2>1, <2>2, <2>3
  <1>7. ASSUME NEW u \in Threads
        PROVE  CallLast(u)'
    <2> SUFFICES ASSUME pc'[u] # "idle", Owned(call[u].transport), NEW m \in Links,
                        NEW i \in 1 .. Len(Accepted(m)'),
                        Accepted(m)'[i].transport = call[u].transport
                 PROVE  Accepted(m)'[i].seq < call[u].seq
      BY <1>1 DEF CallLast, Owned
    <2>1. u # t /\ pc[u] # "idle"
      BY <1>1 DEF LinkInv, IInv, TypeOK
    <2>2. call[u].transport \in Senders[u]
      BY <2>1, NoFrameApart DEF HasCall, LinkInv, IInv, LockOwned, Sequencing, CallsOwn
    <2>3. call[t].transport # call[u].transport
      BY <1>2, <2>1, <2>2 DEF Owned
    <2>4. CallLast(u)
      BY <1>5 DEF CallsLast
    <2>5. CASE m # l
      BY <1>4, <2>1, <2>4, <2>5 DEF CallLast
    <2>6. CASE m = l
      <3>1. i \in 1 .. k
        BY <1>4, <2>3, <2>6
      <3> QED BY <1>4, <2>1, <2>4, <2>6, <3>1 DEF CallLast
    <2> QED BY <2>5, <2>6
  <1>8. CallsOwn'
    BY <1>1 DEF Sequencing, CallsOwn, HasCall
  <1> QED BY <1>6, <1>7, <1>8 DEF Sequencing, CallsLast

\* The other steps begin no call of a frame.
LEMMA RestSequencing ==
    ASSUME Sequencing, Keeps,
           \A u \in Threads :
               \/ call'[u] = call[u] /\ (pc'[u] # "idle" => pc[u] # "idle")
               \/ call'[u] = NoFrame /\ pc'[u] = "idle"
    PROVE  Sequencing'
  <1>1. \A u \in Threads : CallLast(u)'
    BY KeepsSequencing DEF Sequencing, CallsLast, CallLast
  <1>2. CallsOwn'
    BY DEF Sequencing, CallsOwn, HasCall
  <1> QED BY <1>1, <1>2, KeepsSequencing DEF Sequencing, CallsLast

\* Every step keeps an owner's frames in order.
LEMMA SequencingNext ==
    LinkInv /\ LinkInv' /\ NumbersSuffice /\ Numbering /\ Sequencing /\ [Next]_vars
        => Sequencing'
  <1> SUFFICES ASSUME LinkInv, LinkInv', NumbersSuffice, Numbering, Sequencing, [Next]_vars
               PROVE  Sequencing'
    OBVIOUS
  <1> DEFINE Calm(u) == \/ call'[u] = call[u] /\ (pc'[u] # "idle" => pc[u] # "idle")
                        \/ call'[u] = NoFrame /\ pc'[u] = "idle"
  <1>1. ASSUME NEW t \in Threads, NEW x \in Senders[t],
               NEW payload \in Payloads \cup {TooLong}, Allocate(t, x, payload)
        PROVE  Sequencing'
    <2>1. Keeps
      BY <1>1, RestKeeps DEF Allocate
    <2> QED BY <1>1, <2>1, AllocateSequencing
  <1>2. ASSUME NEW t \in Threads, SendNull(t) \/ Refuse(t) \/ WriteFails(t) \/ Fill(t)
        PROVE  Sequencing'
    <2>1. Keeps
      BY <1>2, RestKeeps DEF SendNull, Refuse, WriteFails, Fill
    <2>2. \A u \in Threads : Calm(u)
      <3>1. CASE SendNull(t)
        BY <3>1 DEF SendNull, LinkInv, IInv, TypeOK
      <3>2. CASE Refuse(t)
        BY <3>2 DEF Refuse, LinkInv, IInv, TypeOK
      <3>3. CASE WriteFails(t)
        BY <3>3 DEF WriteFails, Return, LinkInv, IInv, TypeOK
      <3>4. CASE Fill(t)
        BY <3>4 DEF Fill, LinkInv, IInv, TypeOK
      <3> QED BY <1>2, <3>1, <3>2, <3>3, <3>4
    <2> QED BY <2>1, <2>2, RestSequencing
  <1>3. ASSUME NEW t \in Threads, WriteSync(t) \/ WriteAsync(t)
        PROVE  Sequencing'
    BY <1>3, WriteSequencing
  <1>4. ASSUME NEW l \in Links, Drain(l)
        PROVE  Sequencing'
    BY <1>4, DrainKeeps, RestSequencing DEF Drain, senderVars
  <1>5. CASE Finished \/ UNCHANGED vars
    <2>1. UNCHANGED <<call, pc, wire, reading>>
      BY <1>5 DEF Finished, vars, senderVars
    <2> QED BY <2>1, RestKeeps, RestSequencing
  <1> QED BY <1>1, <1>2, <1>3, <1>4, <1>5 DEF Next, Write

\* The frames of a transport that one thread owns leave in the order of their
\* numbers, whatever the other threads do on the same link.
THEOREM InSequence ==
    ASSUME TwoBuffersEnough, NumbersSuffice
    PROVE  Spec => []WireInSequence
  <1>1. Init /\ LinkInv => Sequencing
    <2> SUFFICES ASSUME Init, LinkInv PROVE Sequencing
      OBVIOUS
    <2>1. \A l \in Links : Accepted(l) = <<>>
      BY AcceptedIs DEF Init, Ready
    <2>2. \A l \in Links : Len(Accepted(l)) = 0
      BY <2>1
    <2> QED BY <2>2 DEF Init, Sequencing, CallsOwn, HasCall, AcceptedInSequence,
                CallsLast, CallLast
  <1>2. LinkInv /\ LinkInv' /\ Numbering /\ Sequencing /\ [Next]_vars => Sequencing'
    BY SequencingNext
  <1>3. LinkInv /\ Sequencing => WireInSequence
    <2> SUFFICES ASSUME LinkInv, AcceptedInSequence, NEW l \in Links,
                        NEW i \in 1 .. Len(wire[l]), NEW j \in 1 .. Len(wire[l]), i < j,
                        wire[l][i].transport = wire[l][j].transport,
                        Owned(wire[l][i].transport)
                 PROVE  wire[l][i].seq < wire[l][j].seq
      BY DEF Sequencing, WireInSequence
    <2>1. /\ i \in 1 .. Len(Accepted(l)) /\ Accepted(l)[i] = wire[l][i]
          /\ j \in 1 .. Len(Accepted(l)) /\ Accepted(l)[j] = wire[l][j]
      BY SentAccepted
    <2> QED BY <2>1 DEF AcceptedInSequence
  <1> QED BY <1>1, <1>2, <1>3, NumberingInductive, PTL DEF Spec
=============================================================================
