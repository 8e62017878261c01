--------------------------- MODULE FrameTransport ---------------------------
(***************************************************************************)
(* The sending side of class FrameTransport (src/frame_transport.cpp),     *)
(* called by several threads.  Every transport (one per endpoint) has its  *)
(* own sequence counter, guarded by its own mutex.  All transports of the  *)
(* program share two transmit buffers, used in turn, and the mutex that    *)
(* guards them: they are static locals of TransmitFrame.                   *)
(*                                                                         *)
(* One Send takes up to three steps, each as long as the code holds one    *)
(* lock or runs one callback:                                              *)
(*   Allocate   NextSequence, under the transport's mutex                  *)
(*   Fill       TransmitFrame takes the static mutex, picks the buffer,    *)
(*              turns to the other one and composes the frame              *)
(*   Write      write_ is called with the buffer, still under the mutex;   *)
(*              TransmitFrame returns what it returned                     *)
(*                                                                         *)
(* write_ is the application's.  It hands the buffer to a link.  The link  *)
(* has sent the frame when write_ returns, or (if it may) keeps reading    *)
(* the buffer after that (a DMA transfer) and takes the next one only when *)
(* it is done with the last: write_ waits.  If it gives up, it does so     *)
(* after the wait, or (on the links of FailsAtOnce) while the link reads.  *)
(***************************************************************************)
EXTENDS Integers, Sequences

CONSTANTS
    Threads,
    Transports,
    Links,
    LinkOf,        \* the link each transport's write_ writes to
    AsyncLinks,    \* the links that may read the buffer after write_ returns
    FailsAtOnce,   \* the links whose write_ may fail while they still read one
    Connected,     \* the transports whose write_ is set
    Senders,       \* the transports each thread sends on
    Payloads,      \* payloads of at most kMaxFrameSize bytes
    TooLong,       \* a longer one
    SeqModulus,    \* sequence numbers are uint16_t: 2^16 in the code
    MaxSends       \* bound: calls of Send per thread

ASSUME TransportAssumption ==
    /\ LinkOf \in [Transports -> Links]
    /\ AsyncLinks \subseteq Links /\ FailsAtOnce \subseteq Links
    /\ Connected \subseteq Transports
    /\ Senders \in [Threads -> SUBSET Transports]
    /\ TooLong \notin Payloads
    /\ SeqModulus \in Nat /\ SeqModulus > 2
    /\ MaxSends \in Nat

VARIABLES
    nextSequence,  \* next_sequence_ of each transport
    mutexHeld,     \* transmitMutex is locked
    activeBuffer,  \* activeBufferIndex
    buffers,       \* transmitBuffers
    pc,            \* where each thread is in Send
    call,          \* the frame a thread is sending (or sent last)
    slot,          \* the buffer a thread has filled
    returned,      \* what a thread's last Send returned
    sends,         \* how often a thread has called Send
    reading,       \* the buffer each link still reads, and what it was handed
    wire           \* history: the frames each link has sent, in order

senderVars == <<pc, call, slot, returned, sends>>
bufferVars == <<mutexHeld, activeBuffer, buffers>>
vars == <<nextSequence, bufferVars, senderVars, reading, wire>>

BufferIds == {0, 1}

Sequences == 1 .. SeqModulus - 1

Frames == [transport : Transports, seq : Sequences, payload : Payloads \cup {TooLong}]

\* What a link was handed: a buffer, and (history) the frame in it.
Transfers == [slot : BufferIds, frame : Frames]

NoFrame == [transport |-> "none", seq |-> 0, payload |-> "none"]

-----------------------------------------------------------------------------
Init ==
    /\ nextSequence = [x \in Transports |-> 1]
    /\ mutexHeld = FALSE
    /\ activeBuffer = 0
    /\ buffers = [b \in BufferIds |-> NoFrame]
    /\ pc = [t \in Threads |-> "idle"]
    /\ call = [t \in Threads |-> NoFrame]
    /\ slot = [t \in Threads |-> 0]
    /\ returned = [t \in Threads |-> TRUE]
    /\ sends = [t \in Threads |-> 0]
    /\ reading = [l \in Links |-> <<>>]
    /\ wire = [l \in Links |-> <<>>]

\* Mutant: the number after the last one is the reserved 0.
BumpThroughZero(n) == (n + 1) % SeqModulus

\* Mutant: the counter is read and not moved on.
BumpForgotten(n) == n

\* ++next_sequence_, skipping the reserved 0.
Bump(n) == IF n + 1 = SeqModulus THEN 1 ELSE n + 1

\* Send with a null payload and a size that is not zero returns before anything else.
SendNull(t) ==
    /\ pc[t] = "idle" /\ sends[t] < MaxSends
    /\ sends' = [sends EXCEPT ![t] = @ + 1]
    /\ call' = [call EXCEPT ![t] = NoFrame]
    /\ returned' = [returned EXCEPT ![t] = FALSE]
    /\ UNCHANGED <<nextSequence, bufferVars, pc, slot, reading, wire>>

\* Send up to the return of NextSequence.  The number is spent whatever
\* becomes of the frame.
Allocate(t, x, payload) ==
    /\ pc[t] = "idle" /\ sends[t] < MaxSends
    /\ sends' = [sends EXCEPT ![t] = @ + 1]
    /\ call' = [call EXCEPT ![t] = [transport |-> x, seq |-> nextSequence[x],
                                    payload |-> payload]]
    /\ nextSequence' = [nextSequence EXCEPT ![x] = Bump(@)]
    /\ pc' = [pc EXCEPT ![t] = "allocated"]
    /\ UNCHANGED <<bufferVars, slot, returned, reading, wire>>

\* The tests TransmitFrame makes before it locks.
Transmittable(frame) == frame.transport \in Connected /\ frame.payload # TooLong

Refuse(t) ==
    /\ pc[t] = "allocated"
    /\ ~ Transmittable(call[t])
    /\ returned' = [returned EXCEPT ![t] = FALSE]
    /\ pc' = [pc EXCEPT ![t] = "idle"]
    /\ UNCHANGED <<nextSequence, bufferVars, call, slot, sends, reading, wire>>

\* Mutants: a single buffer; TransmitFrame without its lock.
OtherBufferSame(b) == b
CanLockAlways == TRUE

\* (activeBufferIndex + 1) % PING_PONG_BUFFER_COUNT
OtherBuffer(b) == (b + 1) % 2

CanLock == ~ mutexHeld

Fill(t) ==
    /\ pc[t] = "allocated"
    /\ Transmittable(call[t])
    /\ CanLock
    /\ mutexHeld' = TRUE
    /\ slot' = [slot EXCEPT ![t] = activeBuffer]
    /\ activeBuffer' = OtherBuffer(activeBuffer)
    /\ buffers' = [buffers EXCEPT ![activeBuffer] = call[t]]
    /\ pc' = [pc EXCEPT ![t] = "filled"]
    /\ UNCHANGED <<nextSequence, call, returned, sends, reading, wire>>

\* Mutant: the result of write_ is dropped.
WriteResultDropped(ok) == TRUE

WriteResult(ok) == ok

\* Mutant: a failed write returns without unlocking.
ReturnHoldingLock(t, ok) ==
    /\ returned' = [returned EXCEPT ![t] = WriteResult(ok)]
    /\ mutexHeld' = ~ ok
    /\ pc' = [pc EXCEPT ![t] = "idle"]
    /\ UNCHANGED <<nextSequence, activeBuffer, buffers, call, slot, sends>>

\* write_ has returned ok: so does TransmitFrame, which unlocks, and Send.
Return(t, ok) ==
    /\ returned' = [returned EXCEPT ![t] = WriteResult(ok)]
    /\ mutexHeld' = FALSE
    /\ pc' = [pc EXCEPT ![t] = "idle"]
    /\ UNCHANGED <<nextSequence, activeBuffer, buffers, call, slot, sends>>

\* The link is done with the buffer it took last.
Ready(l) == reading[l] = <<>>

WriteSync(t) ==
    LET l == LinkOf[call[t].transport] IN
    /\ pc[t] = "filled" /\ Ready(l)
    /\ wire' = [wire EXCEPT ![l] = Append(@, buffers[slot[t]])]
    /\ Return(t, TRUE)
    /\ UNCHANGED reading

WriteAsync(t) ==
    LET l == LinkOf[call[t].transport] IN
    /\ pc[t] = "filled" /\ l \in AsyncLinks /\ Ready(l)
    /\ reading' = [reading EXCEPT ![l] = <<[slot |-> slot[t], frame |-> buffers[slot[t]]]>>]
    /\ Return(t, TRUE)
    /\ UNCHANGED wire

WriteFails(t) ==
    LET l == LinkOf[call[t].transport] IN
    /\ pc[t] = "filled" /\ (~ Ready(l) => l \in FailsAtOnce)
    /\ Return(t, FALSE)
    /\ UNCHANGED <<reading, wire>>

\* A link finishes reading its buffer: what it has sent is what is in there.
Drain(l) ==
    /\ ~ Ready(l)
    /\ wire' = [wire EXCEPT ![l] = Append(@, buffers[reading[l][1].slot])]
    /\ reading' = [reading EXCEPT ![l] = <<>>]
    /\ UNCHANGED <<nextSequence, bufferVars, senderVars>>

\* Every thread has made its calls: the run is over.
Finished ==
    /\ \A t \in Threads : pc[t] = "idle" /\ sends[t] = MaxSends
    /\ \A l \in Links : Ready(l)
    /\ UNCHANGED vars

-----------------------------------------------------------------------------
Write(t) == WriteSync(t) \/ WriteAsync(t) \/ WriteFails(t)

Next ==
    \/ \E t \in Threads :
          \/ SendNull(t)
          \/ \E x \in Senders[t], payload \in Payloads \cup {TooLong} : Allocate(t, x, payload)
          \/ Refuse(t)
          \/ Fill(t)
          \/ Write(t)
    \/ \E l \in Links : Drain(l)
    \/ Finished

\* A thread inside Send is scheduled, the lock is given to it in the end (its
\* rivals make a bounded number of calls), and a link that reads comes to its
\* end.  Nobody has to call Send.
Fairness ==
    /\ \A t \in Threads : WF_vars(Refuse(t) \/ Fill(t) \/ Write(t))
    /\ \A l \in Links : WF_vars(Drain(l))

Spec == Init /\ [][Next]_vars /\ Fairness

-----------------------------------------------------------------------------
(***************************************************************************)
(* Properties.                                                             *)
(***************************************************************************)

\* The values of the variables; no sequence number is ever the reserved 0.
TypeOK ==
    /\ nextSequence \in [Transports -> Sequences]
    /\ mutexHeld \in BOOLEAN
    /\ activeBuffer \in BufferIds
    /\ buffers \in [BufferIds -> Frames \cup {NoFrame}]
    /\ pc \in [Threads -> {"idle", "allocated", "filled"}]
    /\ call \in [Threads -> Frames \cup {NoFrame}]
    /\ slot \in [Threads -> BufferIds]
    /\ returned \in [Threads -> BOOLEAN]
    /\ sends \in [Threads -> 0 .. MaxSends]
    /\ reading \in [Links -> Seq(Transfers)]
    /\ wire \in [Links -> Seq(Frames)]

\* The buffer write_ is called with holds the frame of the caller's own Send,
\* whatever the other threads, on this transport or another, do meanwhile.
FilledIntact ==
    \A t \in Threads : pc[t] = "filled" => buffers[slot[t]] = call[t]

\* The buffer a link is still reading holds the frame it was handed: the next
\* frame is composed in the other one.
InFlightIntact ==
    \A l \in Links :
        ~ Ready(l) => buffers[reading[l][1].slot] = reading[l][1].frame

\* A frame is on the wire at most once (while the counter has not come round).
WireUnique ==
    \A l \in Links : \A i, j \in 1 .. Len(wire[l]) :
        wire[l][i].transport = wire[l][j].transport /\ wire[l][i].seq = wire[l][j].seq
            => i = j

\* The frame has been handed to its link, and is sent or being sent.
Handed(frame) ==
    LET l == LinkOf[frame.transport] IN
    \/ \E i \in 1 .. Len(wire[l]) : wire[l][i] = frame
    \/ ~ Ready(l) /\ reading[l][1].frame = frame

\* Send returns true exactly when its frame has been handed to the link: a
\* caller that resends after false does not send a frame twice.
ReturnTellsTruth ==
    \A t \in Threads :
        pc[t] = "idle" /\ call[t] # NoFrame => (returned[t] <=> Handed(call[t]))

\* Only one thread sends on the transport.
Owned(x) == \A t, u \in Threads : x \in Senders[t] /\ x \in Senders[u] => t = u

\* The frames of a transport that one thread owns leave in the order of their
\* sequence numbers (while the counter has not come round), whoever else uses
\* the same link and the same buffers.
WireInSequence ==
    \A l \in Links : \A i, j \in 1 .. Len(wire[l]) :
        i < j /\ wire[l][i].transport = wire[l][j].transport /\ Owned(wire[l][i].transport)
            => wire[l][i].seq < wire[l][j].seq

\* Every Send returns: no step of it leaves the shared lock behind.
SendReturns ==
    \A t \in Threads : pc[t] # "idle" ~> pc[t] = "idle"

\* For its callers Send is what FrameSender says, though three steps of it are
\* interleaved with those of other threads and the links read shared buffers: a
\* link has accepted what it has sent and what is in the buffer it still reads.
Accepted(l) == wire[l] \o [i \in DOMAIN reading[l] |-> buffers[reading[l][i].slot]]

Sender == INSTANCE FrameSender WITH
    Callers <- Threads,
    Channels <- Transports,
    Outputs <- Links,
    OutputOf <- LinkOf,
    Messages <- Payloads \cup {TooLong},
    NextNumber <- Bump,
    next <- nextSequence,
    pending <- [t \in Threads |-> IF pc[t] = "idle" THEN {} ELSE {call[t]}],
    accepted <- [l \in Links |-> Accepted(l)],
    result <- returned

ImplementsFrameSender == Sender!Spec

-----------------------------------------------------------------------------
\* The lock is held while, and only while, one thread has a buffer filled; that
\* buffer is not the one to be filled next, and holds the thread's frame.
LockOwned ==
    /\ mutexHeld <=> \E t \in Threads : pc[t] = "filled"
    /\ \A t, u \in Threads : pc[t] = "filled" /\ pc[u] = "filled" => t = u
    /\ \A t \in Threads : pc[t] = "filled" => slot[t] = OtherBuffer(activeBuffer)
    /\ \A t \in Threads : pc[t] # "idle" => call[t] \in Frames

\* A link that is reading has a buffer some frame was composed in.
ReadingFrames ==
    \A l \in Links : ~ Ready(l) => buffers[reading[l][1].slot] \in Frames

\* Between two frames a link that is reading has the buffer that is not filled
\* next; while a frame is in the buffers, it has the one that frame is not in.
ReadingApart ==
    \A l \in Links : ~ Ready(l) =>
        /\ l \in AsyncLinks
        /\ reading[l][1].slot = IF mutexHeld THEN activeBuffer ELSE OtherBuffer(activeBuffer)

\* The inductive invariants: of any program, and of one with a single link.
IInv == TypeOK /\ LockOwned /\ FilledIntact /\ ReadingFrames

SharedInv == ReadingApart /\ InFlightIntact

=============================================================================
