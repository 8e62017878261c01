-------------------------- MODULE StreamProcessor --------------------------
(***************************************************************************)
(* Class StreamProcessor (src/stream_processor.cpp): it cuts the bytes of  *)
(* a serial line into frames.  The line delivers what the peer sends in    *)
(* pieces of any length; feed appends a piece to a buffer that holds one   *)
(* frame of the largest size, and extractFrames takes out the frames that  *)
(* are complete.                                                           *)
(*                                                                         *)
(* feed is one action and one turn of extractFrames' loop another, for the *)
(* loop must be shown to end.  Nothing else runs while the loop does: feed *)
(* is called again only after it has returned, and the frame callback does *)
(* not call back into the processor.                                       *)
(***************************************************************************)
EXTENDS Frame, FiniteSetsExt, SequencesExt

CONSTANTS
    Units,       \* what the peer puts on the line: frames, and noise
    MaxUnits,    \* bound: how many of them
    MaxPiece,    \* the longest piece the line delivers at once
    MayReset     \* whether the application calls reset

\* std::size_t is at least as wide as the size field of the header.
ASSUME StreamAssumption ==
    /\ MaxPayload \in Nat
    /\ SizeModulus \in Nat /\ Bytes \subseteq 0 .. SizeModulus - 1
    /\ MaxPiece \in Nat /\ MaxUnits \in Nat
    /\ \A unit \in Units : unit \in Seq(Bytes)

VARIABLES
    registered,    \* frameCallback_ is set
    buffer,        \* buffer_[0 .. size_)
    extracting,    \* feed is inside extractFrames
    delivered,     \* history: the payloads given to the frame callback
    errors,        \* history: the kinds of error reported
    discarded,     \* history: bytes the application has had thrown away
    line,          \* bytes on their way
    sent           \* history: the units the peer has sent

vars == <<registered, buffer, extracting, delivered, errors, discarded, line, sent>>

Capacity == HeaderSize + MaxPayload + CrcSize   \* kBufferCapacity

ErrorTypes == {"InvalidHeader", "BufferOverflow", "InvalidFrameSize", "CrcFailure",
               "SyncRecoveryAttempt"}

Init ==
    /\ registered = FALSE
    /\ discarded = 0
    /\ buffer = <<>>
    /\ extracting = FALSE
    /\ delivered = <<>>
    /\ errors = {}
    /\ line = <<>>
    /\ sent = <<>>

-----------------------------------------------------------------------------
\* The peer sends a unit.
PeerSends(unit) ==
    /\ Len(sent) < MaxUnits
    /\ sent' = Append(sent, unit)
    /\ line' = line \o unit
    /\ UNCHANGED <<registered, buffer, extracting, delivered, errors, discarded>>

\* setFrameCallback.
SetFrameCallback ==
    /\ ~ extracting /\ ~ registered
    /\ registered' = TRUE
    /\ UNCHANGED <<buffer, extracting, delivered, errors, discarded, line, sent>>

\* s without its first n elements.
DropFirst(s, n) == SubSeq(s, n + 1, Len(s))

\* Mutant: the search starts at the byte that has just failed.
SyncPointsFromStart(bytes) == {i \in 1 .. Len(bytes) : bytes[i] = Version}

\* The places trySync looks for: a version byte after the first byte.
SyncPoints(bytes) == {i \in 2 .. Len(bytes) : bytes[i] = Version}

\* trySync: the buffer from the first of them on; `otherwise' if there is none.
Synced(bytes, otherwise) ==
    IF SyncPoints(bytes) = {} THEN otherwise
                              ELSE DropFirst(bytes, Min(SyncPoints(bytes)) - 1)

\* Mutant: one byte more than there is room for.
FitsOneMore(bytes, n) == Len(bytes) + n <= Capacity + 1

Fits(bytes, n) == Len(bytes) + n <= Capacity

\* feed without a frame callback.
FeedUnregistered(n) ==
    /\ ~ registered
    /\ n <= Len(line)
    /\ line' = DropFirst(line, n)
    /\ errors' = errors \cup {"InvalidHeader"}
    /\ discarded' = discarded + n
    /\ UNCHANGED <<registered, buffer, extracting, delivered, sent>>

\* feed: a piece that does not fit costs the start of what is buffered, up to
\* the next version byte, and is itself dropped if it still does not fit.
Feed(n) ==
    LET piece == SubSeq(line, 1, n)
        room  == IF Fits(buffer, n) THEN buffer ELSE Synced(buffer, <<>>)
    IN  /\ registered /\ ~ extracting
        /\ n <= Len(line)
        /\ line' = DropFirst(line, n)
        /\ buffer' = IF Fits(room, n) THEN room \o piece ELSE room
        /\ extracting' = Fits(room, n)
        /\ errors' = IF Fits(buffer, n) THEN errors
                     ELSE errors \cup {"BufferOverflow", "SyncRecoveryAttempt"}
        /\ UNCHANGED <<registered, delivered, discarded, sent>>

-----------------------------------------------------------------------------
(***************************************************************************)
(* One turn of extractFrames' loop.                                        *)
(***************************************************************************)
HeaderThere == Len(buffer) >= HeaderSize
SizeImpossible == TotalSize(buffer) > Capacity

\* Mutant: a complete frame waits for one byte more.
FrameThereLate == Len(buffer) > TotalSize(buffer)

FrameThere == Len(buffer) >= MinimumFrameSize /\ Len(buffer) >= TotalSize(buffer)

Candidate == SubSeq(buffer, 1, TotalSize(buffer))
Rest == DropFirst(buffer, TotalSize(buffer))

\* The loop ends: no header, or a frame that is still incomplete.
Wait ==
    /\ extracting
    /\ HeaderThere => ~ SizeImpossible /\ ~ FrameThere
    /\ extracting' = FALSE
    /\ UNCHANGED <<registered, buffer, delivered, errors, discarded, line, sent>>

\* The header announces a frame the buffer cannot hold.
RejectSize ==
    /\ extracting /\ HeaderThere /\ SizeImpossible
    /\ buffer' = Synced(buffer, <<>>)
    /\ extracting' = (SyncPoints(buffer) # {})
    /\ errors' = errors \cup {"InvalidFrameSize", "SyncRecoveryAttempt"}
    /\ UNCHANGED <<registered, delivered, discarded, line, sent>>

\* Mutant: the bytes after the frame are lost with it.
RestLost == <<>>

\* What is left in the buffer behind a frame.
Remaining == Rest

Deliver ==
    /\ extracting /\ HeaderThere /\ ~ SizeImpossible /\ FrameThere
    /\ Accepted(Candidate)
    /\ delivered' = Append(delivered, Payload(Candidate))
    /\ buffer' = Remaining
    /\ UNCHANGED <<registered, extracting, errors, discarded, line, sent>>

RejectFrame ==
    /\ extracting /\ HeaderThere /\ ~ SizeImpossible /\ FrameThere
    /\ ~ Accepted(Candidate)
    /\ buffer' = Synced(buffer, Rest)
    /\ errors' = errors \cup {"CrcFailure", "SyncRecoveryAttempt"}
    /\ UNCHANGED <<registered, extracting, delivered, discarded, line, sent>>

\* reset, by the application.
Reset ==
    /\ ~ extracting
    /\ buffer' = <<>>
    /\ discarded' = discarded + Len(buffer)
    /\ UNCHANGED <<registered, extracting, delivered, errors, line, sent>>

-----------------------------------------------------------------------------
Extract == Wait \/ RejectSize \/ Deliver \/ RejectFrame

FeedAny == \E n \in 1 .. MaxPiece : Feed(n) \/ FeedUnregistered(n)

Next ==
    \/ \E unit \in Units : PeerSends(unit)
    \/ SetFrameCallback
    \/ FeedAny
    \/ Extract
    \/ MayReset /\ Reset

\* The processor runs to the end of its loop, and the line delivers its bytes.
Fairness == WF_vars(Extract) /\ WF_vars(FeedAny)

Spec == Init /\ [][Next]_vars /\ Fairness

-----------------------------------------------------------------------------
(***************************************************************************)
(* Properties.                                                             *)
(***************************************************************************)

\* The values of the variables; the buffer never holds more than it can.
TypeOK ==
    /\ registered \in BOOLEAN
    /\ buffer \in Seq(Bytes) /\ Len(buffer) <= Capacity
    /\ extracting \in BOOLEAN
    /\ \A i \in 1 .. Len(delivered) : delivered[i] \in Seq(Bytes)
    /\ errors \subseteq ErrorTypes
    /\ discarded \in Nat
    /\ line \in Seq(Bytes)
    /\ \A i \in 1 .. Len(sent) : sent[i] \in Units

IsFrame(unit) == Accepted(unit)

\* Nothing has cost bytes that were good: no reset, no missing callback, and no
\* piece that found too little room behind a partial frame.
Undisturbed == discarded = 0 /\ "BufferOverflow" \notin errors

\* On a line that carries nothing but frames, however it cuts them, the
\* payloads are delivered in the order they were sent, none lost, none twice
\* and none made up, no error is reported, and what is still to come is exactly
\* what is on the line and in the buffer.
CleanStream ==
    Undisturbed /\ (\A i \in 1 .. Len(sent) : IsFrame(sent[i])) =>
        /\ errors = {}
        /\ Len(delivered) <= Len(sent)
        /\ \A i \in 1 .. Len(delivered) : delivered[i] = Payload(sent[i])
        /\ buffer \o line = FlattenSeq(DropFirst(sent, Len(delivered)))

\* A frame that only frames came before is delivered once its bytes have come,
\* whatever follows it.
AllDelivered ==
    \A k \in 1 .. MaxUnits :
        (Len(sent) >= k /\ (\A i \in 1 .. k : IsFrame(sent[i])))
            ~> (Len(delivered) >= k \/ ~ Undisturbed \/ ~ registered)

\* extractFrames ends, whatever the line brings.
LoopEnds == extracting ~> ~ extracting

\* The measure behind it: a turn of the loop in extractFrames ends it or shortens
\* what is buffered, a rejected candidate included, so a call of feed takes no more
\* turns than there are bytes.
TurnsShorten == [][Extract => ~ extracting' \/ Len(buffer') < Len(buffer)]_vars

\* Bytes are lost only with an error report: without one, every byte that has
\* come in is in the buffer, in a delivered frame, or was thrown away by the
\* application itself.
NoSilentLoss ==
    errors \subseteq {"InvalidHeader"} =>
        Len(FlattenSeq(sent)) =
            Len(line) + Len(buffer) + discarded
            + Len(FlattenSeq(delivered)) + Len(delivered) * MinimumFrameSize

-----------------------------------------------------------------------------
\* tests/stream_processor_tests.cpp:274, "sync recovery finds valid frame":
\* when feed has returned, no complete valid frame is left in the buffer.
SyncFindsFrame ==
    ~ extracting =>
        \A i \in 1 .. Len(buffer) :
            LET tail == DropFirst(buffer, i - 1) IN
            Len(tail) >= MinimumFrameSize /\ Len(tail) >= TotalSize(tail)
                => ~ Accepted(SubSeq(tail, 1, TotalSize(tail)))

\* tests/stream_processor_tests.cpp:211, "oversized frame triggers error": the
\* loop never settles for a header that announces more than a frame can hold.
OversizedRejected ==
    [][~ (HeaderThere /\ PayloadSize(buffer) > MaxPayload /\ (Wait \/ RejectFrame))]_vars
=============================================================================
