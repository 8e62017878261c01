# libcomm verification

TLA+ models of libcomm, the library a MIDI-to-PWM controller and its host use to
talk to each other: what it sends and how it cuts what it receives into messages
(`FrameTransport`, `StreamProcessor`), how a message finds its handler (the four
endpoints), and how a firmware update is carried out (`OtaManager`). TLC checks
the models on small instances, TLAPS proves the properties that matter most for
every value of the constants. Paths are relative to the repository (`src/` is the
library's own source directory, `include/libcomm/` its headers).

Checking: `tlc -config MCOtaManager.cfg MCOtaManager` and so on for every `.cfg`
(the table of runs names the module of each); `tlapm OtaManagerProofs.tla` and so on
for the eight modules whose names end in `Proofs`.

## The system

| component | state | operations | correct when |
|---|---|---|---|
| `OtaManager` (`src/ota_manager.cpp`) | status, expected CRC, announced and received chunk counts | `handleBegin`, `handleData` (two overloads), `handleEnd`, `handleAbort` | the flash writer is called in its order; only a complete image of one session is installed; the host's picture is true |
| `IFlashWriter` (`flash_writer.h`) | the staging slot, the image to boot | `begin`, `writeChunk`, `finish`, `verify`, `activate`, `abort`, `maxFirmwareSize` | an interface, implemented by the firmware |
| `FrameTransport`, sending (`src/frame_transport.cpp`) | per transport: sequence counter and its mutex; per program: two transmit buffers, the one in turn, one mutex | `Send`, `NextSequence`, `TransmitFrame` | a frame reaches `write_` unharmed by other threads, stays so while a link reads it, is sent once, and `Send` tells the truth |
| `FrameTransport`, receiving | none | `HandleIncoming` | a damaged frame goes no further |
| `StreamProcessor` (`src/stream_processor.cpp`) | a buffer of one frame's size, callbacks | `feed`, `extractFrames`, `trySync`, `reset`, the setters | the payloads come out in order, bytes are not lost without a report, the loop ends |
| `MidiEndpoint`, `PwmEndpoint`, `OtaEndpoint`, `LogEndpoint` | registered delegates, a transport | `On...`, `HandleIncoming`, `HandleFrame`, `Send` | a message reaches the handler of its own schema and type, and the boolean says whether it was taken |
| message builders, FlatBuffers schemas | none | `Make...`, `Build...` | what they make, the endpoints accept |
| D-Bus example transport (`examples/dbus_transport`) | a connection, a handler | `Transmit`, `HandleMessage` | the sender's boolean is the receiver's; what is handled twice is known |
| CRC32 (`ComputeCrc32`) | a constant table | `ComputeCrc32` | it is the CRC-32 of the definition |
| logging (`src/logging.cpp`, `logging.h`) | one global delegate | `SetGlobalLogger`, the four `LIBCOMM_LOG_` macros | logging inside `Send` blocks nobody; a log that is forwarded ends, and reaches the host |

How they interact. The application builds an envelope and calls an endpoint's
`Send`, which is its transport's: the transport allocates a number, composes header,
payload and CRC in a transmit buffer and calls the application's `write_`. At the
other end the bytes arrive either whole (D-Bus, USB) and are offered to each
endpoint's `HandleIncoming` in turn, or in pieces (UART) and go through
`StreamProcessor::feed`, whose callback gets the payload and offers it to each
`HandleFrame`. The endpoint calls the delegate registered for the type. The
delegates of `OtaEndpoint` call `OtaManager`'s handlers, which call the flash
writer and, through the progress callback, the endpoint's `Send` again.

What is hard. Several threads send on several transports that share two static
buffers; `write_` may hand a buffer to a DMA transfer that outlives the call. A
serial line cuts the stream anywhere and damages it. A request/response medium
may time out although the request was handled. A firmware update is a sequence
of messages of which every one may be lost, repeated or out of place, over
hardware every call of which may fail, on a device that may lose power. `Send` logs
with the mutex of all transports held, and log records are themselves sent. Nothing
in the library retries, times out or looks at a sequence number it received.
The list of hazards, each at its line with the properties that catch it, is in
`PROJECT.json`.

## The modules

`FlashWriter`, `Frame`, `Crc32` and `Endpoint` are operators without state (a data
type each); the others are state machines.

    FirmwareUpdate    what a device promises of an update (abstract)
    OtaManager        the manager; EXTENDS FlashWriter; implements FirmwareUpdate
    OtaLink           host, two links and the manager; EXTENDS OtaManager
    FrameSender       what Send promises its callers (abstract)
    FrameTransport    threads that send over shared buffers and links;
                      implements FrameSender
    FrameCodec        a frame byte for byte, a line, HandleIncoming; EXTENDS Crc32
    StreamProcessor   a line, the buffer and the extraction loop; EXTENDS Frame
    RequestBus        peers, a request/response bus and the receiving program;
                      EXTENDS Endpoint
    LogForwarding     threads that send, the log sink, a thread that sends the log
    MC...             the instances TLC checks
    ...Proofs         the theorems

### OtaManager, FlashWriter, FirmwareUpdate

The variables `status`, `expectedCrc32`, `totalChunks` and `receivedChunks` are
the members of the class; `flash` is what the writer behind `writer_` has been
told to do; `reports` are the progress reports of the last handler, in the order
in which `sendProgress_` is called. `told` and `session` are history.

A handler is one action, with every writer call and report in it in the code's
order, and each writer call may fail: `HandleBegin`, `HandleData`, `HandleEnd`
and `HandleAbort` are the handlers' branches one to one, `HandleEmptyDataMessage`
is the overload of `handleData` that takes a message and finds no data in it, and
`Restart` a new manager after a reset or a power loss. `Fail` and `Ignore` are
the two ways out that all handlers share. The only durable state is the choice
of the image to boot, which one writer call changes, so a power loss inside a
handler leaves what one before or after it leaves.

`FlashWriter` records the stage of the slot and goes to "misused" for ever when
a call comes at a stage it does not belong to; `active` is the image the device
boots. `FirmwareUpdate` states the promise in four actions (`Announce`,
`Accept`, `Install`, `GiveUp`); `OtaManager` implements it under the mapping in
its `Update` instance: a status is a phase, the accepted OtaBegin is what is
announced, the chunk counter is what is accepted, the active image's own
OtaBegin is what is installed.

### OtaLink

The handlers of `OtaManager` are called by `Arrive`, with the messages the builders
of `ota_endpoint.cpp` make, taken from a link (`down`) that loses and repeats; the
reports of a handler set out on a link (`up`) that loses. `StagedIntact` is the
CRC32 comparison of `verify`. A power loss inside a handler leaves the state
`OtaManager`'s `Restart` leaves, but some of the handler's reports are already on
their way: `PowerLossInBegin` and `PowerLossInEnd`.

The host is not in the repository. It streams the messages of an update without
waiting, and starts over when it was told Error or has heard the last of it. Two
things it must do on its own were found by model checking, for without either of
them it is misled at once:

- it takes Rebooting for its own update's only after that update's Preparing. A
  Rebooting that comes late from an earlier attempt looks the same;
- it starts over only when nothing of the last attempt is on its way. No message
  but OtaBegin and no report says which attempt it belongs to.

### FrameTransport

A `Send` takes the steps the code's locks separate: `Allocate` (under the
transport's mutex), `Fill` (the static mutex is taken, the buffer picked and
composed, the other one put in turn), `Write` (`write_` runs, still under the
mutex, and `TransmitFrame` and `Send` return). `SendNull` and `Refuse` are the
early returns. `Links`, `Drain` and the three outcomes of `Write` are the
application's `write_`, modelled from its contract in the code: a synchronous
link has sent the frame when `write_` returns; an asynchronous one goes on
reading the buffer and takes the next one when it is done (the reason there are
two). A `write_` that fails waits for the link as well, except on the links of
`FailsAtOnce`, where it may fail while the link reads. Frames are records: composing one is a single assignment here, for nobody
reads a buffer that is being composed.

`FrameSender` says what callers may take `Send` for: a number is given, and at one
moment before the return the frame is accepted for good or refused. Under the
mapping in the `Sender` instance a link has accepted what it has sent and what is
in the buffer it still reads, so a frame overwritten in flight, or composed over,
is a step the abstract sender does not have.

### FrameCodec, Crc32

`Crc32` has bytes and words as the sets of their bits that are 1, the table and the
loop of `ComputeCrc32` on them, and CRC-32 as it is defined: the remainder of the
message, as a polynomial, by the generator. The code's loops are recursive functions,
one value per turn, so that they can be proved about. `FrameCodec` composes frames in one
transmit buffer that is never cleared (`TransmitFrame`), builds the same with
`BuildFrame`, and passes the bytes to `HandleIncoming` over a line that inverts a
burst of bits or loses or adds bytes.

### StreamProcessor, Frame

`feed` is one action and a turn of the loop in `extractFrames` another, so that
the end of the loop is something to check. `PeerSends`, `line` and the free
choice of the piece's length are the serial line. `Frame` gives a frame its
layout with every field one element wide: which bytes may be mistaken for a
version byte, what a header announces and whether the checksum covers it are
kept; the number of digits is not. The checksum is a parameter. What is added in
`std::size_t` is added modulo `SizeModulus`, which is at least the number of values of
the size field (`StreamAssumption`).

### Endpoint, RequestBus

`Endpoint` is `HandleFrame` of the four classes: identifier, verification, the
switch on the union's type (a number, from 1 in every schema), the table, the
delegate. `RequestBus` composes it with the medium of the D-Bus example:
`Send` and `Resend` put a request on the bus and block, `HandleMessage` offers it
to the receiver's endpoints in turn until one takes it and sends the boolean back,
`Answer` and `Timeout` end the wait, and handlers may be registered while
traffic is already under way. Resending is the peer's own doing, as it must be
with a library that does not. A request that cannot be built fails at once
(the early returns of `Transmit`). A reply that cannot be built
(`HandleMessageAgain`) leaves the request, already handled, at the head of the
queue: `HandleMessage` returns `NEED_MEMORY` and libdbus dispatches it again.

`EnvelopeBufferHasIdentifier` reads eight bytes before the buffer is verified; a
payload too short for that counts as not sound here and is refused either way.

### LogForwarding

The seven places of `Send` and `TransmitFrame` that log, as a thread meets them, two
of them with `transmitMutex` held (`composed`, `writeFailed`); which of them do
anything is decided by the level compiled in. The sink is the application's: it
holds a mutex of its own while it works, as the example's does, and puts the
record in a bounded queue. A forwarder takes records out and sends them, once
each, as `LogForward` messages with that same `Send`. Sequence numbers and buffers
are in `FrameTransport`.

## The runs

| run | module | bounds | shows |
|---|---|---|---|
| `ota_manager` | MCOtaManager | sizes 0..3 of which 1 and 2 are acceptable, totals 0 and 2, a counter modulo 4, report interval 3, a slot of 6 chunks | every sequence of handler calls, failures and restarts: `WriterCallOrder`, `InstalledImageSound`, `RebootingIsInstalled`, `HostInformed`, `ProgressDue`, `HostSeesLegalPath`; the manager implements `FirmwareUpdate` |
| `ota_link` | MCOtaLink | a host that wants one of 3 images, two of them with as many chunks; 2 messages on their way; 3 faults of any kind | what is installed is an image of the host's (`InstalledIntact`), the host is misled only by a lost Error or a power loss before `activate` (`HostNotMisled`), its update succeeds in the end (`HostSettles`) |
| `frame_send` | MCFrameTransport | 2 threads, 2 transports, one of them used by both, 1 asynchronous link whose `write_` waits, 3 Sends a thread, numbers modulo 7 | buffers are never overwritten (`FilledIntact`, `InFlightIntact`), a frame is sent once (`WireUnique`), the boolean is the truth (`ReturnTellsTruth`), a transport with one owner sends in order (`WireInSequence`), the number after the last is 1 (`TypeOK`), every Send returns (`SendReturns`); `Send` is atomic to its callers (`ImplementsFrameSender`) |
| `frame_codec` | MCFrameCodec | payloads of up to 2 bytes, 2 frames one after the other in the buffer, bursts at every bit | `CrcIsStandard`, `RoundTrip`, `DamageDetected`, `ComposersAgree` |
| `log_forward` | LogForwarding | 2 threads with 2 Sends each, 2 failures of `write_`, a queue of 2 records, the default level | the two mutexes are taken in one order (`LocksOrdered`), every Send returns (`SendersReturn`), forwarding ends (`LogDrains`), the host gets an Error record after the last failure (`HostLearns`) |
| `stream` | MCStreamProcessor | 3 units out of two frames, a damaged one, two false headers, a stray byte; pieces of up to 7 bytes, a buffer of 9; resets | frames after frames are delivered, all, in order, once (`CleanStream`, `AllDelivered`), the buffer is never overrun (`TypeOK`), no byte is lost without a report (`NoSilentLoss`), the loop ends (`LoopEnds`), as every turn of it shortens the buffer (`TurnsShorten`) |
| `request_bus` | MCRequestBus | a peer with one message of any of 18 types or 5 malformed ones, a peer with two, 2 Sends a message, 1 request lost, damaged or not made, or 1 reply not made | the right handler (`OwnHandler`), a boolean to rely on (`AnswerTrue`), no second handling but after a timeout or for want of memory (`HandledOnce`), nothing built is lost (`Arrives`) |
| `ota_second_begin`, `ota_empty_data`, `ota_count_wraps`, `stream_sync`, `stream_oversized` | | | one statement each of the repository that the code does not keep: see Findings |

Why these bounds are enough to meet the interesting cases:

- OTA: the slot holds more chunks than the counter can count, so the counter
  comes round and index 0 is expected a second time; totals 0 and 2 with an
  interval of 3 separate a last chunk from an interval report; sessions differ
  in size, CRC and total, so values left over from an earlier one would show.
- The link: a message lost, one repeated into the next attempt, and a power loss
  fit into one behaviour with three faults; the images with as many chunks are
  the ones whose chunks can be taken for each other's; the window of 2 lets a
  message and the one that overtakes its copy be on their way together.
- Sending: two threads are what it takes to disturb a buffer between `Fill` and
  `Write`, and six Sends in all bring each of the two buffers round three times and
  the counter of the transport both use to where it comes round. No number is used
  twice, which `WireUnique` and `WireInSequence` need.
- Frames: a payload byte behind and before another in the same place of the buffer
  shows what is left over; the burst shapes are a single bit, all 32, both ends of
  32 and mixed ones, at every bit of the frame; sequence numbers use both bytes.
- The log: a failure of a worker and one of the forwarder, with a queue that
  overflows (each failure makes two records).
- Streams: three units are enough for a frame to arrive whole, for one to be cut,
  and for a remainder to stand behind both; a piece of 7 does not fit behind
  a partial frame, and every path of the overflow is taken. `CleanStream` and
  `AllDelivered` claim nothing after an overflow, a reset or a feed without a
  callback: each of these throws good bytes away.
- Requests: one peer's timeout and second Send can be overtaken by its own late
  request, with the other peer's requests between them; tries exceed the faults
  by one, which `Arrives` needs.

Bounds that are not in the code: `SlotChunks`, `Window`, `MaxSends`, `MaxFailures`,
`MaxFrames`, `MaxUnits`, `MaxMessages`, `MaxTries`, `MaxFaults`. `MaxPiece` and `MayReset` describe the
environment. The stream and codec runs do not check deadlock: a line on which
nobody sends any more may stop.

### Fairness

- `FrameTransport`: weak fairness of each thread's steps inside `Send` and of
  each link's `Drain`. The operating system schedules a thread that can run, a
  transfer ends, and a thread waiting for the mutex competes with a bounded number of
  other Sends, so it gets it. Nobody is obliged to call `Send`.
- `StreamProcessor`: weak fairness of a turn of the loop (`Extract`; the caller
  of `feed` runs on) and of the line (`FeedAny`; bytes in the driver's hands are
  fed in the end). Not of the peer, nor of the registration of a callback:
  `AllDelivered` allows that there is none.
- `OtaLink`: weak fairness of the host's own steps (it sends, listens, and starts
  over; it wants the update) and of the arrival of what is on its way. Faults are
  bounded and none has to happen; `Reboot` need not happen either.
- `LogForwarding`: weak fairness of each thread's steps inside `Send` and of the
  forwarder. Both mutexes are given in the end to a thread that waits: its rivals
  make a bounded number of calls. Nobody is obliged to call `Send`.
- `OtaManager`, `FrameCodec` and `RequestBus` assume none; only safety is claimed.
  That the host comes back, or the bus answers, is not for the library to say.

## The proofs

### OtaManager

Assumption: `OtaAssumption` (the ranges of the constants; `ChunkModulus` is any
positive number). The inductive invariant `IInv` adds two facts to the properties,
which are not inductive alone:

- `StageMatchesStatus`: between handlers the manager is Idle, Receiving or
  Rebooting, and in the first two the slot is closed or open. Without it
  nothing tells that the next writer call is in order.
- `SessionUnmixed`: while Receiving, the slot's size, the expected CRC, the total
  and the chunks are those of the last accepted OtaBegin, the chunks are in
  order and the counter is the next index. This is what makes the image sound
  at the moment it is activated.

`OtaManagerProofs` first says what each writer call does to a flash, then shows
handler by handler that `IInv` is kept (`FailStep` serves every way of giving
up), and concludes `Typing`, `WriterOrdered`, `InstallsSound`,
`RebootsInstalled` and `HostIsInformed`. `Implements` is the refinement: every
handler is classified as one of the four abstract actions or a stutter, under
the invariant. The module's second part has the theorems that look at steps:
`ProgressIsReported` (with an invariant of its own that carries what has been
reported), `PathIsLegal` (`HostSeesLegalPath`), and `CountsExact`: if the slot holds fewer
chunks than the counter has values, an installed image has exactly the announced
number of chunks. That assumption is what the run `ota_count_wraps` violates.

### FrameTransport

Assumption: `TransportAssumption`. `IInv` is `TypeOK`, `FilledIntact`, `LockOwned`
(the mutex is held exactly while one thread has a buffer filled, and that buffer is
not the one in turn) and `ReadingFrames` (what a link reads was composed at some
time). It gives `Typing` and `Filled` for any number of threads, transports and
links.

Everything else needs `TwoBuffersEnough`: no link reads its buffer after `write_` has
returned, or all transports share one link and its `write_` does not fail while the link
still reads (it may wait for the link first, and fail then). With an asynchronous link
beside another one, frames of the other go through both buffers while that link reads
one; with a `write_` that answers "busy" at once (`FailsAtOnce`), refused frames do. Both
break `InFlightIntact`, so the assumption is not a convenience: it is the condition
under which the code is safe. `Typing` and `Filled` hold without it.
`SharedInv` says which of the two buffers the link can have: the one not in turn, or,
while a frame is filled but not written, the one that frame is not in. `InFlight`
follows.

The module's second part is about the frames a link has accepted (sent, or still reads).
`Implements` shows step by step that `FrameTransport` implements `FrameSender`:
`Allocate` is a call, the three early returns and a failing `write_` a refusal, a
successful `write_` the moment of acceptance, and `Fill` and `Drain` are stutters,
which is where `InFlightIntact` is needed. `Unique` and `Truthful` rest on
`Numbering`: numbers still to be given have not been given, two calls or two accepted
frames never share one, and a call is accepted exactly if it returned true.
`InSequence` rests on `Sequencing`, which orders the accepted frames of a transport
that one thread owns, and puts the frame of its call behind them.
These three assume `NumbersSuffice` as well: the threads that use a transport make
fewer Sends than there are numbers. The code's counter comes round after
65535, and then a number names two frames; nothing in the library tells
them apart, and the properties, which speak of frames by number, would be false.

### OtaLink

Assumption: `OtaAssumption` and `LinkAssumption`. `OtaLinkProofs` first shows that every
step of the composition is a step of `OtaManager` or leaves its variables alone
(`DeviceIsManager`, `LinkImplements`): all that is proved of the manager holds behind
links that lose and repeat. Four invariants then tell what the host and the device
know of each other:

- `LinkInv`: all messages and reports on their way are of the update attempted now,
  which is what the host's waiting (`OtaLink` above) is for;
- `SessionFromHost`: a transfer is one of an image of the host's, for only the host sends
  OtaBegin. That its chunks are that image's too is what `verify` establishes
  (`StagedIntact`); together they give `InstallsIntactImages`;
- `TransferIsWanted`: once a Preparing of this attempt has set out, a transfer is one of
  the wanted image, because only OtaBegin opens one and every OtaBegin on its way is
  the wanted one's;
- `BeliefJustified`: every Rebooting behind such a Preparing, on its way or heard, is
  justified (the image is installed, or an Error follows it, or one was lost, or the power
  was). It gives `HostIsNotMisled`.

### FrameCodec, Crc32

Assumptions: `CodecAssumption` (payloads are byte sequences, a burst lies within 32 bits)
and `WidthAssumption` (a sequence number fits two bytes, the largest payload's size four;
`kMaxFrameSize` is 4096).

`Crc32Proofs` is about `ComputeCrc32` on any sequence of bytes. `BitStep` is linear over
exclusive or, so what `n` steps make of any set of bits, `After`, is too.
`TableIs` and `ByteStepIs` show that a turn of the code's loop, lookup included, is eight
steps, `TableLoopIsBitwise` that the loop leaves in its register what the bitwise one has after
all bits of the message, which is `After` on the message combined with the initial ones.
From this follow, apart from each other:

- `CodeIsStandard`: the register mirrors the remainder of the division step for step
  (`DivisionMirrors`), so `ComputeCrc32` is CRC-32 as it is defined.
- `BurstsShow`: behind any message with its CRC the register holds one fixed value
  (`Residue`). If two such messages differed by one burst, the register would take the burst
  alone to zero; but it takes no word that is not zero to zero, as the highest bit of the
  reversed polynomial is 1 (`BurstRemains`).

`FrameCodecProofs` first gives the layout: `ComposedIs` says that `TransmitFrame`, by
its four writes into a buffer of any contents, puts `WireFrame` at its front, `BuiltIs` that
`BuildFrame` makes the same, and `WireIsValid` that `HandleIncoming` accepts it and cuts
the payload out of it. `WrongLengthShows`: the size field tells sizes below 2^32 apart, so
no shortened frame and none with a byte more is valid. `BurstsAreFound` carries
`BurstsShow` over to frames, in which the CRC is stored lowest byte first. The inductive
invariant `CodecInv` (`FramesAreWire`) is then short: the frame sent is `WireFrame` of
the message sent, what `BuildFrame` made is that or nothing, and what the line
delivers is the frame or is not valid. It gives `CrcStandard`, `PayloadsArrive`, `DamageFound`
and `BothComposersAgree` for every payload, number, buffer and burst.

### StreamProcessor

Assumption: `StreamAssumption`. `Typing`: `feed` refuses what does not fit and
`trySync` never lengthens the buffer, so it holds at most `kBufferCapacity` bytes.
`Conserved` (`NoSilentLoss`) is an account of bytes, one case per action. `CleanLine`
(`CleanStream`) is inductive with the types: while the line is clean, the buffer and
the line together are the concatenation of the units not yet delivered, so the header
in the buffer is the next unit's, its size is right, and the candidate is that unit;
neither rejection can happen. It assumes `FramesFit`, that a frame on the line fits
the buffer; `Composes` shows that what `BuildFrame` composes of a payload the senders do
not refuse does, and is accepted with that payload. `SizeDoesNotHide` says why a
wrapped sum (finding 5) never makes a frame of it: it is less than the smallest frame.
`LoopShortens` (`TurnsShorten`) is the measure behind `LoopEnds`: a turn of `extractFrames`
ends the loop or shortens the buffer. It assumes `NoFrameIsNothing`, that no announced
size makes the sum 0: so it is where `size_t` has 64 bits; with 32 the size
2^32 - 12 is the only exception, and finding 5 is what comes of it.

What these need of `FlattenSeq` (`FlattenAppend`, `FlattenHead`) is an induction over
data. The library's induction theorems take an operator and cannot be used, so
`Induction` is proved here (and in `Crc32Proofs`, for its loops) for a set of numbers, from the pigeonhole principle for
finite sets: if a set with 0 and every successor missed a number, adding one would
be an injection of its elements below that number into themselves that does not
reach 0.

### RequestBus

Assumption: `BusAssumption` (endpoints' handlers are those of the schemas, what builders
make is in the unions, a peer may try once at least). `BusInv` adds to `TypeOK` what a
request in the queue, a call of a handler and a reply say of the peer: until a Send of
its message ends without an answer, the request in the queue is the one it waits for,
a call was made for its latest Send, no two calls belong to one dispatch, and a reply
tells whether the message was taken. It gives
`Typing`, `Own`, `Answered` and `Once` for any traffic, order of endpoints and handlers.
`Delivered` (`Arrives`) needs two assumptions, and is false without either: the program
has the endpoint of every message sent (`AllOffered`), and there are more tries than
faults. `Losses` counts: a message neither taken nor on its way has cost a fault with each
try.

### LogForwarding

`LockInv` says which thread is at which place when a mutex is held. `Ordered`
(`LocksOrdered`) follows: a holder of the sink's mutex waits for nobody, a holder of
`transmitMutex` at most for the sink. `Reported` (`HostLearns`) rests on `HeardInv`: as long
as the host has not heard of the last failure, an Error record of it is in the queue,
carried by the forwarder, or still to be logged by a thread; a record that is dropped leaves
a full queue, and a forwarding that fails logs an Error of its own. It assumes that errors are compiled in
(`LogLevel > 0`), and nothing of the number of threads, failures or the queue's bound.

### Model-checked only

Liveness: `SendReturns`, `AllDelivered`, `LoopEnds`, `HostSettles`, `SendersReturn` and
`LogDrains` rest on fairness, which is out of the prover's reach, and stay with TLC. Every
invariant and action property the passing runs check is a theorem as well.

## Findings

Each is a run that TLC must find violated: the code does something else than a
test or a document of the repository says.

1. `ota_second_begin` (`src/ota_manager.cpp:39`). "OtaManager rejects OtaBegin
   when not idle" (`tests/ota_manager_tests.cpp:238`). The code resets the session
   first and then tests whether it is idle: the test is dead code, the old
   session vanishes without a report and the new one starts.
2. `ota_empty_data` (`src/ota_manager.cpp:85`). "OtaManager rejects OtaData when
   not receiving" (`tests/ota_manager_tests.cpp:299`). The overload for messages
   looks for empty data before the status, so an empty OtaData aborts the writer,
   reports an Error and sets the manager Idle in any status, Rebooting included.
3. `ota_count_wraps` (`src/ota_manager.cpp:132`). "OtaManager rejects OtaEnd with
   chunk count mismatch" (`tests/ota_manager_tests.cpp:321`). The 16-bit counter
   comes round; 65536 chunks too many pass the comparison. Verification of the
   size or CRC by the writer may still catch it; the count does not.
4. `stream_sync` (`src/stream_processor.cpp:126`). "sync recovery finds valid
   frame" (`tests/stream_processor_tests.cpp:274`). Behind a stray version byte the
   loop waits for a frame that is not there while a valid one lies complete in
   the buffer.
5. `stream_oversized` (`src/stream_processor.cpp:105`). "oversized frame triggers
   error" (`tests/stream_processor_tests.cpp:211`). On a target with a 32-bit
   `size_t` the sum of header, announced size and CRC wraps; sizes near 2^32 are not
   rejected. A sum of exactly 0 gives an empty candidate: if no version
   byte follows, the buffer stays as it is and the loop does not end.

Observed, and no run of their own: README.md:71 promises up to three attempts of a
failed transmission, and an ACK handshake with a `synchronous_ack` parameter, and
`Send` calls `write_` once (`src/frame_transport.cpp:204`); `handleBegin` reads neither
the target of an OtaBegin nor its `compressed_size` and `compressed_crc32`, so an
image for the other processor is accepted; a host cannot tell from any report
which image a device runs (`HostNotMisled` names the two ways it may be wrong);
`BuildFrame` with a null payload and a size leaves what the caller's buffer held; the
CRC table is initialised with the static objects of the program, in no order with
those of other files; on an overflow `feed` throws away the partial
frame although the very piece would complete it (a valid frame is lost on a line
without errors, with a report); frames of one transport sent by two threads may
leave in the other order than their numbers; `HandleFrame` returns true for a
message nobody has a handler for, which the tests want; the programs under
`examples/` are written for an earlier interface (a second constructor argument,
`OnChannelTelemetry`) and are built by no continuous integration.

## Not modelled

- The contents of FlatBuffers tables and the generated code that reads and writes
  them. An envelope is what dispatch looks at.
- Callbacks that call back: a progress callback that delivers the next
  message to the manager, a frame callback that calls `feed` or `reset`, a `write_`
  or a log sink that calls `Send`. The code neither supports nor forbids them and
  nothing says what would be right; each breaks what is shown here (the last one
  locks a mutex it holds). They are listed as hazards.
- The unsynchronised global log sink (installed before the threads start, as
  in the examples), `setErrorCallback` and `getBufferUsage`, D-Bus connection
  set-up, what the examples print, build files.
- What the builders put into the tables of the MIDI and PWM schemas (no later step
  of the library depends on it), and payloads over `kMaxFrameSize` but as one value
  that `Send` refuses.
- Texts of reports, and `Target` of an OtaBegin, which the manager does not read.

## Plan

The model covers what the library does, and its safety properties are proved.
What is left:

1. `FrameTransport`: what remains true of numbers after the counter has come round,
   without `NumbersSuffice`.
2. `OtaLink`: how far the host's waiting can be relaxed before `BeliefJustified` fails.
