----------------------------- MODULE OtaManager -----------------------------
(***************************************************************************)
(* The device side of a firmware update: class OtaManager                  *)
(* (src/ota_manager.cpp).  The application calls one handler per message   *)
(* the host sends; a handler runs to its end before the next one starts    *)
(* (the class has no lock and its progress callback only queues a frame),  *)
(* so every handler is one atomic action.  The flash writer's outcomes are *)
(* chosen freely: any call may fail.                                       *)
(*                                                                         *)
(* A power loss in the middle of a handler needs no action of its own: the *)
(* only durable state is flash.active, which one writer call changes, so   *)
(* the device comes back as it does from a power loss before or after the  *)
(* handler.                                                                *)
(***************************************************************************)
EXTENDS FlashWriter

CONSTANTS
    Sizes,              \* firmware_size values an OtaBegin may carry
    Crcs,               \* firmware_crc32 values an OtaBegin may carry
    Totals,             \* total_chunks values an OtaBegin may carry
    Payloads,           \* contents a chunk may have
    NoData,             \* a chunk with null or empty data
    MaxFirmwareSize,    \* what writer_.maxFirmwareSize() returns
    ChunkModulus,       \* chunk counters are uint16_t: 2^16 in the code
    ReportInterval,     \* kProgressReportInterval: 50 in the code
    SlotChunks,         \* bound: chunks the staging slot can hold
    ProgressConnected   \* whether sendProgress_ is set

ASSUME OtaAssumption ==
    /\ Sizes \subseteq Nat
    /\ Crcs \subseteq Nat /\ 0 \in Crcs
    /\ ChunkModulus \in Nat \ {0}
    /\ Totals \subseteq 0 .. ChunkModulus - 1 /\ 0 \in Totals
    /\ NoData \notin Payloads
    /\ MaxFirmwareSize \in Nat
    /\ ReportInterval \in Nat \ {0}
    /\ SlotChunks \in Nat
    /\ ProgressConnected \in BOOLEAN

VARIABLES
    status,          \* status_
    expectedCrc32,   \* expectedCrc32_
    totalChunks,     \* totalChunks_
    receivedChunks,  \* receivedChunks_
    flash,           \* the flash behind writer_
    reports,         \* the progress reports the last handler sent, in order
    told,            \* history: the last report sent since power-on
    session          \* history: the OtaBegin accepted last

manager == <<expectedCrc32, totalChunks, receivedChunks>>
vars == <<status, manager, flash, reports, told, session>>

-----------------------------------------------------------------------------
Statuses == {"Idle", "Preparing", "Receiving", "Verifying", "Applying",
             "Rebooting", "Error"}

Chunks == [index : 0 .. ChunkModulus - 1, data : Payloads]

Sessions == [size : Sizes \cup {0}, crc : Crcs, total : Totals]

Images == [size : Sizes \cup {0}, crc : Crcs, chunks : Seq(Chunks),
           begun : Sessions]

Flashes == [stage : Stages, size : Sizes \cup {0}, chunks : Seq(Chunks),
            crc : Crcs, active : SUBSET Images]

\* Mutant: a counter that does not wrap.
SuccUnbounded(n) == n + 1

\* ++ on a uint16_t.
Succ(n) == IF n + 1 = ChunkModulus THEN 0 ELSE n + 1

Report(s, received, total) ==
    [status |-> s, received |-> received, total |-> total]

Reports == [status : Statuses, received : 0 .. ChunkModulus - 1, total : Totals]

\* What the host knows of a device that has reported nothing since power-on.
NothingTold == Report("Idle", 0, 0)

\* sendProgress_, called once for each element of rs.
Emit(rs) ==
    /\ reports' = IF ProgressConnected THEN rs ELSE <<>>
    /\ told' = IF ProgressConnected /\ rs # <<>> THEN rs[Len(rs)] ELSE told

-----------------------------------------------------------------------------
Init ==
    /\ status = "Idle"
    /\ expectedCrc32 = 0
    /\ totalChunks = 0
    /\ receivedChunks = 0
    /\ flash = FactoryFlash
    /\ reports = <<>>
    /\ told = NothingTold
    /\ session = [size |-> 0, crc |-> 0, total |-> 0]

\* Mutants: status_ is not set back; the host is not told.
FailKeepsStatus(f, sent) ==
    /\ flash' = FlashAbort(f)
    /\ Emit(Append(sent, Report("Error", receivedChunks, totalChunks)))
    /\ UNCHANGED <<status, manager, session>>

FailSilently(f, sent) ==
    /\ flash' = FlashAbort(f)
    /\ Emit(sent)
    /\ status' = "Idle"
    /\ UNCHANGED <<manager, session>>

\* The way every handler gives up: writer_.abort(), an Error report (after the
\* reports already sent), and the manager is Idle again.
Fail(f, sent) ==
    /\ flash' = FlashAbort(f)
    /\ Emit(Append(sent, Report("Error", receivedChunks, totalChunks)))
    /\ status' = "Idle"
    /\ UNCHANGED <<manager, session>>

\* The way a handler ignores a message.
Ignore ==
    /\ Emit(<<>>)
    /\ UNCHANGED <<status, manager, flash, session>>

-----------------------------------------------------------------------------
(***************************************************************************)
(* handleBegin.  A manager that is not Idle first drops its session and    *)
(* forgets its counters, without a report; the code's second test for a    *)
(* status other than Idle can no longer succeed.                           *)
(***************************************************************************)
\* Mutant: a new session starts without aborting the old one.
ClearedFlashKept == flash

ClearedFlash == IF status = "Idle" THEN flash ELSE FlashAbort(flash)
ClearedCount(n) == IF status = "Idle" THEN n ELSE 0

SizeAccepted(size) == size # 0 /\ size <= MaxFirmwareSize

RefuseBegin(size) ==
    /\ ~ SizeAccepted(size)
    /\ flash' = ClearedFlash
    /\ receivedChunks' = ClearedCount(receivedChunks)
    /\ totalChunks' = ClearedCount(totalChunks)
    /\ Emit(<<Report("Error", ClearedCount(receivedChunks), ClearedCount(totalChunks))>>)
    /\ status' = "Idle"
    /\ UNCHANGED <<expectedCrc32, session>>

AcceptBegin(size, crc, total, eraseOk) ==
    /\ SizeAccepted(size)
    /\ expectedCrc32' = crc
    /\ totalChunks' = total
    /\ receivedChunks' = 0
    /\ session' = [size |-> size, crc |-> crc, total |-> total]
    /\ \/ /\ eraseOk
          /\ flash' = FlashBegin(ClearedFlash, size, TRUE)
          /\ Emit(<<Report("Preparing", 0, total), Report("Receiving", 0, total)>>)
          /\ status' = "Receiving"
       \/ /\ ~ eraseOk
          /\ flash' = FlashAbort(FlashBegin(ClearedFlash, size, FALSE))
          /\ Emit(<<Report("Preparing", 0, total), Report("Error", 0, total)>>)
          /\ status' = "Idle"

\* Mutant: an OtaBegin is refused when the manager is not Idle.
HandleBeginRefusing(size, crc, total, eraseOk) ==
    \/ status = "Idle" /\ (RefuseBegin(size) \/ AcceptBegin(size, crc, total, eraseOk))
    \/ /\ status # "Idle"
       /\ Emit(<<Report("Error", receivedChunks, totalChunks)>>)
       /\ status' = "Error"
       /\ UNCHANGED <<manager, flash, session>>

HandleBegin(size, crc, total, eraseOk) ==
    RefuseBegin(size) \/ AcceptBegin(size, crc, total, eraseOk)

-----------------------------------------------------------------------------
(***************************************************************************)
(* handleData on a message: an empty chunk is looked at before the status, *)
(* so it ends whatever is going on.                                        *)
(***************************************************************************)
HandleEmptyDataMessage == Fail(flash, <<>>)

ReportDue(n) == n % ReportInterval = 0

\* Mutant: the last chunk is reported only when the interval is up.
ReportedIntervalOnly(n) == ReportDue(n)

\* isLastChunk || isReportDue
Reported(n) == n = totalChunks \/ ReportDue(n)

StoreChunk(chunk) ==
    /\ Len(flash.chunks) < SlotChunks
    /\ flash' = FlashWriteChunk(flash, chunk, TRUE)
    /\ receivedChunks' = Succ(receivedChunks)
    /\ Emit(IF Reported(receivedChunks')
            THEN <<Report(status, receivedChunks', totalChunks)>>
            ELSE <<>>)
    /\ UNCHANGED <<status, expectedCrc32, totalChunks, session>>

\* Mutant: chunks are taken in any order.
ExpectedAnyIndex(index, data) == data # NoData

Expected(index, data) == index = receivedChunks /\ data # NoData

\* handleData on (index, data): the next chunk, in order and not empty, is
\* written; anything else ends the session.
HandleData(index, data, writeOk) ==
    LET chunk == [index |-> index, data |-> data]
    IN  \/ status # "Receiving" /\ Ignore
        \/ status = "Receiving" /\ ~ Expected(index, data) /\ Fail(flash, <<>>)
        \/ /\ status = "Receiving" /\ Expected(index, data) /\ ~ writeOk
           /\ Fail(FlashWriteChunk(flash, chunk, FALSE), <<>>)
        \/ /\ status = "Receiving" /\ Expected(index, data) /\ writeOk
           /\ StoreChunk(chunk)

-----------------------------------------------------------------------------
(***************************************************************************)
(* handleEnd: finish, verify and activate, each reported before the next   *)
(* is tried.  Rebooting is reported before activate is called.             *)
(***************************************************************************)
Progress(s) == Report(s, receivedChunks, totalChunks)

Finished == FlashFinish(flash, TRUE)
Verified == FlashVerify(Finished, expectedCrc32, TRUE)

\* Mutant: one of the reports is left out.
ActivateUnreported ==
    /\ flash' = FlashActivate(Verified, session, TRUE)
    /\ Emit(<<Progress("Verifying"), Progress("Rebooting")>>)
    /\ status' = "Rebooting"
    /\ UNCHANGED <<manager, session>>

Activate ==
    /\ flash' = FlashActivate(Verified, session, TRUE)
    /\ Emit(<<Progress("Verifying"), Progress("Applying"), Progress("Rebooting")>>)
    /\ status' = "Rebooting"
    /\ UNCHANGED <<manager, session>>

\* Mutant: the chunks are not counted.
CountUnchecked == TRUE

CountMatches == receivedChunks = totalChunks

\* Mutant: what verify says is dropped.
HandleEndUnverified(finishOk, verifyOk, activateOk) ==
    \/ status # "Receiving" /\ Ignore
    \/ /\ status = "Receiving" /\ ~ (CountMatches /\ finishOk /\ activateOk)
       /\ Fail(flash, <<>>)
    \/ status = "Receiving" /\ CountMatches /\ finishOk /\ activateOk /\ Activate

HandleEnd(finishOk, verifyOk, activateOk) ==
    \/ status # "Receiving" /\ Ignore
    \/ /\ status = "Receiving"
       /\ \/ ~ CountMatches /\ Fail(flash, <<>>)
          \/ /\ CountMatches
             /\ \/ ~ finishOk /\ Fail(FlashFinish(flash, FALSE), <<>>)
                \/ /\ finishOk /\ ~ verifyOk
                   /\ Fail(FlashVerify(Finished, expectedCrc32, FALSE),
                           <<Progress("Verifying")>>)
                \/ /\ finishOk /\ verifyOk /\ ~ activateOk
                   /\ Fail(FlashActivate(Verified, session, FALSE),
                           <<Progress("Verifying"), Progress("Applying"),
                             Progress("Rebooting")>>)
                \/ finishOk /\ verifyOk /\ activateOk /\ Activate

\* handleAbort: a manager that is Idle ignores it.
HandleAbort ==
    \/ status = "Idle" /\ Ignore
    \/ status # "Idle" /\ Fail(flash, <<>>)

\* The device restarts (after activation, or because it lost power) and the
\* manager is constructed anew.
Restart ==
    /\ status' = "Idle"
    /\ expectedCrc32' = 0
    /\ totalChunks' = 0
    /\ receivedChunks' = 0
    /\ flash' = FlashPowerLoss(flash)
    /\ reports' = <<>>
    /\ told' = NothingTold
    /\ UNCHANGED session

-----------------------------------------------------------------------------
Next ==
    \/ \E size \in Sizes, crc \in Crcs, total \in Totals, eraseOk \in BOOLEAN :
          HandleBegin(size, crc, total, eraseOk)
    \/ HandleEmptyDataMessage
    \/ \E index \in 0 .. ChunkModulus - 1, data \in Payloads \cup {NoData},
          writeOk \in BOOLEAN : HandleData(index, data, writeOk)
    \/ \E finishOk, verifyOk, activateOk \in BOOLEAN :
          HandleEnd(finishOk, verifyOk, activateOk)
    \/ HandleAbort
    \/ Restart

Spec == Init /\ [][Next]_vars

-----------------------------------------------------------------------------
(***************************************************************************)
(* Properties.                                                             *)
(***************************************************************************)

\* The values every variable takes between two handlers.
TypeOK ==
    /\ status \in Statuses
    /\ expectedCrc32 \in Crcs
    /\ totalChunks \in Totals
    /\ receivedChunks \in 0 .. ChunkModulus - 1
    /\ flash \in Flashes
    /\ reports \in Seq(Reports)
    /\ told \in Reports
    /\ session \in Sessions

\* Chunks in the order of their indices, none missing and none twice.
InOrder(chunks) ==
    \A i \in 1 .. Len(chunks) :
        chunks[i].index = IF i = 1 THEN 0 ELSE Succ(chunks[i - 1].index)

\* The index of the chunk that comes after them.
NextIndex(chunks) ==
    IF chunks = <<>> THEN 0 ELSE Succ(chunks[Len(chunks)].index)

\* Whatever handlers, failures and restarts came before, the flash writer is
\* called in the order begin, writeChunk*, finish, verify, activate: no handler
\* leaves the slot in a stage the next one does not expect.
WriterCallOrder == flash.stage # "misused"

\* An image the device boots is the image of one session: the size, the CRC32
\* and the chunk count are those of the same OtaBegin, its size was acceptable,
\* and its chunks are numbered in order from 0 up to that count.
InstalledImageSound ==
    \A image \in flash.active :
        /\ SizeAccepted(image.begun.size)
        /\ image.size = image.begun.size
        /\ image.crc = image.begun.crc
        /\ InOrder(image.chunks)
        /\ NextIndex(image.chunks) = image.begun.total

\* A manager that is Rebooting has made the image of its own last session the
\* one to boot: activate has returned true and nothing replaced it since.
RebootingIsInstalled ==
    status = "Rebooting" =>
        /\ flash.stage = "activated"
        /\ \E image \in flash.active : image.begun = session

\* The last report the host got is the truth: it names the manager's status,
\* or is the Error that ended the session when the manager is Idle.
HostInformed ==
    ProgressConnected =>
        IF status = "Idle" THEN told.status \in {"Idle", "Error"}
                           ELSE told.status = status

\* Every chunk count the host was due to hear about during the transfer, a
\* multiple of the report interval or the announced total, it has heard about.
ProgressDue ==
    ProgressConnected /\ status = "Receiving" =>
        /\ told.received <= receivedChunks /\ told.total = totalChunks
        /\ \A n \in told.received + 1 .. receivedChunks :
               ~ ReportDue(n) /\ n # totalChunks

\* Which status may follow which in the reports a host receives.
Follows(before, after) ==
    after \in CASE before = "Idle"       -> {"Preparing", "Error"}
                [] before = "Preparing"  -> {"Receiving", "Error"}
                [] before = "Receiving"  -> {"Receiving", "Verifying", "Error", "Preparing"}
                [] before = "Verifying"  -> {"Applying", "Error"}
                [] before = "Applying"   -> {"Rebooting"}
                [] before = "Rebooting"  -> {"Error", "Preparing"}
                [] before = "Error"      -> {"Error", "Preparing"}

\* The reports of a handler carry on from the last one of the handlers before
\* it: the host sees a path of the update's life cycle, without a gap.
HostSeesLegalPath ==
    [][ \A i \in 1 .. Len(reports') :
            Follows(IF i = 1 THEN told.status ELSE reports'[i - 1].status,
                    reports'[i].status) ]_vars

\* The slot is in the stage the status stands for; Preparing, Verifying,
\* Applying and Error are only passed through inside a handler.
StageMatchesStatus ==
    /\ status \in {"Idle", "Receiving", "Rebooting"}
    /\ status = "Idle" => flash.stage = "closed"
    /\ status = "Receiving" => flash.stage = "open"

\* What a transfer has collected belongs to the OtaBegin accepted last, and to
\* no earlier one: the announced values, the chunks, and their count.
SessionUnmixed ==
    status = "Receiving" =>
        /\ SizeAccepted(session.size)
        /\ flash.size = session.size
        /\ expectedCrc32 = session.crc
        /\ totalChunks = session.total
        /\ InOrder(flash.chunks)
        /\ NextIndex(flash.chunks) = receivedChunks

\* The inductive invariant behind the safety properties.
IInv ==
    /\ TypeOK
    /\ StageMatchesStatus
    /\ SessionUnmixed
    /\ WriterCallOrder
    /\ InstalledImageSound
    /\ RebootingIsInstalled
    /\ HostInformed

\* An image the device boots has exactly the announced number of chunks.
InstalledCountExact ==
    \A image \in flash.active : Len(image.chunks) = image.begun.total

-----------------------------------------------------------------------------
\* The update as FirmwareUpdate sees it.
Update == INSTANCE FirmwareUpdate WITH
    Updates   <- Sessions,
    Successor <- Succ,
    phase     <- CASE status = "Idle"      -> "none"
                   [] status = "Receiving" -> "receiving"
                   [] OTHER                -> "installed",
    announced <- IF status = "Idle" THEN {} ELSE {session},
    accepted  <- IF status = "Idle" THEN 0 ELSE receivedChunks,
    installed <- {image.begun : image \in flash.active}

\* Every behaviour of the manager is one FirmwareUpdate allows: nothing but a
\* complete session of its own changes what is installed.
ImplementsFirmwareUpdate == Update!Spec

-----------------------------------------------------------------------------
(***************************************************************************)
(* What the repository's tests say of the manager, where the code does     *)
(* otherwise.                                                              *)
(***************************************************************************)

\* tests/ota_manager_tests.cpp:238, "OtaManager rejects OtaBegin when not
\* idle": an OtaBegin that arrives while a session is under way is answered
\* with an Error report.
RejectsBeginWhenNotIdle ==
    [][ \A size \in Sizes, crc \in Crcs, total \in Totals, eraseOk \in BOOLEAN :
            status = "Receiving" /\ HandleBegin(size, crc, total, eraseOk) =>
                \E i \in 1 .. Len(reports') : reports'[i].status = "Error" ]_vars

\* tests/ota_manager_tests.cpp:299, "OtaManager rejects OtaData when not
\* receiving": a chunk that arrives outside a transfer leaves the status as it
\* was and is not reported.
RejectsDataWhenNotReceiving ==
    [][ status # "Receiving" /\ HandleEmptyDataMessage =>
            status' = status /\ reports' = <<>> ]_vars
=============================================================================
