-------------------------- MODULE OtaManagerProofs --------------------------
(***************************************************************************)
(* What is proved of OtaManager, for all sizes, CRC32 values, chunk        *)
(* counts, payloads, counter widths, report intervals and slot sizes: the  *)
(* invariants, the refinement, and then what depends on the steps of a     *)
(* transfer one by one, the number of its chunks and the reports of its    *)
(* progress.                                                               *)
(***************************************************************************)
EXTENDS OtaManager, TLAPS

-----------------------------------------------------------------------------
(***************************************************************************)
(* What the flash writer's calls do to a flash.                            *)
(***************************************************************************)

\* abort empties the slot and leaves the image to boot alone.
LEMMA AbortEffect ==
    ASSUME NEW f \in Flashes
    PROVE  /\ FlashAbort(f) \in Flashes
           /\ f.stage # "misused" => FlashAbort(f).stage = "closed"
           /\ FlashAbort(f).active = f.active
  <1>1. <<>> \in Seq(Chunks)
    OBVIOUS
  <1>2. 0 \in Crcs
    BY OtaAssumption
  <1> QED BY <1>1, <1>2 DEF FlashAbort, Flashes, Stages

\* begin on a closed slot opens it, empty and of the given size, or leaves it
\* closed.
LEMMA BeginEffect ==
    ASSUME NEW f \in Flashes, f.stage = "closed", NEW size \in Sizes, NEW ok \in BOOLEAN
    PROVE  /\ FlashBegin(f, size, ok) \in Flashes
           /\ FlashBegin(f, size, ok).stage = IF ok THEN "open" ELSE "closed"
           /\ FlashBegin(f, size, ok).size = size
           /\ FlashBegin(f, size, ok).chunks = <<>>
           /\ FlashBegin(f, size, ok).active = f.active
  <1>1. <<>> \in Seq(Chunks)
    OBVIOUS
  <1> QED BY <1>1 DEF FlashBegin, Flashes, Stages, After

\* writeChunk on an open slot appends the chunk when it succeeds.
LEMMA WriteChunkEffect ==
    ASSUME NEW f \in Flashes, f.stage = "open", NEW chunk \in Chunks
    PROVE  /\ FlashWriteChunk(f, chunk, TRUE) \in Flashes
           /\ FlashWriteChunk(f, chunk, TRUE).stage = "open"
           /\ FlashWriteChunk(f, chunk, TRUE).size = f.size
           /\ FlashWriteChunk(f, chunk, TRUE).chunks = Append(f.chunks, chunk)
           /\ FlashWriteChunk(f, chunk, TRUE).active = f.active
  <1>1. f.chunks \in Seq(Chunks)
    BY DEF Flashes
  <1>2. Append(f.chunks, chunk) \in Seq(Chunks)
    BY <1>1
  <1> QED BY <1>2 DEF FlashWriteChunk, Flashes, After

\* A call that fails, at the stage it belongs to, is no misuse and leaves the
\* image to boot alone.
LEMMA FailedWriteChunkEffect ==
    ASSUME NEW f \in Flashes, f.stage = "open", NEW chunk
    PROVE  /\ FlashWriteChunk(f, chunk, FALSE) \in Flashes
           /\ FlashWriteChunk(f, chunk, FALSE).stage # "misused"
           /\ FlashWriteChunk(f, chunk, FALSE).active = f.active
  BY DEF FlashWriteChunk, Flashes, After

\* finish on an open slot.
LEMMA FinishEffect ==
    ASSUME NEW f \in Flashes, f.stage = "open", NEW ok \in BOOLEAN
    PROVE  /\ FlashFinish(f, ok) \in Flashes
           /\ FlashFinish(f, ok).stage = IF ok THEN "finished" ELSE "open"
           /\ FlashFinish(f, ok).size = f.size
           /\ FlashFinish(f, ok).chunks = f.chunks
           /\ FlashFinish(f, ok).active = f.active
  BY DEF FlashFinish, Flashes, Stages, After

\* verify on a finished slot.
LEMMA VerifyEffect ==
    ASSUME NEW f \in Flashes, f.stage = "finished", NEW crc \in Crcs, NEW ok \in BOOLEAN
    PROVE  /\ FlashVerify(f, crc, ok) \in Flashes
           /\ FlashVerify(f, crc, ok).stage = IF ok THEN "verified" ELSE "finished"
           /\ FlashVerify(f, crc, ok).size = f.size
           /\ FlashVerify(f, crc, ok).crc = crc
           /\ FlashVerify(f, crc, ok).chunks = f.chunks
           /\ FlashVerify(f, crc, ok).active = f.active
  BY DEF FlashVerify, Flashes, Stages, After

\* activate, when it fails.
LEMMA FailedActivateEffect ==
    ASSUME NEW f \in Flashes, f.stage = "verified", NEW begun
    PROVE  /\ FlashActivate(f, begun, FALSE) \in Flashes
           /\ FlashActivate(f, begun, FALSE).stage = "verified"
           /\ FlashActivate(f, begun, FALSE).active = f.active
  BY DEF FlashActivate, Flashes, Stages, After

\* activate, when it succeeds: the staged image is the one to boot.
LEMMA ActivateEffect ==
    ASSUME NEW f \in Flashes, f.stage = "verified", NEW begun \in Sessions
    PROVE  /\ FlashActivate(f, begun, TRUE) \in Flashes
           /\ FlashActivate(f, begun, TRUE).stage = "activated"
           /\ FlashActivate(f, begun, TRUE).active =
                 {[size |-> f.size, crc |-> f.crc, chunks |-> f.chunks, begun |-> begun]}
  <1>1. [size |-> f.size, crc |-> f.crc, chunks |-> f.chunks, begun |-> begun] \in Images
    BY DEF Flashes, Images
  <1>2. {[size |-> f.size, crc |-> f.crc, chunks |-> f.chunks, begun |-> begun]}
            \in SUBSET Images
    BY <1>1
  <1> QED BY <1>2 DEF FlashActivate, Flashes, Stages, After

-----------------------------------------------------------------------------
(***************************************************************************)
(* The steps the handlers share.                                           *)
(***************************************************************************)

\* sendProgress_ called for the reports of rs: the host's last report is the
\* last of them, if there is one and there is someone to send it.
LEMMA EmitEffect ==
    ASSUME TypeOK, NEW rs \in Seq(Reports), Emit(rs)
    PROVE  /\ reports' \in Seq(Reports)
           /\ told' \in Reports
           /\ ProgressConnected /\ rs # <<>> => told' = rs[Len(rs)]
           /\ ~ (ProgressConnected /\ rs # <<>>) => told' = told
  <1>1. reports' \in Seq(Reports)
    BY DEF Emit
  <1>2. CASE ProgressConnected /\ rs # <<>>
    <2>1. told' = rs[Len(rs)]
      BY <1>2 DEF Emit
    <2>2. rs[Len(rs)] \in Reports
      BY <1>2
    <2> QED BY <1>1, <1>2, <2>1, <2>2
  <1>3. CASE ~ (ProgressConnected /\ rs # <<>>)
    BY <1>1, <1>3 DEF Emit, TypeOK
  <1> QED BY <1>2, <1>3

\* A report of a known status is well-typed.
LEMMA ReportType ==
    ASSUME NEW s \in Statuses, NEW received \in 0 .. ChunkModulus - 1, NEW total \in Totals
    PROVE  /\ Report(s, received, total) \in Reports
           /\ Report(s, received, total).status = s
  BY DEF Report, Reports

\* The type of the values a manager starts and restarts with.
LEMMA ZeroType ==
    /\ 0 \in 0 .. ChunkModulus - 1 /\ 0 \in Totals /\ 0 \in Crcs
    /\ NothingTold \in Reports
    /\ NothingTold.status = "Idle"
    /\ <<>> \in Seq(Reports)
    /\ <<>> \in Seq(Chunks)
  <1>1. 0 \in 0 .. ChunkModulus - 1 /\ 0 \in Totals /\ 0 \in Crcs
    BY OtaAssumption
  <1>2. NothingTold \in Reports /\ NothingTold.status = "Idle"
    BY <1>1, ReportType DEF NothingTold, Statuses
  <1> QED BY <1>1, <1>2

\* Giving up keeps the invariant, whatever was written and reported before.
LEMMA FailStep ==
    ASSUME IInv, NEW f \in Flashes, f.stage # "misused", f.active = flash.active,
           NEW sent \in Seq(Reports), Fail(f, sent)
    PROVE  IInv'
  <1> DEFINE last == Report("Error", receivedChunks, totalChunks)
  <1>1. last \in Reports /\ last.status = "Error"
    BY ReportType DEF IInv, TypeOK, Statuses
  <1>2. /\ flash' \in Flashes /\ flash'.stage = "closed"
        /\ flash'.active = flash.active
    BY AbortEffect DEF Fail
  <1>3. /\ Append(sent, last) \in Seq(Reports)
        /\ Append(sent, last) # <<>>
        /\ Append(sent, last)[Len(Append(sent, last))] = last
    BY <1>1
  <1>4. Emit(Append(sent, last)) /\ status' = "Idle"
    BY DEF Fail
  <1>5. /\ reports' \in Seq(Reports) /\ told' \in Reports
        /\ ProgressConnected => told'.status = "Error"
    BY <1>1, <1>3, <1>4, EmitEffect DEF IInv
  <1>6. TypeOK'
    BY <1>2, <1>4, <1>5 DEF IInv, TypeOK, Fail, manager, Statuses
  <1>7. (StageMatchesStatus /\ SessionUnmixed /\ WriterCallOrder /\ RebootingIsInstalled)'
    BY <1>2, <1>4 DEF StageMatchesStatus, SessionUnmixed, WriterCallOrder, RebootingIsInstalled
  <1>8. InstalledImageSound'
    BY <1>2 DEF IInv, InstalledImageSound, SizeAccepted
  <1>9. HostInformed'
    BY <1>4, <1>5 DEF HostInformed
  <1> QED BY <1>6, <1>7, <1>8, <1>9 DEF IInv

\* A message that is ignored.
LEMMA IgnoreStep ==
    ASSUME IInv, Ignore
    PROVE  IInv'
  <1>1. reports' \in Seq(Reports) /\ told' = told
    BY ZeroType, EmitEffect DEF Ignore, IInv
  <1>2. UNCHANGED <<status, expectedCrc32, totalChunks, receivedChunks, flash, session>>
    BY DEF Ignore, manager
  <1> QED
    BY <1>1, <1>2 DEF IInv, TypeOK, StageMatchesStatus, SessionUnmixed, WriterCallOrder,
       InstalledImageSound, RebootingIsInstalled, HostInformed

-----------------------------------------------------------------------------
(***************************************************************************)
(* One lemma per handler.                                                  *)
(***************************************************************************)

\* The flash handleBegin goes on with once the old session is dropped.
LEMMA ClearedEffect ==
    ASSUME IInv
    PROVE  /\ ClearedFlash \in Flashes
           /\ ClearedFlash.stage = "closed"
           /\ ClearedFlash.active = flash.active
           /\ ClearedCount(receivedChunks) \in 0 .. ChunkModulus - 1
           /\ ClearedCount(totalChunks) \in Totals
  <1>1. flash \in Flashes /\ flash.stage # "misused"
    BY DEF IInv, TypeOK, WriterCallOrder
  <1>2. /\ ClearedFlash \in Flashes /\ ClearedFlash.stage = "closed"
        /\ ClearedFlash.active = flash.active
    BY <1>1, AbortEffect DEF IInv, StageMatchesStatus, ClearedFlash
  <1>3. /\ ClearedCount(receivedChunks) \in 0 .. ChunkModulus - 1
        /\ ClearedCount(totalChunks) \in Totals
    BY ZeroType DEF IInv, TypeOK, ClearedCount
  <1> QED BY <1>2, <1>3

\* A refused OtaBegin.
LEMMA RefuseBeginStep ==
    ASSUME IInv, NEW size \in Sizes, RefuseBegin(size)
    PROVE  IInv'
  <1> DEFINE last == Report("Error", ClearedCount(receivedChunks), ClearedCount(totalChunks))
  <1>1. last \in Reports /\ last.status = "Error"
    BY ReportType, ClearedEffect DEF Statuses
  <1>2. <<last>> \in Seq(Reports) /\ <<last>> # <<>> /\ <<last>>[Len(<<last>>)] = last
    BY <1>1
  <1>3. Emit(<<last>>) /\ status' = "Idle" /\ flash' = ClearedFlash
    BY DEF RefuseBegin
  <1>4. /\ reports' \in Seq(Reports) /\ told' \in Reports
        /\ ProgressConnected => told'.status = "Error"
    <2> HIDE DEF last
    <2> QED BY <1>1, <1>2, <1>3, EmitEffect DEF IInv
  <1>5. /\ flash' \in Flashes /\ flash'.stage = "closed" /\ flash'.active = flash.active
    BY <1>3, ClearedEffect
  <1>6. TypeOK'
    BY <1>3, <1>4, <1>5, ClearedEffect DEF IInv, TypeOK, RefuseBegin, Statuses
  <1>7. (StageMatchesStatus /\ SessionUnmixed /\ WriterCallOrder /\ RebootingIsInstalled)'
    BY <1>3, <1>5 DEF StageMatchesStatus, SessionUnmixed, WriterCallOrder, RebootingIsInstalled
  <1>8. InstalledImageSound'
    BY <1>5 DEF IInv, InstalledImageSound, SizeAccepted
  <1>9. HostInformed'
    BY <1>3, <1>4 DEF HostInformed
  <1> QED BY <1>6, <1>7, <1>8, <1>9 DEF IInv

\* An accepted OtaBegin: the transfer starts empty, or the erase fails.
LEMMA AcceptBeginStep ==
    ASSUME IInv, NEW size \in Sizes, NEW crc \in Crcs, NEW total \in Totals,
           NEW eraseOk \in BOOLEAN, AcceptBegin(size, crc, total, eraseOk)
    PROVE  IInv'
  <1> DEFINE end == IF eraseOk THEN "Receiving" ELSE "Error"
             sent == <<Report("Preparing", 0, total), Report(end, 0, total)>>
             begun == FlashBegin(ClearedFlash, size, eraseOk)
  <1>1. /\ Report("Preparing", 0, total) \in Reports
        /\ Report(end, 0, total) \in Reports
        /\ Report(end, 0, total).status = end
    BY ReportType, ZeroType DEF Statuses
  <1>2. /\ sent \in Seq(Reports) /\ sent # <<>>
        /\ sent[Len(sent)] = Report(end, 0, total)
    BY <1>1
  <1>3. Emit(sent) /\ status' = IF eraseOk THEN "Receiving" ELSE "Idle"
    BY DEF AcceptBegin
  <1>4. /\ reports' \in Seq(Reports) /\ told' \in Reports
        /\ ProgressConnected => told'.status = end
    <2> HIDE DEF sent, end
    <2> QED BY <1>1, <1>2, <1>3, EmitEffect DEF IInv
  <1>5. /\ begun \in Flashes /\ begun.active = flash.active
        /\ begun.stage = IF eraseOk THEN "open" ELSE "closed"
        /\ begun.size = size /\ begun.chunks = <<>>
    <2>1. ClearedFlash \in Flashes /\ ClearedFlash.stage = "closed"
      BY ClearedEffect
    <2> QED BY <2>1, ClearedEffect, BeginEffect
  <1>6. /\ flash' \in Flashes /\ flash'.active = flash.active
        /\ flash'.stage = IF eraseOk THEN "open" ELSE "closed"
        /\ eraseOk => flash'.size = size /\ flash'.chunks = <<>>
    <2>1. CASE eraseOk
      BY <1>5, <2>1 DEF AcceptBegin
    <2>2. CASE ~ eraseOk
      <3>1. flash' = FlashAbort(begun)
        BY <2>2 DEF AcceptBegin
      <3> HIDE DEF begun
      <3> QED BY <1>5, <2>2, <3>1, AbortEffect
    <2> QED BY <2>1, <2>2
  <1>7. /\ expectedCrc32' = crc /\ totalChunks' = total /\ receivedChunks' = 0
        /\ session' = [size |-> size, crc |-> crc, total |-> total]
        /\ SizeAccepted(size)
    BY DEF AcceptBegin
  <1>8. session' \in Sessions
    BY <1>7 DEF Sessions
  <1>9. TypeOK'
    BY <1>3, <1>4, <1>6, <1>7, <1>8, ZeroType DEF TypeOK, Statuses
  <1>10. (StageMatchesStatus /\ WriterCallOrder /\ RebootingIsInstalled)'
    BY <1>3, <1>6 DEF StageMatchesStatus, WriterCallOrder, RebootingIsInstalled
  <1>11. SessionUnmixed'
    BY <1>3, <1>6, <1>7 DEF SessionUnmixed, SizeAccepted, InOrder, NextIndex
  <1>12. InstalledImageSound'
    BY <1>6 DEF IInv, InstalledImageSound, SizeAccepted
  <1>13. HostInformed'
    BY <1>3, <1>4 DEF HostInformed
  <1> QED BY <1>9, <1>10, <1>11, <1>12, <1>13 DEF IInv

\* Appending the expected chunk keeps the chunks in order.
LEMMA AppendInOrder ==
    ASSUME NEW chunks \in Seq(Chunks), NEW chunk \in Chunks,
           InOrder(chunks), chunk.index = NextIndex(chunks)
    PROVE  /\ InOrder(Append(chunks, chunk))
           /\ NextIndex(Append(chunks, chunk)) = Succ(chunk.index)
  <1> DEFINE longer == Append(chunks, chunk)
  <1>1. /\ longer \in Seq(Chunks) /\ Len(longer) = Len(chunks) + 1
        /\ longer[Len(chunks) + 1] = chunk
        /\ \A i \in 1 .. Len(chunks) : longer[i] = chunks[i]
        /\ Len(chunks) \in Nat
        /\ longer # <<>>
    OBVIOUS
  <1>2. ASSUME NEW i \in 1 .. Len(longer)
        PROVE  longer[i].index = IF i = 1 THEN 0 ELSE Succ(longer[i - 1].index)
    <2> HIDE DEF longer
    <2>1. CASE i = Len(chunks) + 1
      <3>1. CASE chunks = <<>>
        BY <1>1, <2>1, <3>1 DEF NextIndex
      <3>2. CASE chunks # <<>>
        <4>1. i # 1 /\ i - 1 = Len(chunks) /\ Len(chunks) \in 1 .. Len(chunks)
          BY <1>1, <2>1, <3>2
        <4> QED BY <1>1, <2>1, <3>2, <4>1 DEF NextIndex
      <3> QED BY <3>1, <3>2
    <2>2. CASE i \in 1 .. Len(chunks)
      <3>1. i # 1 => i - 1 \in 1 .. Len(chunks)
        BY <1>1, <2>2
      <3> QED BY <1>1, <2>2, <3>1 DEF InOrder
    <2> QED BY <1>1, <2>1, <2>2
  <1>3. NextIndex(longer) = Succ(chunk.index)
    <2> HIDE DEF longer
    <2> QED BY <1>1 DEF NextIndex
  <1> QED BY <1>2, <1>3 DEF InOrder

\* A chunk is stored.
LEMMA StoreChunkStep ==
    ASSUME IInv, status = "Receiving",
           NEW chunk \in Chunks, chunk.index = receivedChunks, StoreChunk(chunk)
    PROVE  IInv'
  <1> DEFINE report == Report(status, receivedChunks', totalChunks)
             sent   == IF Reported(receivedChunks') THEN <<report>> ELSE <<>>
  <1>1. receivedChunks' \in 0 .. ChunkModulus - 1
    BY OtaAssumption DEF IInv, TypeOK, StoreChunk, Succ
  <1>2. report \in Reports /\ report.status = "Receiving"
    BY <1>1, ReportType DEF IInv, TypeOK, Statuses
  <1>3. /\ sent \in Seq(Reports)
        /\ sent # <<>> => sent[Len(sent)] = report
    BY <1>2
  <1>4. Emit(sent)
    BY DEF StoreChunk
  <1>5. /\ reports' \in Seq(Reports) /\ told' \in Reports
        /\ ProgressConnected => told'.status = "Receiving"
    <2> HIDE DEF sent, report
    <2> QED BY <1>2, <1>3, <1>4, EmitEffect DEF IInv, HostInformed
  <1>6. /\ flash' \in Flashes /\ flash'.stage = "open" /\ flash'.active = flash.active
        /\ flash'.size = flash.size /\ flash'.chunks = Append(flash.chunks, chunk)
    BY WriteChunkEffect DEF IInv, TypeOK, StageMatchesStatus, StoreChunk
  <1>7. /\ receivedChunks' = Succ(receivedChunks)
        /\ UNCHANGED <<status, expectedCrc32, totalChunks, session>>
    BY DEF StoreChunk
  <1>8. TypeOK'
    BY <1>1, <1>5, <1>6, <1>7 DEF IInv, TypeOK
  <1>9. (StageMatchesStatus /\ WriterCallOrder /\ RebootingIsInstalled)'
    BY <1>6, <1>7 DEF StageMatchesStatus, WriterCallOrder, RebootingIsInstalled
  <1>10. SessionUnmixed'
    <2>1. flash.chunks \in Seq(Chunks) /\ InOrder(flash.chunks)
          /\ NextIndex(flash.chunks) = receivedChunks
      BY DEF IInv, TypeOK, Flashes, SessionUnmixed
    <2>2. InOrder(flash'.chunks) /\ NextIndex(flash'.chunks) = receivedChunks'
      BY <1>6, <1>7, <2>1, AppendInOrder
    <2>3. InOrder(flash.chunks)' /\ (NextIndex(flash.chunks) = receivedChunks)'
      BY <2>2 DEF InOrder, NextIndex
    <2> QED BY <1>6, <1>7, <2>3 DEF IInv, SessionUnmixed, SizeAccepted
  <1>11. InstalledImageSound'
    BY <1>6 DEF IInv, InstalledImageSound, SizeAccepted
  <1>12. HostInformed'
    BY <1>5, <1>7 DEF HostInformed
  <1> QED BY <1>8, <1>9, <1>10, <1>11, <1>12 DEF IInv

\* Whatever OtaData brings.
LEMMA HandleDataStep ==
    ASSUME IInv, NEW index \in 0 .. ChunkModulus - 1, NEW data \in Payloads \cup {NoData},
           NEW writeOk \in BOOLEAN, HandleData(index, data, writeOk)
    PROVE  IInv'
  <1> DEFINE chunk == [index |-> index, data |-> data]
  <1>1. flash \in Flashes /\ flash.stage # "misused" /\ <<>> \in Seq(Reports)
    BY ZeroType DEF IInv, TypeOK, WriterCallOrder
  <1>2. CASE Ignore
    BY <1>2, IgnoreStep
  <1>3. CASE Fail(flash, <<>>)
    BY <1>1, <1>3, FailStep
  <1>4. CASE status = "Receiving" /\ Fail(FlashWriteChunk(flash, chunk, FALSE), <<>>)
    <2>1. flash.stage = "open"
      BY <1>4 DEF IInv, StageMatchesStatus
    <2> HIDE DEF chunk
    <2> QED BY <1>1, <1>4, <2>1, FailedWriteChunkEffect, FailStep
  <1>5. CASE status = "Receiving" /\ Expected(index, data) /\ StoreChunk(chunk)
    <2>1. chunk \in Chunks /\ chunk.index = receivedChunks
      BY <1>5 DEF Expected, Chunks
    <2> HIDE DEF chunk
    <2> QED BY <1>5, <2>1, StoreChunkStep
  <1> QED BY <1>2, <1>3, <1>4, <1>5 DEF HandleData

\* Reports of the manager's own counters are reports.
LEMMA ProgressType ==
    ASSUME IInv
    PROVE  \A s \in Statuses : Progress(s) \in Reports /\ Progress(s).status = s
  BY ReportType DEF IInv, TypeOK, Progress

\* The flash on its way through finish and verify.
LEMMA VerifiedEffect ==
    ASSUME IInv, status = "Receiving"
    PROVE  /\ Finished \in Flashes /\ Finished.stage = "finished"
           /\ Finished.active = flash.active
           /\ Verified \in Flashes /\ Verified.stage = "verified"
           /\ Verified.active = flash.active
           /\ Verified.size = session.size /\ Verified.crc = session.crc
           /\ Verified.chunks = flash.chunks
  <1>1. /\ flash \in Flashes /\ flash.stage = "open" /\ expectedCrc32 \in Crcs
        /\ flash.size = session.size /\ expectedCrc32 = session.crc
    BY DEF IInv, TypeOK, StageMatchesStatus, SessionUnmixed
  <1>2. /\ Finished \in Flashes /\ Finished.stage = "finished"
        /\ Finished.active = flash.active /\ Finished.size = flash.size
        /\ Finished.chunks = flash.chunks
    BY <1>1, FinishEffect DEF Finished
  <1> QED BY <1>1, <1>2, VerifyEffect DEF Verified

\* The update is installed.
LEMMA ActivateStep ==
    ASSUME IInv, status = "Receiving", CountMatches, Activate
    PROVE  IInv'
  <1> DEFINE sent  == <<Progress("Verifying"), Progress("Applying"), Progress("Rebooting")>>
             image == [size |-> Verified.size, crc |-> Verified.crc,
                       chunks |-> Verified.chunks, begun |-> session]
  <1>1. /\ Progress("Verifying") \in Reports /\ Progress("Applying") \in Reports
        /\ Progress("Rebooting") \in Reports /\ Progress("Rebooting").status = "Rebooting"
    BY ProgressType DEF Statuses
  <1>2. /\ sent \in Seq(Reports) /\ sent # <<>>
        /\ sent[Len(sent)] = Progress("Rebooting")
    BY <1>1
  <1>3. Emit(sent) /\ status' = "Rebooting"
    BY DEF Activate
  <1>4. /\ reports' \in Seq(Reports) /\ told' \in Reports
        /\ ProgressConnected => told'.status = "Rebooting"
    <2> HIDE DEF sent
    <2> QED BY <1>1, <1>2, <1>3, EmitEffect DEF IInv
  <1>5. session \in Sessions
    BY DEF IInv, TypeOK
  <1>6. /\ flash' \in Flashes /\ flash'.stage = "activated" /\ flash'.active = {image}
    BY <1>5, VerifiedEffect, ActivateEffect DEF Activate
  <1>7. UNCHANGED <<expectedCrc32, totalChunks, receivedChunks, session>>
    BY DEF Activate, manager
  <1>8. TypeOK'
    BY <1>3, <1>4, <1>6, <1>7 DEF IInv, TypeOK, Statuses
  <1>9. (StageMatchesStatus /\ SessionUnmixed /\ WriterCallOrder)'
    BY <1>3, <1>6 DEF StageMatchesStatus, SessionUnmixed, WriterCallOrder
  <1>10. RebootingIsInstalled'
    BY <1>6, <1>7 DEF RebootingIsInstalled
  <1>11. InstalledImageSound'
    <2>1. /\ SizeAccepted(session.size) /\ totalChunks = session.total
          /\ InOrder(flash.chunks) /\ NextIndex(flash.chunks) = receivedChunks
      BY DEF IInv, SessionUnmixed
    <2>2. /\ image.begun = session /\ image.size = session.size /\ image.crc = session.crc
          /\ image.chunks = flash.chunks
      BY VerifiedEffect
    <2> HIDE DEF image
    <2>3. /\ SizeAccepted(image.begun.size) /\ image.size = image.begun.size
          /\ image.crc = image.begun.crc /\ InOrder(image.chunks)
          /\ NextIndex(image.chunks) = image.begun.total
      BY <2>1, <2>2 DEF CountMatches
    <2> QED BY <1>6, <2>3 DEF InstalledImageSound, SizeAccepted
  <1>12. HostInformed'
    BY <1>3, <1>4 DEF HostInformed
  <1> QED BY <1>8, <1>9, <1>10, <1>11, <1>12 DEF IInv

\* However OtaEnd ends.
LEMMA HandleEndStep ==
    ASSUME IInv, NEW finishOk \in BOOLEAN, NEW verifyOk \in BOOLEAN,
           NEW activateOk \in BOOLEAN, HandleEnd(finishOk, verifyOk, activateOk)
    PROVE  IInv'
  <1>1. /\ flash \in Flashes /\ flash.stage # "misused" /\ <<>> \in Seq(Reports)
        /\ expectedCrc32 \in Crcs /\ session \in Sessions
    BY ZeroType DEF IInv, TypeOK, WriterCallOrder
  <1>2. /\ <<Progress("Verifying")>> \in Seq(Reports)
        /\ <<Progress("Verifying"), Progress("Applying"), Progress("Rebooting")>>
              \in Seq(Reports)
    <2>1. /\ Progress("Verifying") \in Reports /\ Progress("Applying") \in Reports
          /\ Progress("Rebooting") \in Reports
      BY ProgressType DEF Statuses
    <2> QED BY <2>1
  <1>3. CASE Ignore
    BY <1>3, IgnoreStep
  <1>4. CASE Fail(flash, <<>>)
    BY <1>1, <1>4, FailStep
  <1>5. CASE status = "Receiving" /\ Fail(FlashFinish(flash, FALSE), <<>>)
    <2>1. /\ FlashFinish(flash, FALSE) \in Flashes
          /\ FlashFinish(flash, FALSE).stage = "open"
          /\ FlashFinish(flash, FALSE).active = flash.active
      BY <1>1, <1>5, FinishEffect DEF IInv, StageMatchesStatus
    <2> QED BY <1>1, <1>5, <2>1, FailStep
  <1>6. CASE /\ status = "Receiving"
             /\ Fail(FlashVerify(Finished, expectedCrc32, FALSE), <<Progress("Verifying")>>)
    <2>1. /\ FlashVerify(Finished, expectedCrc32, FALSE) \in Flashes
          /\ FlashVerify(Finished, expectedCrc32, FALSE).stage = "finished"
          /\ FlashVerify(Finished, expectedCrc32, FALSE).active = flash.active
      BY <1>1, <1>6, VerifiedEffect, VerifyEffect
    <2> QED BY <1>2, <1>6, <2>1, FailStep
  <1>7. CASE /\ status = "Receiving"
             /\ Fail(FlashActivate(Verified, session, FALSE),
                     <<Progress("Verifying"), Progress("Applying"), Progress("Rebooting")>>)
    <2>1. /\ FlashActivate(Verified, session, FALSE) \in Flashes
          /\ FlashActivate(Verified, session, FALSE).stage = "verified"
          /\ FlashActivate(Verified, session, FALSE).active = flash.active
      BY <1>7, VerifiedEffect, FailedActivateEffect
    <2> QED BY <1>2, <1>7, <2>1, FailStep
  <1>8. CASE status = "Receiving" /\ CountMatches /\ Activate
    BY <1>8, ActivateStep
  <1> QED BY <1>3, <1>4, <1>5, <1>6, <1>7, <1>8 DEF HandleEnd

\* handleAbort.
LEMMA HandleAbortStep ==
    ASSUME IInv, HandleAbort
    PROVE  IInv'
  <1>1. flash \in Flashes /\ flash.stage # "misused" /\ <<>> \in Seq(Reports)
    BY ZeroType DEF IInv, TypeOK, WriterCallOrder
  <1> QED BY <1>1, IgnoreStep, FailStep DEF HandleAbort

\* A restart.
LEMMA RestartStep ==
    ASSUME IInv, Restart
    PROVE  IInv'
  <1>1. flash' \in Flashes /\ flash'.stage = "closed" /\ flash'.active = flash.active
    BY AbortEffect DEF IInv, TypeOK, WriterCallOrder, Restart, FlashPowerLoss
  <1>2. TypeOK'
    BY <1>1, ZeroType DEF IInv, TypeOK, Restart, Statuses
  <1>3. (StageMatchesStatus /\ SessionUnmixed /\ WriterCallOrder /\ RebootingIsInstalled)'
    BY <1>1 DEF Restart, StageMatchesStatus, SessionUnmixed, WriterCallOrder,
       RebootingIsInstalled
  <1>4. InstalledImageSound'
    BY <1>1 DEF IInv, InstalledImageSound, SizeAccepted
  <1>5. HostInformed'
    BY ZeroType DEF Restart, HostInformed
  <1> QED BY <1>2, <1>3, <1>4, <1>5 DEF IInv

-----------------------------------------------------------------------------
(***************************************************************************)
(* The inductive invariant, and what follows from it.                      *)
(***************************************************************************)
LEMMA InitInv == Init => IInv
  <1> SUFFICES ASSUME Init PROVE IInv
    OBVIOUS
  <1>1. flash \in Flashes
    BY ZeroType DEF Init, FactoryFlash, Flashes, Stages
  <1>2. session \in Sessions
    BY ZeroType DEF Init, Sessions
  <1>3. TypeOK
    BY <1>1, <1>2, ZeroType DEF Init, TypeOK, Statuses
  <1> QED
    BY <1>3, ZeroType DEF Init, IInv, FactoryFlash, StageMatchesStatus, SessionUnmixed,
       WriterCallOrder, InstalledImageSound, RebootingIsInstalled, HostInformed

\* Every step preserves the inductive invariant.
LEMMA NextInv == IInv /\ [Next]_vars => IInv'
  <1> SUFFICES ASSUME IInv, [Next]_vars PROVE IInv'
    OBVIOUS
  <1>1. CASE UNCHANGED vars
    BY <1>1 DEF vars, manager, IInv, TypeOK, StageMatchesStatus, SessionUnmixed,
       WriterCallOrder, InstalledImageSound, RebootingIsInstalled, HostInformed
  <1>2. ASSUME NEW size \in Sizes, NEW crc \in Crcs, NEW total \in Totals,
               NEW eraseOk \in BOOLEAN, HandleBegin(size, crc, total, eraseOk)
        PROVE  IInv'
    BY <1>2, RefuseBeginStep, AcceptBeginStep DEF HandleBegin
  <1>3. CASE HandleEmptyDataMessage
    <2>1. flash \in Flashes /\ flash.stage # "misused" /\ <<>> \in Seq(Reports)
      BY ZeroType DEF IInv, TypeOK, WriterCallOrder
    <2> QED BY <1>3, <2>1, FailStep DEF HandleEmptyDataMessage
  <1>4. ASSUME NEW index \in 0 .. ChunkModulus - 1, NEW data \in Payloads \cup {NoData},
               NEW writeOk \in BOOLEAN, HandleData(index, data, writeOk)
        PROVE  IInv'
    BY <1>4, HandleDataStep
  <1>5. ASSUME NEW finishOk \in BOOLEAN, NEW verifyOk \in BOOLEAN,
               NEW activateOk \in BOOLEAN, HandleEnd(finishOk, verifyOk, activateOk)
        PROVE  IInv'
    BY <1>5, HandleEndStep
  <1>6. CASE HandleAbort
    BY <1>6, HandleAbortStep
  <1>7. CASE Restart
    BY <1>7, RestartStep
  <1> QED BY <1>1, <1>2, <1>3, <1>4, <1>5, <1>6, <1>7 DEF Next

\* IInv holds whatever messages, failures and restarts come.
THEOREM Inductive == Spec => []IInv
  BY InitInv, NextInv, PTL DEF Spec

\* Every variable of the manager and of the flash keeps its type.
THEOREM Typing == Spec => []TypeOK
  <1>1. IInv => TypeOK
    BY DEF IInv
  <1> QED BY <1>1, Inductive, PTL

\* No handler, after any history of messages, failures and restarts, calls the
\* flash writer out of order.
THEOREM WriterOrdered == Spec => []WriterCallOrder
  <1>1. IInv => WriterCallOrder
    BY DEF IInv
  <1> QED BY <1>1, Inductive, PTL

\* Only a complete image of one session is ever activated.
THEOREM InstallsSound == Spec => []InstalledImageSound
  <1>1. IInv => InstalledImageSound
    BY DEF IInv
  <1> QED BY <1>1, Inductive, PTL

\* A manager that is Rebooting has installed the image of its last session.
THEOREM RebootsInstalled == Spec => []RebootingIsInstalled
  <1>1. IInv => RebootingIsInstalled
    BY DEF IInv
  <1> QED BY <1>1, Inductive, PTL

\* The host's last report is never out of date.
THEOREM HostIsInformed == Spec => []HostInformed
  <1>1. IInv => HostInformed
    BY DEF IInv
  <1> QED BY <1>1, Inductive, PTL

-----------------------------------------------------------------------------
(***************************************************************************)
(* The kinds of step.  A handler's step ends the session, changes nothing, *)
(* starts a session, stores a chunk or installs an image.                  *)
(***************************************************************************)

\* The session, if there was one, is over.
GivesUp == status' = "Idle" /\ flash'.active = flash.active

\* Nothing changes but the reports of the last handler, of which there are none.
Rests ==
    /\ UNCHANGED <<status, totalChunks, receivedChunks, flash, told, session>>
    /\ reports' = reports \/ reports' = <<>>

\* A session is accepted and its transfer starts.
Starts ==
    /\ status' = "Receiving"
    /\ flash'.active = flash.active
    /\ flash'.chunks = <<>>
    /\ receivedChunks' = 0
    /\ ProgressConnected => told' = Report("Receiving", 0, totalChunks')

Stores ==
    /\ status = "Receiving"
    /\ flash'.active = flash.active
    /\ \E chunk \in Chunks :
          StoreChunk(chunk) /\ flash'.chunks = Append(flash.chunks, chunk)

Installs ==
    /\ status = "Receiving" /\ CountMatches /\ Activate
    /\ \E image \in Images :
          /\ flash'.active = {image}
          /\ image.chunks = flash.chunks /\ image.begun = session

\* Fail gives up.
LEMMA FailGivesUp ==
    ASSUME IInv, NEW f, f \in Flashes, f.active = flash.active, NEW sent, Fail(f, sent)
    PROVE  GivesUp
  BY AbortEffect DEF Fail, GivesUp

\* Ignore changes nothing the host or the flash could tell.
LEMMA IgnoreRests ==
    ASSUME IInv, Ignore
    PROVE  Rests
  <1>1. reports' = <<>> /\ told' = told
    BY ZeroType, EmitEffect DEF Ignore, Emit, IInv
  <1> QED BY <1>1 DEF Ignore, manager, Rests

\* handleBegin gives up or starts a session.
LEMMA BeginKind ==
    ASSUME IInv, NEW size \in Sizes, NEW crc \in Crcs, NEW total \in Totals,
           NEW eraseOk \in BOOLEAN, HandleBegin(size, crc, total, eraseOk)
    PROVE  GivesUp \/ Starts
  <1> DEFINE begun == FlashBegin(ClearedFlash, size, eraseOk)
  <1>1. /\ begun \in Flashes /\ begun.active = flash.active /\ begun.chunks = <<>>
        /\ ClearedFlash.active = flash.active
    BY ClearedEffect, BeginEffect
  <1>2. CASE RefuseBegin(size)
    BY <1>1, <1>2 DEF RefuseBegin, GivesUp
  <1>3. CASE AcceptBegin(size, crc, total, eraseOk) /\ eraseOk
    <2> DEFINE sent == <<Report("Preparing", 0, total), Report("Receiving", 0, total)>>
    <2>1. /\ status' = "Receiving" /\ receivedChunks' = 0 /\ totalChunks' = total
          /\ flash' = begun /\ Emit(sent)
      BY <1>3 DEF AcceptBegin
    <2>2. /\ Report("Preparing", 0, total) \in Reports
          /\ Report("Receiving", 0, total) \in Reports
      BY ReportType, ZeroType DEF Statuses
    <2>3. /\ sent \in Seq(Reports) /\ sent # <<>>
          /\ sent[Len(sent)] = Report("Receiving", 0, total)
      BY <2>2
    <2>4. ProgressConnected => told' = Report("Receiving", 0, total)
      <3> HIDE DEF sent
      <3> QED BY <2>1, <2>3, EmitEffect DEF IInv
    <2> QED BY <1>1, <2>1, <2>4 DEF Starts
  <1>4. CASE AcceptBegin(size, crc, total, eraseOk) /\ ~ eraseOk
    <2>1. status' = "Idle" /\ flash' = FlashAbort(begun)
      BY <1>4 DEF AcceptBegin
    <2> HIDE DEF begun
    <2> QED BY <1>1, <2>1, AbortEffect DEF GivesUp
  <1> QED BY <1>2, <1>3, <1>4 DEF HandleBegin

\* handleData on (index, data) gives up, rests or stores a chunk.
LEMMA DataKind ==
    ASSUME IInv, NEW index \in 0 .. ChunkModulus - 1, NEW data \in Payloads \cup {NoData},
           NEW writeOk \in BOOLEAN, HandleData(index, data, writeOk)
    PROVE  GivesUp \/ Rests \/ Stores
  <1> DEFINE chunk == [index |-> index, data |-> data]
  <1>1. flash \in Flashes
    BY DEF IInv, TypeOK
  <1>2. CASE Ignore
    BY <1>2, IgnoreRests
  <1>3. CASE Fail(flash, <<>>)
    BY <1>1, <1>3, FailGivesUp
  <1>4. CASE status = "Receiving" /\ Fail(FlashWriteChunk(flash, chunk, FALSE), <<>>)
    <2>1. flash.stage = "open"
      BY <1>4 DEF IInv, StageMatchesStatus
    <2> HIDE DEF chunk
    <2> QED BY <1>1, <1>4, <2>1, FailedWriteChunkEffect, FailGivesUp
  <1>5. CASE status = "Receiving" /\ Expected(index, data) /\ StoreChunk(chunk)
    <2>1. chunk \in Chunks /\ flash.stage = "open"
      BY <1>5 DEF Expected, Chunks, IInv, StageMatchesStatus
    <2> HIDE DEF chunk
    <2>2. flash'.active = flash.active /\ flash'.chunks = Append(flash.chunks, chunk)
      BY <1>1, <1>5, <2>1, WriteChunkEffect DEF StoreChunk
    <2> QED BY <1>5, <2>1, <2>2 DEF Stores
  <1> QED BY <1>2, <1>3, <1>4, <1>5 DEF HandleData

\* handleEnd gives up, rests or installs.
LEMMA EndKind ==
    ASSUME IInv, NEW finishOk \in BOOLEAN, NEW verifyOk \in BOOLEAN,
           NEW activateOk \in BOOLEAN, HandleEnd(finishOk, verifyOk, activateOk)
    PROVE  GivesUp \/ Rests \/ Installs
  <1>1. /\ flash \in Flashes /\ expectedCrc32 \in Crcs /\ session \in Sessions
        /\ status = "Receiving" => flash.stage = "open"
    BY DEF IInv, TypeOK, StageMatchesStatus
  <1>2. CASE Ignore
    BY <1>2, IgnoreRests
  <1>3. ASSUME NEW sent,
               \/ Fail(flash, sent)
               \/ status = "Receiving" /\ Fail(FlashFinish(flash, FALSE), sent)
               \/ status = "Receiving" /\ Fail(FlashVerify(Finished, expectedCrc32, FALSE), sent)
               \/ status = "Receiving" /\ Fail(FlashActivate(Verified, session, FALSE), sent)
        PROVE  GivesUp
    <2>1. status = "Receiving" =>
              /\ FlashFinish(flash, FALSE) \in Flashes
              /\ FlashFinish(flash, FALSE).active = flash.active
              /\ FlashVerify(Finished, expectedCrc32, FALSE) \in Flashes
              /\ FlashVerify(Finished, expectedCrc32, FALSE).active = flash.active
              /\ FlashActivate(Verified, session, FALSE) \in Flashes
              /\ FlashActivate(Verified, session, FALSE).active = flash.active
      <3> SUFFICES ASSUME status = "Receiving"
                   PROVE  /\ FlashFinish(flash, FALSE) \in Flashes
                          /\ FlashFinish(flash, FALSE).active = flash.active
                          /\ FlashVerify(Finished, expectedCrc32, FALSE) \in Flashes
                          /\ FlashVerify(Finished, expectedCrc32, FALSE).active = flash.active
                          /\ FlashActivate(Verified, session, FALSE) \in Flashes
                          /\ FlashActivate(Verified, session, FALSE).active = flash.active
        OBVIOUS
      <3>1. /\ FlashFinish(flash, FALSE) \in Flashes
            /\ FlashFinish(flash, FALSE).active = flash.active
        BY <1>1, FinishEffect
      <3>2. /\ FlashVerify(Finished, expectedCrc32, FALSE) \in Flashes
            /\ FlashVerify(Finished, expectedCrc32, FALSE).active = flash.active
        BY <1>1, VerifiedEffect, VerifyEffect
      <3>3. /\ FlashActivate(Verified, session, FALSE) \in Flashes
            /\ FlashActivate(Verified, session, FALSE).active = flash.active
        BY VerifiedEffect, FailedActivateEffect
      <3> QED BY <3>1, <3>2, <3>3
    <2> QED BY <1>1, <1>3, <2>1, FailGivesUp
  <1>4. CASE status = "Receiving" /\ CountMatches /\ Activate
    <2> DEFINE image == [size |-> Verified.size, crc |-> Verified.crc,
                         chunks |-> Verified.chunks, begun |-> session]
    <2>1. flash'.active = {image} /\ flash' \in Flashes
      BY <1>1, <1>4, VerifiedEffect, ActivateEffect DEF Activate
    <2>2. image.begun = session /\ image.chunks = flash.chunks
      BY <1>4, VerifiedEffect
    <2>3. image \in Images
      BY <1>1, <1>4, VerifiedEffect DEF Images, Flashes
    <2> HIDE DEF image
    <2> QED BY <1>4, <2>1, <2>2, <2>3 DEF Installs
  <1> QED BY <1>2, <1>3, <1>4 DEF HandleEnd

\* Every step of the manager is of one of the five kinds.
LEMMA StepKinds ==
    ASSUME IInv, [Next]_vars
    PROVE  GivesUp \/ Rests \/ Starts \/ Stores \/ Installs
  <1>1. flash \in Flashes
    BY DEF IInv, TypeOK
  <1>2. CASE UNCHANGED vars
    BY <1>2 DEF vars, manager, Rests
  <1>3. CASE HandleEmptyDataMessage
    BY <1>1, <1>3, FailGivesUp DEF HandleEmptyDataMessage
  <1>4. CASE HandleAbort
    BY <1>1, <1>4, IgnoreRests, FailGivesUp DEF HandleAbort
  <1>5. CASE Restart
    BY <1>1, <1>5, AbortEffect DEF Restart, FlashPowerLoss, GivesUp
  <1> QED
    BY <1>2, <1>3, <1>4, <1>5, BeginKind, DataKind, EndKind DEF Next

-----------------------------------------------------------------------------
(***************************************************************************)
(* The manager implements FirmwareUpdate: each kind of step is one of its  *)
(* actions, or leaves the update as FirmwareUpdate sees it unchanged.      *)
(***************************************************************************)

\* The update installed last, as FirmwareUpdate sees it.
InstalledUpdates == {image.begun : image \in flash.active}

\* Giving up is GiveUp, or a stutter when there is nothing to give up.
LEMMA GivesUpRefines ==
    ASSUME IInv, GivesUp
    PROVE  [Update!Next]_Update!vars
  <1>1. status' = "Idle" /\ flash'.active = flash.active
    BY DEF GivesUp
  <1>2. CASE status = "Idle"
    BY <1>1, <1>2 DEF Update!vars
  <1>3. CASE status # "Idle"
    <2>1. status \in {"Receiving", "Rebooting"}
      BY <1>3 DEF IInv, StageMatchesStatus
    <2>2. Update!GiveUp
      BY <1>1, <1>3, <2>1 DEF Update!GiveUp
    <2> QED BY <2>2 DEF Update!Next
  <1> QED BY <1>2, <1>3

\* Starting is Announce.
LEMMA StartsRefines ==
    ASSUME Starts, IInv'
    PROVE  Update!Announce
  <1>1. session' \in Sessions
    BY DEF IInv, TypeOK
  <1> QED BY <1>1 DEF Starts, Update!Announce

\* Storing a chunk is Accept.
LEMMA StoresRefines ==
    ASSUME Stores
    PROVE  Update!Accept
  BY DEF Stores, StoreChunk, Update!Accept

\* Installing is Install.
LEMMA InstallsRefines ==
    ASSUME IInv, Installs
    PROVE  Update!Install
  <1>1. InstalledUpdates' = {session}
    BY DEF Installs, InstalledUpdates
  <1>2. /\ status = "Receiving" /\ status' = "Rebooting" /\ session' = session
        /\ receivedChunks' = receivedChunks /\ receivedChunks = session.total
    BY DEF Installs, Activate, manager, CountMatches, IInv, SessionUnmixed
  <1> QED BY <1>1, <1>2 DEF Update!Install, InstalledUpdates

\* Every step is one of FirmwareUpdate, or a stutter.
LEMMA NextRefines == IInv /\ [Next]_vars => [Update!Next]_Update!vars
  <1> SUFFICES ASSUME IInv, [Next]_vars PROVE [Update!Next]_Update!vars
    OBVIOUS
  <1>1. CASE GivesUp
    BY <1>1, GivesUpRefines
  <1>2. CASE Rests
    BY <1>2 DEF Rests, Update!vars
  <1>3. CASE Starts
    BY <1>3, NextInv, StartsRefines DEF Update!Next
  <1>4. CASE Stores
    BY <1>4, StoresRefines DEF Update!Next
  <1>5. CASE Installs
    BY <1>5, InstallsRefines DEF Update!Next
  <1> QED BY <1>1, <1>2, <1>3, <1>4, <1>5, StepKinds

\* The manager installs an update only as FirmwareUpdate lets it.
THEOREM Implements == Spec => ImplementsFirmwareUpdate
  <1>1. Init => Update!Init
    BY DEF Init, FactoryFlash, Update!Init
  <1> QED BY <1>1, NextRefines, Inductive, PTL DEF Spec, ImplementsFirmwareUpdate, Update!Spec

-----------------------------------------------------------------------------
(***************************************************************************)
(* The number of chunks.  As long as the counter cannot come round, it is  *)
(* the number of chunks in the slot, not only that number modulo 2^16.     *)
(***************************************************************************)
CountTracked ==
    status = "Receiving" => receivedChunks = Len(flash.chunks)

\* Nothing is counted and nothing installed at the start.
LEMMA CountInit == Init => CountTracked /\ InstalledCountExact
  BY DEF Init, CountTracked, InstalledCountExact, FactoryFlash

\* Every step keeps the count exact.
LEMMA CountNext ==
    ASSUME SlotChunks < ChunkModulus, IInv, CountTracked, InstalledCountExact, [Next]_vars
    PROVE  CountTracked' /\ InstalledCountExact'
  <1>1. CASE GivesUp
    BY <1>1 DEF GivesUp, CountTracked, InstalledCountExact
  <1>2. CASE Rests
    BY <1>2 DEF Rests, CountTracked, InstalledCountExact
  <1>3. CASE Starts
    BY <1>3 DEF Starts, CountTracked, InstalledCountExact
  <1>4. CASE Stores
    <2>1. PICK chunk \in Chunks :
              StoreChunk(chunk) /\ flash'.chunks = Append(flash.chunks, chunk)
      BY <1>4 DEF Stores
    <2>2. flash.chunks \in Seq(Chunks)
      BY DEF IInv, TypeOK, Flashes
    <2>3. Len(flash'.chunks) = Len(flash.chunks) + 1 /\ Len(flash.chunks) < SlotChunks
      <3>1. flash'.chunks = Append(flash.chunks, chunk)
        BY <2>1
      <3>2. Len(Append(flash.chunks, chunk)) = Len(flash.chunks) + 1
        BY <2>2
      <3> QED BY <2>1, <3>1, <3>2 DEF StoreChunk
    <2>4. receivedChunks = Len(flash.chunks) /\ receivedChunks' = Succ(receivedChunks)
      BY <1>4, <2>1 DEF Stores, StoreChunk, CountTracked
    <2>5. receivedChunks' = Len(flash'.chunks)
      BY <2>2, <2>3, <2>4, OtaAssumption DEF Succ
    <2>6. flash'.active = flash.active
      BY <1>4 DEF Stores
    <2> QED BY <2>5, <2>6 DEF CountTracked, InstalledCountExact
  <1>5. CASE Installs
    <2>1. PICK image \in Images : /\ flash'.active = {image}
                                  /\ image.chunks = flash.chunks /\ image.begun = session
      BY <1>5 DEF Installs
    <2>2. Len(flash.chunks) = session.total
      BY <1>5 DEF Installs, CountMatches, CountTracked, IInv, SessionUnmixed
    <2>3. status' = "Rebooting"
      BY <1>5 DEF Installs, Activate
    <2> QED BY <2>1, <2>2, <2>3 DEF CountTracked, InstalledCountExact
  <1> QED BY <1>1, <1>2, <1>3, <1>4, <1>5, StepKinds

\* An installed image has exactly the announced number of chunks, if the slot
\* holds fewer chunks than the 16-bit counter counts.
THEOREM CountsExact ==
    ASSUME SlotChunks < ChunkModulus
    PROVE  Spec => []InstalledCountExact
  <1>1. IInv /\ (CountTracked /\ InstalledCountExact) /\ [Next]_vars
            => (CountTracked /\ InstalledCountExact)'
    BY CountNext
  <1> QED BY <1>1, CountInit, Inductive, PTL DEF Spec

-----------------------------------------------------------------------------
(***************************************************************************)
(* The progress of a transfer.                                             *)
(***************************************************************************)
LEMMA NothingAfter == \A r \in Nat : r + 1 .. r = {}
  OBVIOUS

\* Every step keeps the host up to date.
LEMMA ProgressNext ==
    ASSUME IInv, ProgressDue, [Next]_vars
    PROVE  ProgressDue'
  <1> SUFFICES ASSUME ProgressConnected, status' = "Receiving"
               PROVE  /\ told'.received <= receivedChunks' /\ told'.total = totalChunks'
                      /\ \A n \in told'.received + 1 .. receivedChunks' :
                             ~ ReportDue(n) /\ n # totalChunks'
    BY DEF ProgressDue, ReportDue
  <1>1. /\ receivedChunks \in 0 .. ChunkModulus - 1 /\ told.received \in Nat
        /\ ChunkModulus \in Nat
    BY OtaAssumption DEF IInv, TypeOK, Reports
  <1>2. CASE GivesUp
    BY <1>2 DEF GivesUp
  <1>3. CASE Rests
    BY <1>3 DEF Rests, ProgressDue
  <1>4. CASE Starts
    BY <1>4 DEF Starts, Report
  <1>5. CASE Stores
    <2>1. PICK chunk \in Chunks : StoreChunk(chunk)
      BY <1>5 DEF Stores
    <2>2. /\ receivedChunks' = Succ(receivedChunks) /\ totalChunks' = totalChunks
          /\ status = "Receiving"
      BY <1>5, <2>1 DEF Stores, StoreChunk
    <2>3. CASE Reported(receivedChunks')
      <3>1. told' = Report(status, receivedChunks', totalChunks)
        BY <2>1, <2>3 DEF StoreChunk, Emit
      <3>2. told'.received = receivedChunks' /\ told'.total = totalChunks'
        BY <2>2, <3>1 DEF Report
      <3>3. receivedChunks' \in Nat
        BY <1>1, <2>2 DEF Succ
      <3>4. told'.received + 1 .. receivedChunks' = {}
        BY <3>2, <3>3, NothingAfter
      <3>5. told'.received <= receivedChunks'
        BY <3>2, <3>3
      <3> QED BY <3>2, <3>4, <3>5
    <2>4. CASE ~ Reported(receivedChunks')
      <3>1. told' = told
        BY <2>1, <2>4 DEF StoreChunk, Emit
      <3>2. receivedChunks' # 0
        BY <2>4, OtaAssumption DEF Reported, ReportDue
      <3>3. receivedChunks' = receivedChunks + 1
        BY <2>2, <3>2 DEF Succ
      <3>4. ~ ReportDue(receivedChunks') /\ receivedChunks' # totalChunks
        BY <2>2, <2>4 DEF Reported
      <3>5. /\ told.received <= receivedChunks /\ told.total = totalChunks
            /\ \A n \in told.received + 1 .. receivedChunks :
                   ~ ReportDue(n) /\ n # totalChunks
        BY <2>2 DEF ProgressDue
      <3>6. ASSUME NEW n \in told.received + 1 .. receivedChunks'
            PROVE  n \in told.received + 1 .. receivedChunks \/ n = receivedChunks'
        BY <1>1, <3>3
      <3>7. \A n \in told.received + 1 .. receivedChunks' : ~ ReportDue(n) /\ n # totalChunks
        BY <3>4, <3>5, <3>6
      <3> QED BY <1>1, <2>2, <3>1, <3>3, <3>5, <3>7
    <2> QED BY <2>3, <2>4
  <1>6. CASE Installs
    BY <1>6 DEF Installs, Activate
  <1> QED BY <1>2, <1>3, <1>4, <1>5, <1>6, StepKinds

\* The host hears of every count it is due to hear about.
THEOREM ProgressIsReported == Spec => []ProgressDue
  <1>1. Init => ProgressDue
    BY DEF Init, ProgressDue
  <1>2. IInv /\ ProgressDue /\ [Next]_vars => ProgressDue'
    BY ProgressNext
  <1> QED BY <1>1, <1>2, Inductive, PTL DEF Spec

-----------------------------------------------------------------------------
(***************************************************************************)
(* The path of statuses the host sees.                                     *)
(***************************************************************************)

\* The reports of rs carry on from the status s.
LegalFrom(s, rs) ==
    \A i \in 1 .. Len(rs) :
        Follows(IF i = 1 THEN s ELSE rs[i - 1].status, rs[i].status)

\* No report is a legal continuation.
LEMMA LegalEmpty == \A s : LegalFrom(s, <<>>)
  BY DEF LegalFrom

\* One more report, after the last of them.
LEMMA LegalAppend ==
    ASSUME NEW s, NEW rs \in Seq(Reports), NEW r \in Reports, LegalFrom(s, rs),
           Follows(IF rs = <<>> THEN s ELSE rs[Len(rs)].status, r.status)
    PROVE  LegalFrom(s, Append(rs, r))
  <1> DEFINE longer == Append(rs, r)
  <1>1. /\ Len(longer) = Len(rs) + 1 /\ longer[Len(rs) + 1] = r
        /\ \A i \in 1 .. Len(rs) : longer[i] = rs[i]
        /\ Len(rs) \in Nat /\ (rs = <<>> <=> Len(rs) = 0)
    OBVIOUS
  <1> HIDE DEF longer
  <1> SUFFICES ASSUME NEW i \in 1 .. Len(longer)
               PROVE  Follows(IF i = 1 THEN s ELSE longer[i - 1].status, longer[i].status)
    BY DEF LegalFrom, longer
  <1>2. CASE i \in 1 .. Len(rs)
    <2>1. Follows(IF i = 1 THEN s ELSE rs[i - 1].status, rs[i].status)
      BY <1>2 DEF LegalFrom
    <2>2. longer[i] = rs[i] /\ (i # 1 => longer[i - 1] = rs[i - 1])
      BY <1>1, <1>2
    <2> QED BY <2>1, <2>2
  <1>3. CASE i = Len(rs) + 1
    <2>1. longer[i] = r /\ (i = 1 <=> rs = <<>>)
      BY <1>1, <1>3
    <2>2. i # 1 => longer[i - 1] = rs[Len(rs)]
      BY <1>1, <1>3
    <2> QED BY <2>1, <2>2
  <1> QED BY <1>1, <1>2, <1>3

\* One report.
LEMMA LegalOne ==
    ASSUME NEW s, NEW a \in Reports, Follows(s, a.status)
    PROVE  LegalFrom(s, <<a>>)
  <1>1. Append(<<>>, a) = <<a>> /\ <<>> \in Seq(Reports)
    OBVIOUS
  <1> QED BY <1>1, LegalEmpty, LegalAppend

\* Two reports, one after the other.
LEMMA LegalTwo ==
    ASSUME NEW s, NEW a \in Reports, NEW b \in Reports,
           Follows(s, a.status), Follows(a.status, b.status)
    PROVE  LegalFrom(s, <<a, b>>)
  <1> SUFFICES ASSUME NEW i \in 1 .. 2
               PROVE  Follows(IF i = 1 THEN s ELSE <<a, b>>[i - 1].status, <<a, b>>[i].status)
    BY DEF LegalFrom
  <1>1. CASE i = 1
    BY <1>1
  <1>2. CASE i = 2
    BY <1>2
  <1> QED BY <1>1, <1>2

\* Three reports, one after the other.
LEMMA LegalThree ==
    ASSUME NEW s, NEW a \in Reports, NEW b \in Reports, NEW c \in Reports,
           Follows(s, a.status), Follows(a.status, b.status), Follows(b.status, c.status)
    PROVE  LegalFrom(s, <<a, b, c>>)
  <1> SUFFICES ASSUME NEW i \in 1 .. 3
               PROVE  Follows(IF i = 1 THEN s ELSE <<a, b, c>>[i - 1].status,
                              <<a, b, c>>[i].status)
    BY DEF LegalFrom
  <1>1. CASE i = 1
    BY <1>1
  <1>2. CASE i = 2
    BY <1>2
  <1>3. CASE i = 3
    BY <1>3
  <1> QED BY <1>1, <1>2, <1>3

\* What is emitted is what the host sees next.
LEMMA LegalEmit ==
    ASSUME NEW rs, Emit(rs), ProgressConnected => LegalFrom(told.status, rs)
    PROVE  LegalFrom(told.status, reports')
  <1>1. CASE ProgressConnected
    BY <1>1 DEF Emit
  <1>2. CASE ~ ProgressConnected
    BY <1>2, LegalEmpty DEF Emit
  <1> QED BY <1>1, <1>2

\* Error may be reported whenever a handler starts.
LEMMA ErrorFollows ==
    ASSUME IInv, ProgressConnected
    PROVE  /\ told.status \in {"Idle", "Receiving", "Rebooting", "Error"}
           /\ Follows(told.status, "Error")
           /\ Follows(told.status, "Preparing")
           /\ status = "Receiving" => told.status = "Receiving"
  <1>1. told.status \in {"Idle", "Receiving", "Rebooting", "Error"}
    BY DEF IInv, StageMatchesStatus, HostInformed
  <1>2. status = "Receiving" => told.status = "Receiving"
    BY DEF IInv, HostInformed
  <1>3. CASE told.status = "Idle"
    BY <1>2, <1>3 DEF Follows
  <1>4. CASE told.status = "Receiving"
    BY <1>2, <1>4 DEF Follows
  <1>5. CASE told.status = "Rebooting"
    BY <1>2, <1>5 DEF Follows
  <1>6. CASE told.status = "Error"
    BY <1>2, <1>6 DEF Follows
  <1> QED BY <1>1, <1>3, <1>4, <1>5, <1>6

\* Ignoring a message reports nothing.
LEMMA IgnoreLegal ==
    ASSUME Ignore
    PROVE  LegalFrom(told.status, reports')
  BY LegalEmpty, LegalEmit DEF Ignore

\* Giving up, after reports that were legal themselves.
LEMMA FailLegal ==
    ASSUME IInv, NEW f, NEW sent \in Seq(Reports), Fail(f, sent),
           ProgressConnected =>
               /\ LegalFrom(told.status, sent)
               /\ sent # <<>> => Follows(sent[Len(sent)].status, "Error")
    PROVE  LegalFrom(told.status, reports')
  <1> DEFINE last == Report("Error", receivedChunks, totalChunks)
  <1>1. last \in Reports /\ last.status = "Error"
    BY ReportType DEF IInv, TypeOK, Statuses
  <1>2. Emit(Append(sent, last))
    BY DEF Fail
  <1> HIDE DEF last
  <1>3. ProgressConnected => LegalFrom(told.status, Append(sent, last))
    BY <1>1, ErrorFollows, LegalAppend
  <1> QED BY <1>2, <1>3, LegalEmit

\* The reports of handleBegin.
LEMMA BeginLegal ==
    ASSUME IInv, NEW size \in Sizes, NEW crc \in Crcs, NEW total \in Totals,
           NEW eraseOk \in BOOLEAN, HandleBegin(size, crc, total, eraseOk)
    PROVE  LegalFrom(told.status, reports')
  <1>1. CASE RefuseBegin(size)
    <2> DEFINE last == Report("Error", ClearedCount(receivedChunks),
                              ClearedCount(totalChunks))
    <2>1. last \in Reports /\ last.status = "Error"
      BY ReportType, ClearedEffect DEF Statuses
    <2>2. Emit(<<last>>)
      BY <1>1 DEF RefuseBegin
    <2> HIDE DEF last
    <2>3. ProgressConnected => LegalFrom(told.status, <<last>>)
      BY <2>1, ErrorFollows, LegalOne
    <2> QED BY <2>2, <2>3, LegalEmit
  <1>2. CASE AcceptBegin(size, crc, total, eraseOk)
    <2> DEFINE first == Report("Preparing", 0, total)
               last  == Report(IF eraseOk THEN "Receiving" ELSE "Error", 0, total)
    <2>1. /\ first \in Reports /\ last \in Reports
          /\ Follows(first.status, last.status) /\ first.status = "Preparing"
      <3>1. /\ first \in Reports /\ first.status = "Preparing"
            /\ last \in Reports /\ last.status \in {"Receiving", "Error"}
        BY ReportType, ZeroType DEF Statuses
      <3>2. Follows("Preparing", "Receiving") /\ Follows("Preparing", "Error")
        BY DEF Follows
      <3> QED BY <3>1, <3>2
    <2>2. Emit(<<first, last>>)
      BY <1>2 DEF AcceptBegin
    <2> HIDE DEF first, last
    <2>3. ProgressConnected => LegalFrom(told.status, <<first, last>>)
      BY <2>1, ErrorFollows, LegalTwo
    <2> QED BY <2>2, <2>3, LegalEmit
  <1> QED BY <1>1, <1>2 DEF HandleBegin

\* The reports of handleData.
LEMMA DataLegal ==
    ASSUME IInv, NEW index \in 0 .. ChunkModulus - 1, NEW data \in Payloads \cup {NoData},
           NEW writeOk \in BOOLEAN, HandleData(index, data, writeOk)
    PROVE  LegalFrom(told.status, reports')
  <1> DEFINE chunk == [index |-> index, data |-> data]
  <1>1. <<>> \in Seq(Reports) /\ LegalFrom(told.status, <<>>)
    BY LegalEmpty, ZeroType
  <1>2. ASSUME NEW f, Fail(f, <<>>)
        PROVE  LegalFrom(told.status, reports')
    BY <1>1, <1>2, FailLegal
  <1>3. CASE Ignore
    BY <1>3, IgnoreLegal
  <1>4. CASE status = "Receiving" /\ StoreChunk(chunk)
    <2> DEFINE report == Report(status, receivedChunks', totalChunks)
    <2>1. receivedChunks' \in 0 .. ChunkModulus - 1
      BY <1>4, OtaAssumption DEF IInv, TypeOK, StoreChunk, Succ
    <2>2. report \in Reports /\ report.status = "Receiving"
      BY <1>4, <2>1, ReportType DEF IInv, TypeOK, Statuses
    <2>3. Emit(<<report>>) \/ Emit(<<>>)
      BY <1>4 DEF StoreChunk
    <2> HIDE DEF report
    <2>4. Follows("Receiving", "Receiving")
      BY DEF Follows
    <2>5. ProgressConnected => LegalFrom(told.status, <<report>>)
      BY <1>4, <2>2, <2>4, ErrorFollows, LegalOne
    <2> QED BY <1>1, <2>3, <2>5, LegalEmit
  <1> QED BY <1>2, <1>3, <1>4 DEF HandleData

\* The reports of handleEnd.
LEMMA EndLegal ==
    ASSUME IInv, NEW finishOk \in BOOLEAN, NEW verifyOk \in BOOLEAN,
           NEW activateOk \in BOOLEAN, HandleEnd(finishOk, verifyOk, activateOk)
    PROVE  LegalFrom(told.status, reports')
  <1> DEFINE v == Progress("Verifying")
             a == Progress("Applying")
             r == Progress("Rebooting")
  <1>1. /\ v \in Reports /\ a \in Reports /\ r \in Reports
        /\ v.status = "Verifying" /\ a.status = "Applying" /\ r.status = "Rebooting"
    BY ProgressType DEF Statuses
  <1>2. /\ Follows("Receiving", "Verifying") /\ Follows("Verifying", "Applying")
        /\ Follows("Applying", "Rebooting") /\ Follows("Verifying", "Error")
        /\ Follows("Rebooting", "Error")
    BY DEF Follows
  <1>3. CASE Ignore
    BY <1>3, IgnoreLegal
  <1>4. ASSUME NEW f, Fail(f, <<>>)
        PROVE  LegalFrom(told.status, reports')
    BY <1>4, LegalEmpty, ZeroType, FailLegal
  <1>5. ASSUME NEW f, status = "Receiving", Fail(f, <<v>>)
        PROVE  LegalFrom(told.status, reports')
    <2> DEFINE sent == <<v>>
    <2> HIDE DEF v
    <2>1. sent \in Seq(Reports) /\ sent[Len(sent)] = v
      BY <1>1
    <2>2. ProgressConnected => LegalFrom(told.status, sent)
      BY <1>1, <1>2, <1>5, ErrorFollows, LegalOne
    <2>3. Follows(sent[Len(sent)].status, "Error")
      BY <1>1, <1>2, <2>1
    <2>4. Fail(f, sent)
      BY <1>5
    <2> HIDE DEF sent
    <2> QED BY <2>1, <2>2, <2>3, <2>4, FailLegal
  <1>6. status = "Receiving" /\ ProgressConnected => LegalFrom(told.status, <<v, a, r>>)
    <2> HIDE DEF v, a, r
    <2> QED BY <1>1, <1>2, ErrorFollows, LegalThree
  <1>7. ASSUME NEW f, status = "Receiving", Fail(f, <<v, a, r>>)
        PROVE  LegalFrom(told.status, reports')
    <2> DEFINE sent == <<v, a, r>>
    <2> HIDE DEF v, a, r
    <2>1. sent \in Seq(Reports) /\ sent[Len(sent)] = r
      BY <1>1
    <2>2. Follows(sent[Len(sent)].status, "Error")
      BY <1>1, <1>2, <2>1
    <2>3. Fail(f, sent) /\ (ProgressConnected => LegalFrom(told.status, sent))
      BY <1>6, <1>7
    <2> HIDE DEF sent
    <2> QED BY <2>1, <2>2, <2>3, FailLegal
  <1>8. CASE status = "Receiving" /\ Activate
    <2>1. Emit(<<v, a, r>>)
      BY <1>8 DEF Activate
    <2> QED BY <1>6, <1>8, <2>1, LegalEmit
  <1> QED BY <1>3, <1>4, <1>5, <1>7, <1>8 DEF HandleEnd

\* What every step but a stuttering one does.
LEMMA StepLegal ==
    ASSUME IInv, Next
    PROVE  LegalFrom(told.status, reports')
  <1>1. <<>> \in Seq(Reports) /\ LegalFrom(told.status, <<>>)
    BY LegalEmpty, ZeroType
  <1>2. CASE HandleEmptyDataMessage
    BY <1>1, <1>2, FailLegal DEF HandleEmptyDataMessage
  <1>3. CASE HandleAbort
    BY <1>1, <1>3, FailLegal, IgnoreLegal DEF HandleAbort
  <1>4. CASE Restart
    BY <1>1, <1>4 DEF Restart
  <1> QED BY <1>2, <1>3, <1>4, BeginLegal, DataLegal, EndLegal DEF Next

\* The host sees a path of the update's life cycle, without a gap.
THEOREM PathIsLegal == Spec => HostSeesLegalPath
  <1>1. IInv /\ [Next]_vars => [LegalFrom(told.status, reports')]_vars
    BY StepLegal
  <1> QED BY <1>1, Inductive, PTL DEF Spec, HostSeesLegalPath, LegalFrom
=============================================================================
