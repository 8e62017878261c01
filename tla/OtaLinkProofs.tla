---------------------------- MODULE OtaLinkProofs ----------------------------
(***************************************************************************)
(* What is proved of OtaLink, for any images the host may want, and any    *)
(* number of losses, repetitions, failures and power losses.  The device   *)
(* behind the link is an OtaManager: what OtaManagerProofs proves of its   *)
(* handlers is used here.                                                  *)
(***************************************************************************)
EXTENDS OtaLink, OtaManagerProofs

\* The messages of an update, of one image, that may be on their way.
MessagesOf(image) ==
    {OtaBegin(image), OtaEnd, OtaAbort}
        \cup {OtaData(index, image.data) : index \in 0 .. ChunkModulus - 1}

\* Everything on its way to the device is of the update the host attempts now:
\* it starts over only when nothing is on its way any more.
LinkInv ==
    /\ want \in HostImages
    /\ step \in Nat
    /\ down \in Seq(MessagesOf(want))
    /\ up \in Seq(Reports)

\* The OtaBegin accepted last, if it was this image's.
BegunFor(image) == [size |-> image.size, crc |-> image.crc, total |-> image.total]

\* A transfer is one of an image of the host's.
SessionFromHost ==
    status = "Receiving" => \E image \in HostImages : session = BegunFor(image)

-----------------------------------------------------------------------------
\* A Preparing of this attempt was heard, or is ahead of the n-th report.
PreparingBefore(n) ==
    \/ belief \in {"begun", "done"}
    \/ \E i \in 1 .. n - 1 : up[i].status = "Preparing"

\* What justifies a Rebooting report the host takes for its own, or has taken:
\* the image is installed, or the Error that takes the report back is behind it,
\* or something went wrong that nobody reports.
Justified(n) ==
    \/ Installed(want)
    \/ \E i \in n + 1 .. Len(up) : up[i].status = "Error"
    \/ mishaps # {}

\* Once a Preparing of this attempt has set out, a transfer is one of the image
\* the host wants.
TransferIsWanted ==
    status = "Receiving" /\ PreparingBefore(Len(up) + 1) => session = BegunFor(want)

\* Every Rebooting report behind such a Preparing is justified, and so is the
\* belief that the update is done.
BeliefJustified ==
    /\ \A n \in 1 .. Len(up) :
          up[n].status = "Rebooting" /\ PreparingBefore(n) => Justified(n)
    /\ belief = "done" => Justified(0)

-----------------------------------------------------------------------------
(***************************************************************************)
(* What the arrival of a message may do, as far as the link can tell.      *)
(***************************************************************************)

\* A handler that reports Rebooting takes it back.
TakesBack ==
    \A n \in 1 .. Len(reports') :
        reports'[n].status = "Rebooting" =>
            \E m \in n + 1 .. Len(reports') : reports'[m].status = "Error"

\* No transfer is going on afterwards.
Drops == status' # "Receiving" /\ flash'.active = flash.active /\ TakesBack

\* The transfer, if there is one, goes on.
Continues ==
    /\ status' = status /\ session' = session
    /\ flash'.active = flash.active
    /\ \A n \in 1 .. Len(reports') : reports'[n].status \notin {"Preparing", "Rebooting"}

\* A transfer of the image the host wants starts.
Opens ==
    /\ status' = "Receiving" /\ session' = BegunFor(want)
    /\ flash'.active = flash.active /\ TakesBack

\* The chunks received are made the image to boot.
InstallsIntact ==
    /\ status = "Receiving" /\ status' = "Rebooting" /\ session' = session
    /\ StagedIntact
    /\ \E image \in Images :
          /\ flash'.active = {image}
          /\ image.chunks = flash.chunks /\ image.begun = session
    /\ \A n \in 1 .. Len(reports') : reports'[n].status # "Preparing"

\* What the images of the host's are made of.
LEMMA HostImageType ==
    ASSUME NEW image \in HostImages
    PROVE  /\ image.size \in Sizes /\ image.crc \in Crcs
           /\ image.total \in Totals /\ image.data \in Payloads
           /\ image.total \in Nat /\ image.total <= ChunkModulus - 1
  <1>1. /\ image.size \in Sizes /\ image.crc \in Crcs
        /\ image.total \in Totals /\ image.data \in Payloads
    BY LinkAssumption
  <1>2. image.total \in 0 .. ChunkModulus - 1
    BY <1>1, OtaAssumption
  <1> QED BY <1>1, <1>2, OtaAssumption

\* What the fields of a message of an update are.
LEMMA MessageFields ==
    ASSUME NEW image \in HostImages, NEW message \in MessagesOf(image)
    PROVE  /\ message.type = "OtaBegin" =>
                 /\ message.size = image.size /\ message.crc = image.crc
                 /\ message.total = image.total
           /\ message.type = "OtaData" =>
                 message.index \in 0 .. ChunkModulus - 1 /\ message.data = image.data
  BY DEF MessagesOf, OtaBegin, OtaData, OtaEnd, OtaAbort

\* The host sends messages of the image it wants.
LEMMA SendsOwn ==
    ASSUME NEW image \in HostImages, NEW n \in Nat, n < UpdateLength(image)
    PROVE  UpdateMessage(image, n) \in MessagesOf(image)
  <1>1. CASE n = 0
    BY <1>1 DEF UpdateMessage, MessagesOf
  <1>2. CASE n # 0 /\ n > image.total
    BY <1>2 DEF UpdateMessage, MessagesOf
  <1>3. CASE n # 0 /\ ~ n > image.total
    <2>1. n - 1 \in 0 .. ChunkModulus - 1
      BY <1>3, HostImageType, OtaAssumption
    <2>2. UpdateMessage(image, n) = OtaData(n - 1, image.data)
      BY <1>3 DEF UpdateMessage
    <2> QED BY <2>1, <2>2 DEF MessagesOf
  <1> QED BY <1>1, <1>2, <1>3

\* A message that arrives is handled as OtaManager's Next has it.
LEMMA ArrivalIsNext ==
    ASSUME LinkInv, NEW message \in MessagesOf(want),
           Handle(message) \/ HandleFailing(message)
    PROVE  Next
  <1>1. want \in HostImages
    BY DEF LinkInv
  <1>2. ASSUME NEW ok \in BOOLEAN, message.type = "OtaBegin",
               HandleBegin(message.size, message.crc, message.total, ok)
        PROVE  Next
    BY <1>1, <1>2, MessageFields, HostImageType DEF Next
  <1>3. ASSUME NEW ok \in BOOLEAN, message.type = "OtaData",
               HandleData(message.index, message.data, ok)
        PROVE  Next
    BY <1>1, <1>3, MessageFields, HostImageType DEF Next
  <1>4. ASSUME NEW finishOk \in BOOLEAN, NEW verifyOk \in BOOLEAN,
               NEW activateOk \in BOOLEAN, HandleEnd(finishOk, verifyOk, activateOk)
        PROVE  Next
    BY <1>4 DEF Next
  <1>5. CASE HandleAbort
    BY <1>5 DEF Next
  <1>6. StagedIntact \in BOOLEAN
    BY DEF StagedIntact
  <1> QED BY <1>2, <1>3, <1>4, <1>5, <1>6 DEF Handle, HandleFailing

-----------------------------------------------------------------------------
(***************************************************************************)
(* Each handler's step is of one of the four kinds.                        *)
(***************************************************************************)

\* Giving up ends the transfer, and takes a Rebooting back.
LEMMA FailDrops ==
    ASSUME IInv, NEW f \in Flashes, f.active = flash.active, NEW sent \in Seq(Reports),
           Fail(f, sent)
    PROVE  Drops
  <1> DEFINE last == Report("Error", receivedChunks, totalChunks)
  <1>1. last \in Reports /\ last.status = "Error"
    BY ReportType DEF IInv, TypeOK, Statuses
  <1>2. status' = "Idle" /\ flash'.active = flash.active
    BY FailGivesUp DEF GivesUp
  <1>3. reports' = <<>> \/ reports' = Append(sent, last)
    BY DEF Fail, Emit
  <1>4. TakesBack
    <2>1. CASE reports' = <<>>
      BY <2>1 DEF TakesBack
    <2>2. CASE reports' = Append(sent, last)
      <3>1. Len(reports') = Len(sent) + 1 /\ reports'[Len(sent) + 1] = last
        BY <1>1, <2>2
      <3>2. ASSUME NEW n \in 1 .. Len(reports'), reports'[n].status = "Rebooting"
            PROVE  Len(sent) + 1 \in n + 1 .. Len(reports')
        BY <1>1, <3>1, <3>2
      <3> QED BY <1>1, <3>1, <3>2 DEF TakesBack
    <2> QED BY <1>3, <2>1, <2>2
  <1> QED BY <1>2, <1>4 DEF Drops

\* Ignoring a message leaves everything as it is.
LEMMA IgnoreContinues ==
    ASSUME Ignore
    PROVE  Continues
  <1>1. reports' = <<>>
    BY DEF Ignore, Emit
  <1> QED BY <1>1 DEF Ignore, Continues

\* An OtaBegin of the image the host wants.
LEMMA BeginArrival ==
    ASSUME IInv, LinkInv, NEW eraseOk \in BOOLEAN,
           HandleBegin(want.size, want.crc, want.total, eraseOk)
    PROVE  Drops \/ Opens
  <1>1. /\ want.size \in Sizes /\ want.crc \in Crcs /\ want.total \in Totals
    BY HostImageType DEF LinkInv
  <1>2. GivesUp \/ Starts
    BY <1>1, BeginKind
  <1>3. status' \in {"Idle", "Receiving"} /\ flash'.active = flash.active
    BY <1>2 DEF GivesUp, Starts
  <1>4. ASSUME NEW n \in 1 .. Len(reports')
        PROVE  reports'[n].status # "Rebooting"
    <2>1. ASSUME NEW r, Emit(<<r>>), r.status = "Error"
          PROVE  reports'[n].status # "Rebooting"
      BY <1>4, <2>1 DEF Emit
    <2>2. ASSUME NEW r, NEW s, Emit(<<r, s>>), r.status = "Preparing",
                 s.status \in {"Receiving", "Error"}
          PROVE  reports'[n].status # "Rebooting"
      <3>1. n = 1 \/ n = 2
        BY <1>4, <2>2 DEF Emit
      <3> QED BY <1>4, <2>2, <3>1 DEF Emit
    <2>3. CASE RefuseBegin(want.size)
      <3> DEFINE r == Report("Error", ClearedCount(receivedChunks), ClearedCount(totalChunks))
      <3>1. Emit(<<r>>) /\ r.status = "Error"
        BY <2>3 DEF RefuseBegin, Report
      <3> HIDE DEF r
      <3> QED BY <2>1, <3>1
    <2>4. CASE AcceptBegin(want.size, want.crc, want.total, eraseOk)
      <3> DEFINE r == Report("Preparing", 0, want.total)
                 s == Report(IF eraseOk THEN "Receiving" ELSE "Error", 0, want.total)
      <3>1. Emit(<<r, s>>)
        BY <2>4 DEF AcceptBegin
      <3>2. r.status = "Preparing" /\ s.status \in {"Receiving", "Error"}
        BY DEF Report
      <3> HIDE DEF r, s
      <3> QED BY <2>2, <3>1, <3>2
    <2> QED BY <2>3, <2>4 DEF HandleBegin
  <1>5. TakesBack
    BY <1>4 DEF TakesBack
  <1>6. status' = "Receiving" => session' = BegunFor(want)
    BY DEF HandleBegin, RefuseBegin, AcceptBegin, BegunFor
  <1> QED BY <1>3, <1>5, <1>6 DEF Drops, Opens

\* A chunk.
LEMMA DataArrival ==
    ASSUME IInv, NEW index \in 0 .. ChunkModulus - 1, NEW data \in Payloads \cup {NoData},
           NEW writeOk \in BOOLEAN, HandleData(index, data, writeOk)
    PROVE  Drops \/ Continues
  <1> DEFINE chunk == [index |-> index, data |-> data]
  <1>1. flash \in Flashes /\ <<>> \in Seq(Reports)
    BY DEF IInv, TypeOK
  <1>2. CASE Ignore
    BY <1>2, IgnoreContinues
  <1>3. CASE Fail(flash, <<>>)
    BY <1>1, <1>3, FailDrops
  <1>4. CASE status = "Receiving" /\ Fail(FlashWriteChunk(flash, chunk, FALSE), <<>>)
    <2>1. flash.stage = "open"
      BY <1>4 DEF IInv, StageMatchesStatus
    <2> HIDE DEF chunk
    <2> QED BY <1>1, <1>4, <2>1, FailedWriteChunkEffect, FailDrops
  <1>5. CASE status = "Receiving" /\ Expected(index, data) /\ StoreChunk(chunk)
    <2>1. chunk \in Chunks /\ flash.stage = "open"
      BY <1>5 DEF Expected, Chunks, IInv, StageMatchesStatus
    <2> HIDE DEF chunk
    <2>2. flash'.active = flash.active /\ status' = status /\ session' = session
      BY <1>1, <1>5, <2>1, WriteChunkEffect DEF StoreChunk
    <2>3. reports' = <<>> \/ reports' = <<Report(status, receivedChunks', totalChunks)>>
      BY <1>5 DEF StoreChunk, Emit
    <2>4. Report(status, receivedChunks', totalChunks).status = "Receiving"
      BY <1>5 DEF Report
    <2> QED BY <2>2, <2>3, <2>4 DEF Continues
  <1> QED BY <1>2, <1>3, <1>4, <1>5 DEF HandleData

\* An OtaEnd, on a writer that compares the staged image with its CRC32.
LEMMA EndArrival ==
    ASSUME IInv, NEW finishOk \in BOOLEAN, NEW verifyOk \in BOOLEAN,
           NEW activateOk \in BOOLEAN, HandleEnd(finishOk, verifyOk, activateOk),
           verifyOk => StagedIntact
    PROVE  Drops \/ Continues \/ InstallsIntact
  <1>1. flash \in Flashes /\ expectedCrc32 \in Crcs /\ session \in Sessions
    BY DEF IInv, TypeOK
  <1>2. CASE Ignore
    BY <1>2, IgnoreContinues
  <1>3. ASSUME status = "Receiving"
        PROVE  /\ FlashFinish(flash, FALSE) \in Flashes
               /\ FlashFinish(flash, FALSE).active = flash.active
               /\ FlashVerify(Finished, expectedCrc32, FALSE) \in Flashes
               /\ FlashVerify(Finished, expectedCrc32, FALSE).active = flash.active
               /\ FlashActivate(Verified, session, FALSE) \in Flashes
               /\ FlashActivate(Verified, session, FALSE).active = flash.active
    <2>1. flash.stage = "open"
      BY <1>3 DEF IInv, StageMatchesStatus
    <2>2. /\ FlashFinish(flash, FALSE) \in Flashes
          /\ FlashFinish(flash, FALSE).active = flash.active
      BY <1>1, <2>1, FinishEffect
    <2>3. /\ FlashVerify(Finished, expectedCrc32, FALSE) \in Flashes
          /\ FlashVerify(Finished, expectedCrc32, FALSE).active = flash.active
      BY <1>1, <1>3, VerifiedEffect, VerifyEffect
    <2>4. /\ FlashActivate(Verified, session, FALSE) \in Flashes
          /\ FlashActivate(Verified, session, FALSE).active = flash.active
      BY <1>3, VerifiedEffect, FailedActivateEffect
    <2> QED BY <2>2, <2>3, <2>4
  <1>4. /\ Progress("Verifying") \in Reports /\ Progress("Applying") \in Reports
        /\ Progress("Rebooting") \in Reports
    BY ProgressType DEF Statuses
  <1>5. ASSUME status = "Receiving", NEW f \in Flashes, f.active = flash.active,
               \/ Fail(f, <<>>) \/ Fail(f, <<Progress("Verifying")>>)
               \/ Fail(f, <<Progress("Verifying"), Progress("Applying"),
                            Progress("Rebooting")>>)
        PROVE  Drops
    <2>1. /\ <<>> \in Seq(Reports) /\ <<Progress("Verifying")>> \in Seq(Reports)
          /\ <<Progress("Verifying"), Progress("Applying"), Progress("Rebooting")>>
                \in Seq(Reports)
      BY <1>4
    <2> QED BY <1>5, <2>1, FailDrops
  <1>6. CASE status = "Receiving" /\ verifyOk /\ CountMatches /\ Activate
    <2> DEFINE image == [size |-> Verified.size, crc |-> Verified.crc,
                         chunks |-> Verified.chunks, begun |-> session]
    <2>1. flash'.active = {image}
      BY <1>1, <1>6, VerifiedEffect, ActivateEffect DEF Activate
    <2>2. image.begun = session /\ image.chunks = flash.chunks
      BY <1>6, VerifiedEffect
    <2>3. image \in Images
      BY <1>1, <1>6, VerifiedEffect DEF Images, Flashes
    <2>4. status' = "Rebooting" /\ session' = session
      BY <1>6 DEF Activate
    <2>5. ASSUME NEW n \in 1 .. Len(reports')
          PROVE  reports'[n].status # "Preparing"
      <3>1. reports' = <<>> \/ reports' = <<Progress("Verifying"), Progress("Applying"),
                                           Progress("Rebooting")>>
        BY <1>6 DEF Activate, Emit
      <3>2. /\ Progress("Verifying").status # "Preparing"
            /\ Progress("Applying").status # "Preparing"
            /\ Progress("Rebooting").status # "Preparing"
        BY DEF Progress, Report
      <3> DEFINE v == Progress("Verifying")
                 a == Progress("Applying")
                 r == Progress("Rebooting")
      <3> HIDE DEF v, a, r
      <3>3. CASE reports' = <<>>
        BY <2>5, <3>3
      <3>4. CASE reports' = <<v, a, r>>
        <4>1. n \in 1 .. 3
          BY <2>5, <3>4
        <4>2. v.status # "Preparing" /\ a.status # "Preparing" /\ r.status # "Preparing"
          BY <3>2 DEF v, a, r
        <4>3. n = 1 \/ n = 2 \/ n = 3
          BY <4>1
        <4> QED BY <3>4, <4>2, <4>3
      <3> QED BY <3>1, <3>3, <3>4 DEF v, a, r
    <2> HIDE DEF image
    <2> QED BY <1>6, <2>1, <2>2, <2>3, <2>4, <2>5 DEF InstallsIntact
  <1>7. CASE status = "Receiving" /\ ~ (verifyOk /\ CountMatches /\ Activate)
    <2>1. \/ Fail(flash, <<>>)
          \/ Fail(FlashFinish(flash, FALSE), <<>>)
          \/ Fail(FlashVerify(Finished, expectedCrc32, FALSE), <<Progress("Verifying")>>)
          \/ Fail(FlashActivate(Verified, session, FALSE),
                  <<Progress("Verifying"), Progress("Applying"), Progress("Rebooting")>>)
      BY <1>7 DEF HandleEnd
    <2> QED BY <1>1, <1>3, <1>5, <1>7, <2>1
  <1>8. CASE status # "Receiving"
    BY <1>2, <1>8 DEF HandleEnd
  <1> QED BY <1>6, <1>7, <1>8

\* A message that arrives, whether or not a call of the writer fails.
LEMMA ArrivalKinds ==
    ASSUME IInv, LinkInv, NEW message \in MessagesOf(want),
           Handle(message) \/ HandleFailing(message)
    PROVE  Drops \/ Continues \/ Opens \/ InstallsIntact
  <1>1. want \in HostImages
    BY DEF LinkInv
  <1>2. ASSUME NEW ok \in BOOLEAN, message.type = "OtaBegin",
               HandleBegin(message.size, message.crc, message.total, ok)
        PROVE  Drops \/ Opens
    BY <1>1, <1>2, MessageFields, BeginArrival
  <1>3. ASSUME NEW ok \in BOOLEAN, message.type = "OtaData",
               HandleData(message.index, message.data, ok)
        PROVE  Drops \/ Continues
    BY <1>1, <1>3, MessageFields, HostImageType, DataArrival
  <1>4. CASE HandleAbort
    <2>1. flash \in Flashes /\ <<>> \in Seq(Reports)
      BY DEF IInv, TypeOK
    <2> QED BY <1>4, <2>1, IgnoreContinues, FailDrops DEF HandleAbort
  <1>5. StagedIntact \in BOOLEAN
    BY DEF StagedIntact
  <1>6. CASE HandleEnd(TRUE, StagedIntact, TRUE) \/ HandleEnd(TRUE, StagedIntact, FALSE)
             \/ HandleEnd(FALSE, StagedIntact, TRUE) \/ HandleEnd(TRUE, FALSE, TRUE)
    BY <1>5, <1>6, EndArrival
  <1> QED BY <1>2, <1>3, <1>4, <1>6 DEF Handle, HandleFailing

-----------------------------------------------------------------------------
(***************************************************************************)
(* The device behind the link is an OtaManager.                            *)
(***************************************************************************)

\* The first of the messages on their way is one of the update.
LEMMA HeadOfDown ==
    ASSUME LinkInv, down # <<>>
    PROVE  Head(down) \in MessagesOf(want) /\ Tail(down) \in Seq(MessagesOf(want))
  BY DEF LinkInv

\* A step of the link that is none of the handlers' restarts the device or
\* leaves it alone.
LEMMA StepOfDevice ==
    ASSUME LinkInv, [LinkNext]_linkVars
    PROVE  [Next]_vars
  <1>1. CASE Arrive \/ ArriveFailing
    BY <1>1, HeadOfDown, ArrivalIsNext DEF Arrive, ArriveFailing
  <1>2. CASE Reboot \/ PowerLoss \/ PowerLossInBegin \/ PowerLossInEnd
    BY <1>2 DEF Reboot, PowerLoss, PowerLossInBegin, PowerLossInEnd, Next
  <1>3. CASE HostSends \/ HostHears \/ HostStartsOver \/ HostGivesUp \/ LoseMessage
             \/ RepeatMessage \/ LoseReport \/ Settled \/ UNCHANGED linkVars
    BY <1>3 DEF HostSends, HostHears, HostStartsOver, HostGivesUp, LoseMessage,
       RepeatMessage, LoseReport, Settled, linkVars
  <1> QED BY <1>1, <1>2, <1>3 DEF LinkNext

\* What is on its way stays of the update attempted now.
LEMMA LinkInvNext ==
    ASSUME IInv, LinkInv, [LinkNext]_linkVars
    PROVE  LinkInv'
  <1>1. /\ want \in HostImages /\ step \in Nat
        /\ down \in Seq(MessagesOf(want)) /\ up \in Seq(Reports)
    BY DEF LinkInv
  <1>2. IInv'
    BY StepOfDevice, NextInv
  <1>3. reports' \in Seq(Reports)
    BY <1>2 DEF IInv, TypeOK
  <1>4. ASSUME NEW s \in Statuses, NEW n \in 0 .. ChunkModulus - 1, NEW total \in Totals
        PROVE  Report(s, n, total) \in Reports
    BY <1>4, ReportType
  <1>5. CASE HostSends
    <2>1. UpdateMessage(want, step) \in MessagesOf(want)
      BY <1>1, <1>5, SendsOwn DEF HostSends
    <2> QED BY <1>1, <1>5, <2>1 DEF HostSends, LinkInv
  <1>6. CASE HostHears \/ LoseReport
    <2>1. up # <<>> /\ up' = Tail(up)
      BY <1>6 DEF HostHears, LoseReport
    <2>2. up' \in Seq(Reports)
      BY <1>1, <2>1
    <2>3. want' = want /\ step' = step /\ down' = down
      BY <1>6 DEF HostHears, LoseReport, hostVars
    <2> QED BY <1>1, <2>2, <2>3 DEF LinkInv
  <1>7. CASE HostStartsOver
    <2>1. down' = <<>> /\ <<>> \in Seq(MessagesOf(want'))
      BY <1>7 DEF HostStartsOver, Quiet
    <2> QED BY <1>1, <1>7, <2>1 DEF HostStartsOver, LinkInv
  <1>8. CASE HostGivesUp
    <2>1. OtaAbort \in MessagesOf(want)
      BY DEF MessagesOf
    <2>2. Append(down, OtaAbort) \in Seq(MessagesOf(want))
      BY <1>1, <2>1
    <2> QED BY <1>1, <1>8, <2>2 DEF HostGivesUp, LinkInv
  <1>9. CASE Arrive \/ ArriveFailing
    <2>1. up \o reports' \in Seq(Reports)
      BY <1>1, <1>3
    <2>2. down' \in Seq(MessagesOf(want))
      BY <1>9, HeadOfDown DEF Arrive, ArriveFailing
    <2> QED BY <1>1, <1>9, <2>1, <2>2 DEF Arrive, ArriveFailing, hostVars, LinkInv
  <1>10. CASE PowerLossInBegin
    <2> DEFINE r == Report("Preparing", 0, Head(down).total)
    <2>1. Head(down).total \in Totals
      BY <1>1, <1>10, HeadOfDown, MessageFields, HostImageType DEF PowerLossInBegin
    <2>2. r \in Reports
      BY <1>4, <2>1, ZeroType DEF Statuses
    <2>3. up' = Append(up, r) /\ down' = Tail(down) /\ want' = want /\ step' = step
          /\ down # <<>>
      BY <1>10 DEF PowerLossInBegin, hostVars
    <2> HIDE DEF r
    <2>4. Append(up, r) \in Seq(Reports)
      BY <1>1, <2>2
    <2> QED BY <1>1, <2>3, <2>4, HeadOfDown DEF LinkInv
  <1>11. CASE PowerLossInEnd
    <2>1. /\ Progress("Verifying") \in Reports /\ Progress("Applying") \in Reports
          /\ Progress("Rebooting") \in Reports
      BY ProgressType DEF Statuses
    <2>2. ReportsBeforeActivate \in Seq(Reports)
      BY <2>1 DEF ReportsBeforeActivate
    <2>3. up' = Append(up, Progress("Verifying")) \/ up' = up \o ReportsBeforeActivate
      BY <1>11 DEF PowerLossInEnd
    <2>4. up' \in Seq(Reports)
      <3>1. Append(up, Progress("Verifying")) \in Seq(Reports)
        BY <1>1, <2>1
      <3>2. up \o ReportsBeforeActivate \in Seq(Reports)
        BY <1>1, <2>2
      <3> QED BY <2>3, <3>1, <3>2
    <2>5. down' = Tail(down) /\ want' = want /\ step' = step /\ down # <<>>
      BY <1>11 DEF PowerLossInEnd, hostVars
    <2> QED BY <1>1, <2>4, <2>5, HeadOfDown DEF LinkInv
  <1>12. CASE LoseMessage \/ RepeatMessage
    <2>1. Append(down, Head(down)) \in Seq(MessagesOf(want)) \/ down = <<>>
      BY <1>1, HeadOfDown
    <2>2. down' \in Seq(MessagesOf(want))
      BY <1>12, <2>1, HeadOfDown DEF LoseMessage, RepeatMessage
    <2> QED BY <1>1, <1>12, <2>2 DEF LoseMessage, RepeatMessage, hostVars, LinkInv
  <1>13. CASE Reboot \/ PowerLoss \/ Settled \/ UNCHANGED linkVars
    BY <1>1, <1>13 DEF Reboot, PowerLoss, Settled, linkVars, hostVars, LinkInv
  <1> QED BY <1>5, <1>6, <1>7, <1>8, <1>9, <1>10, <1>11, <1>12, <1>13 DEF LinkNext

\* At the start nothing is on its way.
LEMMA LinkInvInit == LinkInit => IInv /\ LinkInv
  <1> SUFFICES ASSUME LinkInit PROVE LinkInv
    BY InitInv DEF LinkInit
  <1>1. <<>> \in Seq(MessagesOf(want)) /\ <<>> \in Seq(Reports)
    OBVIOUS
  <1> QED BY <1>1 DEF LinkInit, LinkInv

\* The device's invariant and the link's hold throughout.
LEMMA LinkInductive == LinkSpec => [](IInv /\ LinkInv)
  <1>1. (IInv /\ LinkInv) /\ [LinkNext]_linkVars => (IInv /\ LinkInv)'
    BY StepOfDevice, NextInv, LinkInvNext
  <1> QED BY <1>1, LinkInvInit, PTL DEF LinkSpec

\* Whatever the links lose and repeat and the host gives up, the device goes
\* through a behaviour of OtaManager: what is proved of its handlers holds here.
THEOREM DeviceIsManager == LinkSpec => Spec
  <1>1. LinkInit => Init
    BY DEF LinkInit
  <1>2. LinkInv /\ [LinkNext]_linkVars => [Next]_vars
    BY StepOfDevice
  <1> QED BY <1>1, <1>2, LinkInductive, PTL DEF LinkSpec, Spec

\* The device in the link, too, installs an update only as FirmwareUpdate lets it.
THEOREM LinkImplements == LinkSpec => ImplementsFirmwareUpdate
  BY DeviceIsManager, Implements

-----------------------------------------------------------------------------
(***************************************************************************)
(* What the device boots.                                                  *)
(***************************************************************************)

\* The steps of the link that are no arrivals install nothing and start no
\* transfer.
LEMMA OtherSteps ==
    ASSUME IInv, LinkInv, [LinkNext]_linkVars, ~ Arrive, ~ ArriveFailing
    PROVE  /\ flash'.active = flash.active /\ session' = session
           /\ status' = status \/ status' = "Idle"
  <1>1. CASE Restart
    <2>1. flash \in Flashes
      BY DEF IInv, TypeOK
    <2> QED BY <1>1, <2>1, AbortEffect DEF Restart, FlashPowerLoss
  <1>2. CASE UNCHANGED vars
    BY <1>2 DEF vars, manager
  <1>3. Restart \/ UNCHANGED vars
    BY DEF LinkNext, Reboot, PowerLoss, PowerLossInBegin, PowerLossInEnd, HostSends,
       HostHears, HostStartsOver, HostGivesUp, LoseMessage, RepeatMessage, LoseReport,
       Settled, linkVars
  <1> QED BY <1>1, <1>2, <1>3

\* An arrival is of one of the four kinds; its reports set out.
LEMMA ArrivalStep ==
    ASSUME IInv, LinkInv, Arrive \/ ArriveFailing
    PROVE  /\ Drops \/ Continues \/ Opens \/ InstallsIntact
           /\ up' = up \o reports' /\ reports' \in Seq(Reports)
           /\ want' = want /\ belief' = belief /\ mishaps' = mishaps
  <1>1. PICK message \in MessagesOf(want) : Handle(message) \/ HandleFailing(message)
    BY HeadOfDown DEF Arrive, ArriveFailing
  <1>2. Drops \/ Continues \/ Opens \/ InstallsIntact
    BY <1>1, ArrivalKinds
  <1>3. reports' \in Seq(Reports)
    <2>1. [Next]_vars
      BY <1>1, ArrivalIsNext
    <2> QED BY <2>1, NextInv DEF IInv, TypeOK
  <1> QED BY <1>2, <1>3 DEF Arrive, ArriveFailing, hostVars

\* What is verified is the image the transfer was announced as: no other has
\* its CRC32.
LEMMA StagedIsAnnounced ==
    ASSUME IInv, status = "Receiving", StagedIntact, NEW image \in HostImages,
           session = BegunFor(image)
    PROVE  Contains(flash.chunks, image)
  <1>1. expectedCrc32 = image.crc
    BY DEF IInv, SessionUnmixed, BegunFor
  <1> QED BY <1>1, LinkAssumption DEF StagedIntact

\* Every step keeps both.
LEMMA IntactNext ==
    ASSUME IInv, LinkInv, SessionFromHost, InstalledIntact, [LinkNext]_linkVars
    PROVE  SessionFromHost' /\ InstalledIntact'
  <1>1. CASE ~ Arrive /\ ~ ArriveFailing
    BY <1>1, OtherSteps DEF SessionFromHost, InstalledIntact, Contains, BegunFor
  <1>2. CASE Arrive \/ ArriveFailing
    <2>1. CASE Drops
      BY <2>1 DEF Drops, SessionFromHost, InstalledIntact, Contains
    <2>2. CASE Continues
      BY <2>2 DEF Continues, SessionFromHost, InstalledIntact, Contains, BegunFor
    <2>3. CASE Opens
      BY <2>3 DEF Opens, LinkInv, SessionFromHost, InstalledIntact, Contains, BegunFor
    <2>4. CASE InstallsIntact
      <3>1. PICK image \in HostImages : session = BegunFor(image)
        BY <2>4 DEF InstallsIntact, SessionFromHost
      <3>2. Contains(flash.chunks, image)
        BY <2>4, <3>1, StagedIsAnnounced DEF InstallsIntact
      <3>3. InstalledIntact'
        BY <2>4, <3>1, <3>2 DEF InstallsIntact, InstalledIntact, BegunFor, Contains
      <3> QED BY <2>4, <3>3 DEF InstallsIntact, SessionFromHost
    <2> QED BY <1>2, <2>1, <2>2, <2>3, <2>4, ArrivalStep
  <1> QED BY <1>1, <1>2

\* An image the device boots is, chunk for chunk, the image of the host's whose
\* OtaBegin opened the session, whatever is lost, comes twice or fails.
THEOREM InstallsIntactImages == LinkSpec => []InstalledIntact
  <1>1. LinkInit => SessionFromHost /\ InstalledIntact
    BY DEF LinkInit, Init, FactoryFlash, SessionFromHost, InstalledIntact
  <1>2. (IInv /\ LinkInv) /\ (SessionFromHost /\ InstalledIntact) /\ [LinkNext]_linkVars
            => (SessionFromHost /\ InstalledIntact)'
    BY IntactNext
  <1> QED BY <1>1, <1>2, LinkInductive, PTL DEF LinkSpec

-----------------------------------------------------------------------------
(***************************************************************************)
(* What the host believes.                                                 *)
(***************************************************************************)

\* A Preparing ahead of a report is ahead of all that set out later.
LEMMA PreparingStays ==
    ASSUME NEW n \in Nat, NEW m \in Nat, n <= m, PreparingBefore(n)
    PROVE  PreparingBefore(m)
  BY DEF PreparingBefore

\* More reports set out: those under way stay justified if what is installed
\* for them stays installed, and the new ones must be justified themselves.
LEMMA MoreReports ==
    ASSUME LinkInv, BeliefJustified, NEW new \in Seq(Reports), up' = up \o new,
           want' = want, belief' = belief, mishaps \subseteq mishaps',
           PreparingBefore(Len(up) + 1) /\ Installed(want) => Installed(want)',
           \A n \in Len(up) + 1 .. Len(up') :
               up'[n].status = "Rebooting" /\ PreparingBefore(n)' => Justified(n)'
    PROVE  BeliefJustified'
  <1>1. /\ Len(up) \in Nat /\ Len(up') \in Nat /\ Len(up) <= Len(up')
        /\ \A i \in 1 .. Len(up) : up'[i] = up[i]
    BY DEF LinkInv
  <1>2. ASSUME NEW n \in 0 .. Len(up), Justified(n), PreparingBefore(Len(up) + 1)
        PROVE  Justified(n)'
    BY <1>1, <1>2 DEF Justified
  <1>3. ASSUME NEW n \in 1 .. Len(up'), up'[n].status = "Rebooting", PreparingBefore(n)'
        PROVE  Justified(n)'
    <2>1. CASE n \in 1 .. Len(up)
      <3>1. PreparingBefore(n)
        <4>1. CASE \E i \in 1 .. n - 1 : up'[i].status = "Preparing"
          <5>1. PICK i \in 1 .. n - 1 : up'[i].status = "Preparing"
            BY <4>1
          <5>2. i \in 1 .. Len(up)
            BY <1>1, <2>1
          <5> QED BY <1>1, <5>1, <5>2 DEF PreparingBefore
        <4> QED BY <1>3, <4>1 DEF PreparingBefore
      <3>2. Justified(n)
        BY <1>1, <1>3, <2>1, <3>1 DEF BeliefJustified
      <3>3. PreparingBefore(Len(up) + 1)
        BY <1>1, <2>1, <3>1, PreparingStays
      <3> QED BY <1>2, <2>1, <3>2, <3>3
    <2>2. CASE n \notin 1 .. Len(up)
      <3>1. n \in Len(up) + 1 .. Len(up')
        BY <1>1, <1>3, <2>2
      <3> QED BY <1>3, <3>1
    <2> QED BY <2>1, <2>2
  <1>4. belief' = "done" => Justified(0)'
    BY <1>1, <1>2 DEF BeliefJustified, PreparingBefore
  <1> QED BY <1>3, <1>4 DEF BeliefJustified

\* The first report is gone, heard or lost: those behind it move up.
LEMMA OneReportLess ==
    ASSUME LinkInv, BeliefJustified, up # <<>>, up' = Tail(up), want' = want,
           flash' = flash, mishaps \subseteq mishaps',
           \A n \in 1 .. Len(up) : PreparingBefore(n)' => PreparingBefore(n + 1),
           belief' = "done" =>
               \/ Justified(1)
               \/ Justified(0) /\ (Head(up).status = "Error" => mishaps' # {})
    PROVE  BeliefJustified'
  <1>1. /\ Len(up) \in Nat \ {0} /\ Len(up') = Len(up) - 1 /\ Head(up) = up[1]
        /\ \A i \in 1 .. Len(up') : up'[i] = up[i + 1]
    BY DEF LinkInv
  <1>2. Installed(want)' = Installed(want)
    BY DEF Installed, Contains
  <1>3. ASSUME NEW n \in Nat, Justified(n + 1)
        PROVE  Justified(n)'
    <2>1. CASE \E i \in n + 2 .. Len(up) : up[i].status = "Error"
      <3>1. PICK i \in n + 2 .. Len(up) : up[i].status = "Error"
        BY <2>1
      <3>2. i - 1 \in n + 1 .. Len(up') /\ up'[i - 1] = up[i]
        BY <1>1, <3>1
      <3> QED BY <3>1, <3>2 DEF Justified
    <2> QED BY <1>2, <1>3, <2>1 DEF Justified
  <1>4. ASSUME NEW n \in 1 .. Len(up'), up'[n].status = "Rebooting", PreparingBefore(n)'
        PROVE  Justified(n)'
    <2>1. n + 1 \in 1 .. Len(up) /\ up[n + 1].status = "Rebooting" /\ PreparingBefore(n + 1)
      BY <1>1, <1>4
    <2> QED BY <1>3, <2>1 DEF BeliefJustified
  <1>5. ASSUME Justified(0), Head(up).status = "Error" => mishaps' # {}
        PROVE  Justified(0)'
    <2>1. CASE \E i \in 1 .. Len(up) : up[i].status = "Error"
      <3>1. PICK i \in 1 .. Len(up) : up[i].status = "Error"
        BY <2>1
      <3>2. CASE i = 1
        <4>1. mishaps' # {}
          BY <1>1, <1>5, <3>1, <3>2
        <4> QED BY <4>1 DEF Justified
      <3>3. CASE i # 1
        <4>1. i - 1 \in 0 + 1 .. Len(up') /\ up'[i - 1].status = "Error"
          BY <1>1, <3>1, <3>3
        <4> QED BY <4>1 DEF Justified
      <3> QED BY <3>2, <3>3
    <2> QED BY <1>2, <1>5, <2>1 DEF Justified
  <1>6. belief' = "done" => Justified(0)'
    BY <1>3, <1>5
  <1> QED BY <1>4, <1>6 DEF BeliefJustified

\* The arrival of a message.
LEMMA ArrivalJustified ==
    ASSUME IInv, LinkInv, TransferIsWanted, BeliefJustified, Arrive \/ ArriveFailing
    PROVE  TransferIsWanted' /\ BeliefJustified'
  <1>1. /\ Drops \/ Continues \/ Opens \/ InstallsIntact
        /\ up' = up \o reports' /\ reports' \in Seq(Reports)
        /\ want' = want /\ belief' = belief /\ mishaps' = mishaps
    BY ArrivalStep
  <1>2. /\ Len(up) \in Nat /\ Len(reports') \in Nat /\ Len(up') = Len(up) + Len(reports')
        /\ \A i \in 1 .. Len(up) : up'[i] = up[i]
        /\ \A i \in 1 .. Len(reports') : up'[Len(up) + i] = reports'[i]
    BY <1>1 DEF LinkInv
  <1>3. ASSUME \A n \in 1 .. Len(reports') : reports'[n].status # "Preparing",
               NEW k \in 1 .. Len(up') + 1, PreparingBefore(k)'
        PROVE  PreparingBefore(Len(up) + 1)
    <2>1. CASE \E i \in 1 .. k - 1 : up'[i].status = "Preparing"
      <3>1. PICK i \in 1 .. k - 1 : up'[i].status = "Preparing"
        BY <2>1
      <3>2. i \in 1 .. Len(up)
        <4>1. CASE i \notin 1 .. Len(up)
          <5>1. i - Len(up) \in 1 .. Len(reports') /\ i = Len(up) + (i - Len(up))
            BY <1>2, <1>3, <4>1
          <5> QED BY <1>2, <1>3, <3>1, <5>1
        <4> QED BY <4>1
      <3> QED BY <1>2, <3>1, <3>2 DEF PreparingBefore
    <2> QED BY <1>1, <1>3, <2>1 DEF PreparingBefore
  <1>4. CASE Drops \/ Opens
    <2>1. Installed(want)' = Installed(want)
      BY <1>1, <1>4 DEF Drops, Opens, Installed, Contains
    <2>2. ASSUME NEW n \in Len(up) + 1 .. Len(up'), up'[n].status = "Rebooting"
          PROVE  Justified(n)'
      <3>1. /\ n - Len(up) \in 1 .. Len(reports')
            /\ reports'[n - Len(up)].status = "Rebooting"
        <4>1. n - Len(up) \in 1 .. Len(reports') /\ n = Len(up) + (n - Len(up))
          BY <1>2, <2>2
        <4> QED BY <1>2, <2>2, <4>1
      <3>2. PICK m \in n - Len(up) + 1 .. Len(reports') : reports'[m].status = "Error"
        BY <1>4, <3>1 DEF Drops, Opens, TakesBack
      <3>3. Len(up) + m \in n + 1 .. Len(up') /\ up'[Len(up) + m].status = "Error"
        BY <1>2, <2>2, <3>1, <3>2
      <3> QED BY <3>3 DEF Justified
    <2>3. BeliefJustified'
      BY <1>1, <2>1, <2>2, MoreReports
    <2>4. TransferIsWanted'
      BY <1>1, <1>4 DEF Drops, Opens, TransferIsWanted, BegunFor
    <2> QED BY <2>3, <2>4
  <1>5. CASE Continues
    <2>1. Installed(want)' = Installed(want)
      BY <1>1, <1>5 DEF Continues, Installed, Contains
    <2>2. \A n \in 1 .. Len(reports') : reports'[n].status \notin {"Preparing", "Rebooting"}
      BY <1>5 DEF Continues
    <2>3. ASSUME NEW n \in Len(up) + 1 .. Len(up')
          PROVE  up'[n].status # "Rebooting"
      <3>1. n - Len(up) \in 1 .. Len(reports') /\ n = Len(up) + (n - Len(up))
        BY <1>2, <2>3
      <3> QED BY <1>2, <2>2, <3>1
    <2>4. BeliefJustified'
      BY <1>1, <2>1, <2>3, MoreReports
    <2>5. PreparingBefore(Len(up) + 1)' => PreparingBefore(Len(up) + 1)
      <3>1. PICK k \in 1 .. Len(up') + 1 : k = Len(up') + 1
        BY <1>2
      <3>2. PreparingBefore(Len(up) + 1)' => PreparingBefore(k)'
        BY <3>1
      <3> QED BY <1>3, <2>2, <3>2
    <2>6. TransferIsWanted'
      <3>1. BegunFor(want)' = BegunFor(want)
        BY <1>1
      <3> QED BY <1>5, <2>5, <3>1 DEF Continues, TransferIsWanted
    <2> QED BY <2>4, <2>6
  <1>6. CASE InstallsIntact
    <2>1. PreparingBefore(Len(up) + 1) => Installed(want)'
      <3> SUFFICES ASSUME PreparingBefore(Len(up) + 1) PROVE Installed(want)'
        OBVIOUS
      <3>1. session = BegunFor(want)
        BY <1>6 DEF InstallsIntact, TransferIsWanted
      <3>2. Contains(flash.chunks, want)
        BY <1>6, <3>1, StagedIsAnnounced DEF InstallsIntact, LinkInv
      <3> QED BY <1>1, <1>6, <3>2 DEF InstallsIntact, Installed, Contains
    <2>2. ASSUME NEW n \in Len(up) + 1 .. Len(up'), PreparingBefore(n)'
          PROVE  Justified(n)'
      <3>1. n \in 1 .. Len(up') + 1
        BY <1>2, <2>2
      <3>2. \A k \in 1 .. Len(reports') : reports'[k].status # "Preparing"
        BY <1>6 DEF InstallsIntact
      <3>3. Installed(want)'
        BY <1>3, <2>1, <2>2, <3>1, <3>2
      <3> QED BY <3>3 DEF Justified
    <2>3. BeliefJustified'
      BY <1>1, <2>1, <2>2, MoreReports
    <2>4. TransferIsWanted'
      BY <1>6 DEF InstallsIntact, TransferIsWanted
    <2> QED BY <2>3, <2>4
  <1> QED BY <1>1, <1>4, <1>5, <1>6

\* The power is lost inside a handler: no transfer goes on, and a Rebooting that
\* has set out is a mishap.
LEMMA PowerLossJustified ==
    ASSUME IInv, LinkInv, TransferIsWanted, BeliefJustified,
           PowerLossInBegin \/ PowerLossInEnd
    PROVE  TransferIsWanted' /\ BeliefJustified'
  <1>1. /\ status' = "Idle" /\ want' = want /\ belief' = belief
        /\ mishaps \subseteq mishaps'
    BY DEF PowerLossInBegin, PowerLossInEnd, Restart, hostVars
  <1>2. Installed(want)' = Installed(want)
    <2>1. flash'.active = flash.active
      BY AbortEffect DEF PowerLossInBegin, PowerLossInEnd, Restart, FlashPowerLoss, IInv,
         TypeOK
    <2> QED BY <1>1, <2>1 DEF Installed, Contains
  <1>3. TransferIsWanted'
    BY <1>1 DEF TransferIsWanted
  <1>4. ASSUME NEW r \in Reports, r.status # "Rebooting", up' = Append(up, r)
        PROVE  BeliefJustified'
    <2>1. up' = up \o <<r>> /\ <<r>> \in Seq(Reports)
      BY <1>4 DEF LinkInv
    <2>2. ASSUME NEW n \in Len(up) + 1 .. Len(up')
          PROVE  up'[n].status # "Rebooting"
      <3>1. n = Len(up) + 1 /\ up'[n] = r
        BY <1>4, <2>2 DEF LinkInv
      <3> QED BY <1>4, <3>1
    <2> QED BY <1>1, <1>2, <2>1, <2>2, MoreReports
  <1>5. CASE PowerLossInBegin
    <2> DEFINE r == Report("Preparing", 0, Head(down).total)
    <2>1. Head(down).total \in Totals
      BY <1>5, HeadOfDown, MessageFields, HostImageType DEF PowerLossInBegin, LinkInv
    <2>2. r \in Reports /\ r.status = "Preparing"
      BY <2>1, ReportType, ZeroType DEF Statuses
    <2>3. up' = Append(up, r)
      BY <1>5 DEF PowerLossInBegin
    <2> HIDE DEF r
    <2> QED BY <1>3, <1>4, <2>2, <2>3
  <1>6. /\ Progress("Verifying") \in Reports /\ Progress("Applying") \in Reports
        /\ Progress("Rebooting") \in Reports
        /\ Progress("Verifying").status = "Verifying"
    BY ProgressType DEF Statuses
  <1>7. CASE up' = Append(up, Progress("Verifying"))
    BY <1>3, <1>4, <1>6, <1>7
  <1>8. CASE mishaps' # {} /\ up' = up \o ReportsBeforeActivate
    <2>1. ReportsBeforeActivate \in Seq(Reports)
      BY <1>6 DEF ReportsBeforeActivate
    <2>2. \A n \in Len(up) + 1 .. Len(up') : Justified(n)'
      BY <1>8 DEF Justified
    <2> QED BY <1>1, <1>2, <1>3, <1>8, <2>1, <2>2, MoreReports
  <1>9. CASE PowerLossInEnd
    <2>1. \/ up' = Append(up, Progress("Verifying"))
          \/ mishaps' # {} /\ up' = up \o ReportsBeforeActivate
      BY <1>9 DEF PowerLossInEnd
    <2> QED BY <1>7, <1>8, <2>1
  <1> QED BY <1>3, <1>5, <1>9

\* A report is heard or lost.
LEMMA ReportTaken ==
    ASSUME LinkInv, TransferIsWanted, BeliefJustified, HostHears \/ LoseReport
    PROVE  TransferIsWanted' /\ BeliefJustified'
  <1>1. /\ up # <<>> /\ up' = Tail(up) /\ want' = want
        /\ status' = status /\ session' = session /\ flash' = flash
        /\ mishaps \subseteq mishaps'
    BY DEF HostHears, LoseReport, vars, hostVars
  <1>2. /\ Len(up) \in Nat \ {0} /\ Len(up') = Len(up) - 1 /\ Head(up) = up[1]
        /\ \A i \in 1 .. Len(up') : up'[i] = up[i + 1]
    BY <1>1 DEF LinkInv
  <1>3. \/ belief' = belief
        \/ belief' = "failed"
        \/ belief' = "begun" /\ up[1].status = "Preparing"
        \/ belief' = "done" /\ belief = "begun" /\ up[1].status = "Rebooting"
    BY <1>2 DEF HostHears, LoseReport, Believe, hostVars
  <1>4. ASSUME NEW n \in 1 .. Len(up), PreparingBefore(n)'
        PROVE  PreparingBefore(n + 1)
    <2>1. CASE \E i \in 1 .. n - 1 : up'[i].status = "Preparing"
      <3>1. PICK i \in 1 .. n - 1 : up'[i].status = "Preparing"
        BY <2>1
      <3>2. i + 1 \in 1 .. (n + 1) - 1 /\ up[i + 1].status = "Preparing"
        BY <1>2, <1>4, <3>1
      <3> QED BY <3>2 DEF PreparingBefore
    <2>2. CASE belief' \in {"begun", "done"}
      <3>1. CASE up[1].status = "Preparing"
        <4>1. 1 \in 1 .. (n + 1) - 1
          BY <1>4
        <4> QED BY <3>1, <4>1 DEF PreparingBefore
      <3> QED BY <1>3, <2>2, <3>1 DEF PreparingBefore
    <2> QED BY <1>4, <2>1, <2>2 DEF PreparingBefore
  <1>5. TransferIsWanted'
    <2>1. PreparingBefore(Len(up) + 1)' => PreparingBefore(Len(up) + 1)
      <3>1. PICK n \in 1 .. Len(up) : n = Len(up)
        BY <1>2
      <3>2. PreparingBefore(Len(up) + 1)' => PreparingBefore(n)'
        BY <1>2, <3>1
      <3> QED BY <1>2, <1>4, <3>1, <3>2
    <2>2. BegunFor(want)' = BegunFor(want)
      BY <1>1
    <2> QED BY <1>1, <2>1, <2>2 DEF TransferIsWanted
  <1>6. belief' = "done" =>
            \/ Justified(1)
            \/ Justified(0) /\ (Head(up).status = "Error" => mishaps' # {})
    <2>1. CASE belief' = "done" /\ belief = "begun" /\ up[1].status = "Rebooting"
      BY <1>2, <2>1 DEF BeliefJustified, PreparingBefore
    <2>2. CASE belief' = "done" /\ belief = "done"
      <3>1. Justified(0)
        BY <2>2 DEF BeliefJustified
      <3>2. Head(up).status = "Error" => mishaps' # {}
        BY <2>2 DEF HostHears, LoseReport, Believe
      <3> QED BY <3>1, <3>2
    <2> QED BY <1>3, <2>1, <2>2
  <1>7. BeliefJustified'
    BY <1>1, <1>4, <1>6, OneReportLess
  <1> QED BY <1>5, <1>7

\* Every step keeps both.
LEMMA BeliefNext ==
    ASSUME IInv, LinkInv, TransferIsWanted, BeliefJustified, [LinkNext]_linkVars
    PROVE  TransferIsWanted' /\ BeliefJustified'
  <1>1. CASE Arrive \/ ArriveFailing
    BY <1>1, ArrivalJustified
  <1>2. CASE PowerLossInBegin \/ PowerLossInEnd
    BY <1>2, PowerLossJustified
  <1>3. CASE HostHears \/ LoseReport
    BY <1>3, ReportTaken
  <1>4. CASE HostStartsOver
    <2>1. up' = <<>> /\ belief' = "waiting"
      BY <1>4 DEF HostStartsOver, Quiet
    <2> QED BY <2>1 DEF TransferIsWanted, BeliefJustified, PreparingBefore
  <1>5. CASE HostGivesUp
    <2>1. /\ up' = up /\ want' = want /\ belief' = "failed" /\ mishaps' = mishaps
          /\ flash' = flash /\ status' = status /\ session' = session
      BY <1>5 DEF HostGivesUp, vars
    <2> QED BY <2>1 DEF TransferIsWanted, BeliefJustified, PreparingBefore, Justified,
            Installed, Contains, BegunFor
  <1>6. CASE Reboot \/ PowerLoss
    <2>1. /\ up' = up /\ want' = want /\ belief' = belief /\ mishaps' = mishaps
          /\ status' = "Idle"
      BY <1>6 DEF Reboot, PowerLoss, Restart, hostVars
    <2>2. flash'.active = flash.active
      BY <1>6, AbortEffect DEF Reboot, PowerLoss, Restart, FlashPowerLoss, IInv, TypeOK
    <2> QED BY <2>1, <2>2 DEF TransferIsWanted, BeliefJustified, PreparingBefore, Justified,
            Installed, Contains
  <1>7. CASE HostSends \/ LoseMessage \/ RepeatMessage \/ Settled \/ UNCHANGED linkVars
    <2>1. /\ up' = up /\ want' = want /\ belief' = belief /\ mishaps' = mishaps
          /\ flash' = flash /\ status' = status /\ session' = session
      BY <1>7 DEF HostSends, LoseMessage, RepeatMessage, Settled, linkVars, hostVars, vars
    <2> QED BY <2>1 DEF TransferIsWanted, BeliefJustified, PreparingBefore, Justified,
            Installed, Contains, BegunFor
  <1> QED BY <1>1, <1>2, <1>3, <1>4, <1>5, <1>6, <1>7 DEF LinkNext

\* A host that believes its update done is right, or an Error that says so is on
\* its way, or an Error report or the power before activate was lost.
THEOREM HostIsNotMisled == LinkSpec => []HostNotMisled
  <1>1. LinkInit => TransferIsWanted /\ BeliefJustified
    BY DEF LinkInit, Init, TransferIsWanted, BeliefJustified
  <1>2. (IInv /\ LinkInv) /\ (TransferIsWanted /\ BeliefJustified) /\ [LinkNext]_linkVars
            => (TransferIsWanted /\ BeliefJustified)'
    BY BeliefNext
  <1>3. BeliefJustified => HostNotMisled
    BY DEF BeliefJustified, Justified, HostNotMisled
  <1> QED BY <1>1, <1>2, <1>3, LinkInductive, PTL DEF LinkSpec
=============================================================================
