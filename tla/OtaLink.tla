------------------------------ MODULE OtaLink ------------------------------
(***************************************************************************)
(* A firmware update from end to end: a host, the link to the device, the  *)
(* handlers of OtaManager behind OtaEndpoint, and the link that carries    *)
(* the progress reports back.                                              *)
(*                                                                         *)
(* Either link may lose what it carries.  The one to the device may also   *)
(* deliver a message a second time, late: a sender whose Send returned     *)
(* false sends again what has already arrived, and nobody looks at         *)
(* sequence numbers.                                                       *)
(*                                                                         *)
(* The host is not in the repository.  It is modelled as what the messages *)
(* and reports leave it to do: it announces an image, sends its chunks in  *)
(* order and then OtaEnd, does not wait for the reports meanwhile, and     *)
(* starts over when it was told Error or nothing more is coming.  It may   *)
(* also give an update up, with OtaAbort or without a word.                *)
(***************************************************************************)
EXTENDS OtaManager

CONSTANTS
    HostImages,   \* what the host may want installed: [size, crc, total, data]
    Window,       \* bound: messages on their way to the device
    MaxFaults     \* bound: losses, repetitions, failures, power losses, changes of mind

ASSUME LinkAssumption ==
    /\ HostImages \subseteq [size : Sizes, crc : Crcs, total : Totals, data : Payloads]
    /\ \A a, b \in HostImages : a.crc = b.crc => a = b
    /\ Window \in Nat \ {0} /\ MaxFaults \in Nat

VARIABLES
    want,      \* the image the host wants installed
    step,      \* how many messages of the update the host has sent
    belief,    \* what it makes of the reports: see Believe
    down, up,  \* the messages and the reports on their way
    faults,
    mishaps    \* history: what went wrong in this attempt that nobody reports

hostVars == <<want, step, belief>>
linkVars == <<vars, hostVars, down, up, faults, mishaps>>

-----------------------------------------------------------------------------
(***************************************************************************)
(* The messages, as the builders of src/ota_endpoint.cpp make them.  None  *)
(* but OtaBegin says which image it belongs to.                            *)
(***************************************************************************)
OtaBegin(image) == [type |-> "OtaBegin", size |-> image.size, crc |-> image.crc,
                    total |-> image.total]
OtaData(index, data) == [type |-> "OtaData", index |-> index, data |-> data]
OtaEnd == [type |-> "OtaEnd"]
OtaAbort == [type |-> "OtaAbort"]

\* The n-th message of an update, counted from 0, and how many there are.
UpdateMessage(image, n) ==
    CASE n = 0           -> OtaBegin(image)
      [] n > image.total -> OtaEnd
      [] OTHER           -> OtaData(n - 1, image.data)

UpdateLength(image) == image.total + 2

-----------------------------------------------------------------------------
(***************************************************************************)
(* The device.                                                             *)
(***************************************************************************)
\* The chunks are those of the image, all of them.
Contains(chunks, image) ==
    /\ Len(chunks) = image.total
    /\ \A i \in 1 .. Len(chunks) : chunks[i].index = i - 1 /\ chunks[i].data = image.data

\* The staged image has the CRC32 the flash writer compares it with.
StagedIntact ==
    \E image \in HostImages :
        image.crc = expectedCrc32 /\ Contains(flash.chunks, image)

\* The handler OtaEndpoint calls for a message, on hardware that works...
Handle(message) ==
    \/ /\ message.type = "OtaBegin"
       /\ HandleBegin(message.size, message.crc, message.total, TRUE)
    \/ /\ message.type = "OtaData"
       /\ HandleData(message.index, message.data, TRUE)
    \/ /\ message.type = "OtaEnd"
       /\ HandleEnd(TRUE, StagedIntact, TRUE)
    \/ /\ message.type = "OtaAbort"
       /\ HandleAbort

\* ... and with one call of the flash writer failing.
HandleFailing(message) ==
    \/ /\ message.type = "OtaBegin"
       /\ HandleBegin(message.size, message.crc, message.total, FALSE)
    \/ /\ message.type = "OtaData"
       /\ HandleData(message.index, message.data, FALSE)
    \/ /\ message.type = "OtaEnd"
       /\ \/ HandleEnd(FALSE, StagedIntact, TRUE)
          \/ HandleEnd(TRUE, FALSE, TRUE)
          \/ HandleEnd(TRUE, StagedIntact, FALSE)

\* A message arrives; the reports of its handler set out.
Arrive ==
    /\ down # <<>>
    /\ Handle(Head(down))
    /\ down' = Tail(down)
    /\ up' = up \o reports'
    /\ UNCHANGED <<hostVars, faults, mishaps>>

MayFault == faults < MaxFaults /\ faults' = faults + 1

ArriveFailing ==
    /\ MayFault
    /\ down # <<>>
    /\ HandleFailing(Head(down))
    /\ down' = Tail(down)
    /\ up' = up \o reports'
    /\ UNCHANGED <<hostVars, mishaps>>

\* The device boots what it has activated.
Reboot ==
    /\ status = "Rebooting"
    /\ Restart
    /\ UNCHANGED <<hostVars, down, up, faults, mishaps>>

PowerLoss ==
    /\ MayFault
    /\ Restart
    /\ UNCHANGED <<hostVars, down, up, mishaps>>

\* The power is lost inside a handler: the reports it had sent by then are on
\* their way, what it would have done next is not done.
ReportsBeforeActivate == <<Progress("Verifying"), Progress("Applying"), Progress("Rebooting")>>

PowerLossInBegin ==
    /\ MayFault
    /\ down # <<>> /\ Head(down).type = "OtaBegin" /\ SizeAccepted(Head(down).size)
    /\ down' = Tail(down)
    /\ up' = Append(up, Report("Preparing", 0, Head(down).total))
    /\ Restart
    /\ UNCHANGED <<hostVars, mishaps>>

PowerLossInEnd ==
    /\ MayFault
    /\ down # <<>> /\ Head(down) = OtaEnd
    /\ status = "Receiving" /\ CountMatches
    /\ down' = Tail(down)
    /\ \/ /\ up' = Append(up, Progress("Verifying"))
          /\ UNCHANGED mishaps
       \/ /\ StagedIntact
          /\ up' = up \o ReportsBeforeActivate
          /\ mishaps' = mishaps \cup {"power lost before activate"}
    /\ Restart
    /\ UNCHANGED hostVars

-----------------------------------------------------------------------------
(***************************************************************************)
(* The host.                                                               *)
(***************************************************************************)
Quiet == down = <<>> /\ up = <<>>

\* A report changes what the host believes.  It takes Rebooting for the end of
\* its own update only if that update's Preparing came before it.
Believe(report) ==
    CASE report.status = "Error"                            -> "failed"
      [] report.status = "Preparing"                        -> "begun"
      [] report.status = "Rebooting" /\ belief = "begun"    -> "done"
      [] OTHER                                              -> belief

HostSends ==
    /\ step < UpdateLength(want) /\ belief # "failed"
    /\ Len(down) < Window
    /\ down' = Append(down, UpdateMessage(want, step))
    /\ step' = step + 1
    /\ UNCHANGED <<vars, want, belief, up, faults, mishaps>>

HostHears ==
    /\ up # <<>>
    /\ up' = Tail(up)
    /\ belief' = Believe(Head(up))
    /\ UNCHANGED <<vars, want, step, down, faults, mishaps>>

\* The update has failed, or nothing more is heard of it, and nothing of it is
\* on its way any more: the host starts over, perhaps with another image.
HostStartsOver ==
    /\ Quiet /\ belief # "done"
    /\ belief = "failed" \/ step = UpdateLength(want)
    /\ want' \in HostImages
    /\ step' = 0
    /\ belief' = "waiting"
    /\ mishaps' = {}
    /\ UNCHANGED <<vars, down, up, faults>>

\* The host gives the update up: it sends OtaAbort, or it disappears.
HostGivesUp ==
    /\ MayFault
    /\ belief \in {"waiting", "begun"}
    /\ down' \in {down, Append(down, OtaAbort)}
    /\ belief' = "failed"
    /\ UNCHANGED <<vars, want, step, up, mishaps>>

-----------------------------------------------------------------------------
(***************************************************************************)
(* The links.                                                              *)
(***************************************************************************)
LoseMessage ==
    /\ MayFault
    /\ down # <<>>
    /\ down' = Tail(down)
    /\ UNCHANGED <<vars, hostVars, up, mishaps>>

\* A copy of the next message will come behind what has been sent by now.
RepeatMessage ==
    /\ MayFault
    /\ down # <<>>
    /\ down' = Append(down, Head(down))
    /\ UNCHANGED <<vars, hostVars, up, mishaps>>

LoseReport ==
    /\ MayFault
    /\ up # <<>>
    /\ up' = Tail(up)
    /\ mishaps' = IF Head(up).status = "Error" THEN mishaps \cup {"Error lost"} ELSE mishaps
    /\ UNCHANGED <<vars, hostVars, down>>

-----------------------------------------------------------------------------
LinkInit ==
    /\ Init
    /\ want \in HostImages
    /\ step = 0
    /\ belief = "waiting"
    /\ down = <<>> /\ up = <<>>
    /\ faults = 0
    /\ mishaps = {}

\* The host has what it wants to hear, and nothing is on its way.
Settled == belief = "done" /\ Quiet /\ UNCHANGED linkVars

LinkNext ==
    \/ HostSends \/ HostHears \/ HostStartsOver \/ HostGivesUp
    \/ Arrive \/ ArriveFailing
    \/ Reboot \/ PowerLoss \/ PowerLossInBegin \/ PowerLossInEnd
    \/ LoseMessage \/ RepeatMessage \/ LoseReport
    \/ Settled

\* The host goes on, and what neither link loses arrives.  No fault has to happen.
LinkFairness ==
    /\ WF_linkVars(HostSends) /\ WF_linkVars(HostHears) /\ WF_linkVars(HostStartsOver)
    /\ WF_linkVars(Arrive)

LinkSpec == LinkInit /\ [][LinkNext]_linkVars /\ LinkFairness

-----------------------------------------------------------------------------
(***************************************************************************)
(* Properties.                                                             *)
(***************************************************************************)

\* Whatever is lost, comes twice or fails, and though no chunk says which image
\* it is of: an image the device boots is, chunk for chunk, the image of the
\* host's whose OtaBegin opened the session.
InstalledIntact ==
    \A installed \in flash.active : \E image \in HostImages :
        /\ installed.begun = [size |-> image.size, crc |-> image.crc, total |-> image.total]
        /\ Contains(installed.chunks, image)

Installed(image) == \E installed \in flash.active : Contains(installed.chunks, image)

\* A host that believes its update done is right, or about to learn better.  It
\* is misled for good only by the loss of an Error report, or of the power
\* between the Rebooting report and activate, which nothing reports.
HostNotMisled ==
    belief = "done" =>
        \/ Installed(want)
        \/ \E i \in 1 .. Len(up) : up[i].status = "Error"
        \/ mishaps # {}

\* However an update was cut off, and whatever the device was left in by it, a
\* host that tries again comes through: OtaBegin is accepted in every status.
HostSettles == <>[](belief = "done" /\ Quiet)
=============================================================================
