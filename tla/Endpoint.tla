------------------------------ MODULE Endpoint ------------------------------
(***************************************************************************)
(* The receiving side of MidiEndpoint, PwmEndpoint, OtaEndpoint and        *)
(* LogEndpoint (src/*_endpoint.cpp): HandleIncoming, HandleFrame and the   *)
(* messages the builders make.  The four classes have the same structure   *)
(* and differ in the schema, so an endpoint is named by its schema.        *)
(*                                                                         *)
(* A payload is an envelope: the schema whose identifier it carries, the   *)
(* tag of the union in it (a number: every schema counts from 1, and 0     *)
(* means no message), whether the tagged table is there, and whether the   *)
(* whole passes FlatBuffers verification.  What the tables contain is the  *)
(* handlers' business.                                                     *)
(***************************************************************************)
EXTENDS Integers, Sequences, FiniteSetsExt

Schemas == {"midi", "pwm", "ota", "log"}

\* The unions, in the order of their tags.
MidiUnion == <<"Ping", "ChannelMessage", "SystemCommonMessage", "SystemRealTimeMessage",
               "SystemExclusiveMessage">>
PwmUnion == <<"ChannelConfig", "BatchConfig", "BatchTelemetry", "FaultLog",
              "FaultControlCommand", "HeartBeat", "Response">>
OtaUnion == <<"OtaBegin", "OtaData", "OtaEnd", "OtaProgress", "OtaAbort">>
LogUnion == <<"LogForward">>

Union(e) == CASE e = "midi" -> MidiUnion [] e = "pwm" -> PwmUnion
              [] e = "ota" -> OtaUnion [] e = "log" -> LogUnion

\* The types each HandleFrame has a case for.
MidiCases == {"Ping", "ChannelMessage", "SystemCommonMessage", "SystemRealTimeMessage",
              "SystemExclusiveMessage"}

\* Mutant: a case is forgotten.
PwmCasesNoResponse == {"BatchTelemetry", "ChannelConfig", "BatchConfig", "FaultLog",
                       "FaultControlCommand", "HeartBeat"}

PwmCases == {"BatchTelemetry", "ChannelConfig", "BatchConfig", "FaultLog",
             "FaultControlCommand", "HeartBeat", "Response"}
OtaCases == {"OtaBegin", "OtaData", "OtaEnd", "OtaProgress", "OtaAbort"}
LogCases == {"LogForward"}

Cases(e) == CASE e = "midi" -> MidiCases [] e = "pwm" -> PwmCases
              [] e = "ota" -> OtaCases [] e = "log" -> LogCases

\* The types the builders of each endpoint make.
MidiBuilt == {"Ping", "ChannelMessage", "SystemCommonMessage", "SystemRealTimeMessage",
              "SystemExclusiveMessage"}
PwmBuilt == {"BatchTelemetry", "ChannelConfig", "BatchConfig", "FaultLog",
             "FaultControlCommand", "HeartBeat", "Response"}
OtaBuilt == {"OtaBegin", "OtaData", "OtaEnd", "OtaProgress", "OtaAbort"}
LogBuilt == {"LogForward"}

BuiltTypes(e) == CASE e = "midi" -> MidiBuilt [] e = "pwm" -> PwmBuilt
                   [] e = "ota" -> OtaBuilt [] e = "log" -> LogBuilt

Envelopes == [identifier : Schemas \cup {"none"}, tag : Nat, body : BOOLEAN, sound : BOOLEAN]

\* The envelope a builder returns: Finish writes the endpoint's identifier.
Built(e, type) ==
    [identifier |-> e, tag |-> CHOOSE n \in DOMAIN Union(e) : Union(e)[n] = type,
     body |-> TRUE, sound |-> TRUE]

BuiltEnvelopes == UNION {{Built(e, type) : type \in BuiltTypes(e)} : e \in Schemas}

\* Mutant: the identifier is not looked at.
HasIdentifierAny(e, envelope) == TRUE

HasIdentifier(e, envelope) == envelope.identifier = e

TypeOf(e, envelope) ==
    IF envelope.tag \in DOMAIN Union(e) THEN Union(e)[envelope.tag] ELSE "NONE"

HasCase(e, envelope) == TypeOf(e, envelope) \in Cases(e)

\* HandleFrame returns true: the envelope is sound, the endpoint's own, and its
\* type has a case.  Whether there is a table, or a handler, makes no difference.
HandleFrame(e, envelope) ==
    /\ HasIdentifier(e, envelope)
    /\ envelope.sound
    /\ HasCase(e, envelope)

\* Mutant: the delegate is called without asking whether it is set.
CallsHandlerUnasked(e, envelope, handlers) == HandleFrame(e, envelope) /\ envelope.body

\* HandleFrame calls the handler of the type: it is registered, and there is a
\* table to pass to it.
CallsHandler(e, envelope, handlers) ==
    /\ HandleFrame(e, envelope)
    /\ envelope.body
    /\ <<e, TypeOf(e, envelope)>> \in handlers

\* HandleIncoming: a damaged frame does not get as far as HandleFrame.
HandleIncoming(e, frame) == frame.intact /\ HandleFrame(e, frame.envelope)
=============================================================================
