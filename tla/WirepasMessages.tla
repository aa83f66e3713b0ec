--------------------------- MODULE WirepasMessages ---------------------------
(***************************************************************************)
(* The bindings of the Wirepas gateway API (protobuf/ts): how messages are *)
(* put on the wire and read from it.                                       *)
(*                                                                         *)
(* The bindings are one class for each type of message, of which all but   *)
(* the fields is the same.  So a class is modelled by its table of fields, *)
(* and create, internalBinaryRead and internalBinaryWrite are stated once, *)
(* for a table.                                                            *)
(*                                                                         *)
(* A message has for every field of its type a sequence of values: one for *)
(* a plain field, none or one for an optional field or a submessage, any   *)
(* number for a repeated field; and the elements it does not know.  A wire *)
(* is a sequence of elements <<n, content>>: the number of a field, and    *)
(* the wire of a submessage or a sequence of scalars.  There are two       *)
(* scalars, the default of its type (zero or empty) and any other.         *)
(***************************************************************************)
EXTENDS Naturals, SequencesExt

CONSTANTS
    Default, Other, \* the scalars
    Type,           \* the types of messages that are put on a wire
    MaxFields,      \* bound: elements a peer writes
    MaxRelays,      \* bound: how often the message is relayed
    Depth           \* bound: levels of submessages that are not empty

-----------------------------------------------------------------------------
(* The fields of each type.                                                *)

\* A table lists the fields in the order of their numbers, 1 to its length.
Plain(name) == [name |-> name, kind |-> "plain", of |-> "scalar"]
Optional(name) == [name |-> name, kind |-> "optional", of |-> "scalar"]
Every(name) == [name |-> name, kind |-> "repeated", of |-> "scalar"]
One(name, type) == [name |-> name, kind |-> "message", of |-> type]
Each(name, type) == [name |-> name, kind |-> "repeated", of |-> type]

RequestHeader == <<Plain("reqId"), Optional("sinkId")>>

ResponseHeader ==
    <<Plain("reqId"), Plain("gwId"), Optional("sinkId"), Plain("res")>>

EventHeader == <<Plain("gwId"), Optional("sinkId"), Plain("eventId")>>

FirmwareVersion ==
    <<Plain("major"), Plain("minor"), Plain("maint"), Plain("dev")>>

SendPacketReq ==
    <<One("header", "RequestHeader"), Plain("destinationAddress"),
      Plain("sourceEndpoint"), Plain("destinationEndpoint"), Plain("qos"),
      Plain("payload"), Optional("initialDelayMs"), Optional("isUnackCsmaCa"),
      Optional("hopLimit")>>

SendPacketResp == <<One("header", "ResponseHeader")>>

PacketReceivedEvent ==
    <<One("header", "EventHeader"), Plain("sourceAddress"),
      Plain("destinationAddress"), Plain("sourceEndpoint"),
      Plain("destinationEndpoint"), Plain("travelTimeMs"),
      Plain("rxTimeMsEpoch"), Plain("qos"), Optional("payload"),
      Optional("payloadSize"), Optional("hopCount")>>

NodeRole == <<Plain("role"), Every("flags")>>

AccessCycleRange == <<Plain("minMs"), Plain("maxMs")>>

ChannelRange == <<Plain("minChannel"), Plain("maxChannel")>>

AppConfigData ==
    <<Plain("diagIntervalS"), Plain("appConfigData"), Plain("seq")>>

NetworkKeys == <<Plain("cipher"), Plain("authentication")>>

SinkReadConfig ==
    <<Plain("sinkId"), One("nodeRole", "NodeRole"), Optional("nodeAddress"),
      Optional("networkAddress"), Optional("networkChannel"),
      One("appConfig", "AppConfigData"), Optional("channelMap"),
      Optional("areKeysSet"), One("currentAcRange", "AccessCycleRange"),
      One("acLimits", "AccessCycleRange"), Optional("maxMtu"),
      One("channelLimits", "ChannelRange"), Optional("hwMagic"),
      Optional("stackProfile"), Optional("appConfigMaxSize"),
      One("firmwareVersion", "FirmwareVersion"), Optional("sinkState")>>

SinkNewConfig ==
    <<Plain("sinkId"), One("nodeRole", "NodeRole"), Optional("nodeAddress"),
      Optional("networkAddress"), Optional("networkChannel"),
      One("appConfig", "AppConfigData"), Optional("channelMap"),
      One("keys", "NetworkKeys"), One("currentAcRange", "AccessCycleRange"),
      Optional("sinkState")>>

GatewayInfo ==
    <<Plain("currentTimeSEpoch"), Optional("gwModel"), Optional("gwVersion"),
      Optional("implementedApiVersion")>>

StatusEvent ==
    <<One("header", "EventHeader"), Plain("version"), Plain("state")>>

GetConfigsReq == <<One("header", "RequestHeader")>>

GetConfigsResp ==
    <<One("header", "ResponseHeader"), Each("configs", "SinkReadConfig")>>

SetConfigReq ==
    <<One("header", "RequestHeader"), One("config", "SinkNewConfig")>>

SetConfigResp ==
    <<One("header", "ResponseHeader"), One("config", "SinkReadConfig")>>

GetGwInfoReq == <<One("header", "RequestHeader")>>

GetGwInfoResp ==
    <<One("header", "ResponseHeader"), One("info", "GatewayInfo")>>

ScratchpadInfo == <<Plain("len"), Plain("crc"), Plain("seq")>>

GetScratchpadStatusReq == <<One("header", "RequestHeader")>>

GetScratchpadStatusResp ==
    <<One("header", "ResponseHeader"),
      One("storedScratchpad", "ScratchpadInfo"), Optional("storedStatus"),
      Optional("storedType"), One("processedScratchpad", "ScratchpadInfo"),
      Optional("firmwareAreaId")>>

UploadScratchpadReq ==
    <<One("header", "RequestHeader"), Plain("seq"), Optional("scratchpad")>>

UploadScratchpadResp == <<One("header", "ResponseHeader")>>

ProcessScratchpadReq == <<One("header", "RequestHeader")>>

ProcessScratchpadResp == <<One("header", "ResponseHeader")>>

WirepasMessage ==
    <<One("statusEvent", "StatusEvent"),
      One("getConfigsReq", "GetConfigsReq"),
      One("getConfigsResp", "GetConfigsResp"),
      One("setConfigReq", "SetConfigReq"),
      One("setConfigResp", "SetConfigResp"),
      One("sendPacketReq", "SendPacketReq"),
      One("sendPacketResp", "SendPacketResp"),
      One("packetReceivedEvent", "PacketReceivedEvent"),
      One("getScratchpadStatusReq", "GetScratchpadStatusReq"),
      One("getScratchpadStatusResp", "GetScratchpadStatusResp"),
      One("uploadScratchpadReq", "UploadScratchpadReq"),
      One("uploadScratchpadResp", "UploadScratchpadResp"),
      One("processScratchpadReq", "ProcessScratchpadReq"),
      One("processScratchpadResp", "ProcessScratchpadResp"),
      One("getGatewayInfoReq", "GetGwInfoReq"),
      One("getGatewayInfoResp", "GetGwInfoResp")>>

CustomerMessage == <<Plain("customerName")>>

GenericMessage ==
    <<One("wirepas", "WirepasMessage"), One("customer", "CustomerMessage")>>

\* The classes by name.
Fields ==
    [RequestHeader |-> RequestHeader, ResponseHeader |-> ResponseHeader,
     EventHeader |-> EventHeader, FirmwareVersion |-> FirmwareVersion,
     SendPacketReq |-> SendPacketReq, SendPacketResp |-> SendPacketResp,
     PacketReceivedEvent |-> PacketReceivedEvent, NodeRole |-> NodeRole,
     AccessCycleRange |-> AccessCycleRange, ChannelRange |-> ChannelRange,
     AppConfigData |-> AppConfigData, NetworkKeys |-> NetworkKeys,
     SinkReadConfig |-> SinkReadConfig, SinkNewConfig |-> SinkNewConfig,
     GatewayInfo |-> GatewayInfo, StatusEvent |-> StatusEvent,
     GetConfigsReq |-> GetConfigsReq, GetConfigsResp |-> GetConfigsResp,
     SetConfigReq |-> SetConfigReq, SetConfigResp |-> SetConfigResp,
     GetGwInfoReq |-> GetGwInfoReq, GetGwInfoResp |-> GetGwInfoResp,
     ScratchpadInfo |-> ScratchpadInfo,
     GetScratchpadStatusReq |-> GetScratchpadStatusReq,
     GetScratchpadStatusResp |-> GetScratchpadStatusResp,
     UploadScratchpadReq |-> UploadScratchpadReq,
     UploadScratchpadResp |-> UploadScratchpadResp,
     ProcessScratchpadReq |-> ProcessScratchpadReq,
     ProcessScratchpadResp |-> ProcessScratchpadResp,
     WirepasMessage |-> WirepasMessage, CustomerMessage |-> CustomerMessage,
     GenericMessage |-> GenericMessage]

ASSUME TypeAssumption == Type \subseteq DOMAIN Fields

-----------------------------------------------------------------------------
(* Messages and wires.                                                     *)

\* The submessages nest no deeper: a GenericMessage has a WirepasMessage, that
\* a response with configs, which have the role of a node.
Levels == 4

ASSUME BoundsAssumption ==
    {MaxFields, MaxRelays} \subseteq Nat /\ Depth \in 0..(Levels - 1)

Scalar == {Default, Other}

\* A number no field has: of a field that a later version added.
NewField == 100

\* What has the form of a wire or of a message of some type, by the levels of
\* submessages in it.
Bytes[d \in 0..Levels] ==
    Seq(Nat \X (Seq(Scalar) \cup (IF d = 0 THEN {} ELSE Bytes[d - 1])))

Object[d \in 0..Levels] ==
    [fields : Seq(Seq(Scalar \cup (IF d = 0 THEN {} ELSE Object[d - 1]))),
     unknown : Bytes[d]]

\* Below level 0 there is nothing.
None == [t \in DOMAIN Fields |-> {}]

Content(field, wires) ==
    IF field.of # "scalar" THEN wires[field.of]
    ELSE IF field.kind = "repeated" THEN Seq(Scalar) ELSE {<<v>> : v \in Scalar}

IsElement(t, e, wires) ==
    IF e[1] \in DOMAIN Fields[t] THEN e[2] \in Content(Fields[t][e[1]], wires)
    ELSE e \in {NewField} \X Seq(Scalar)

Values(field, messages) ==
    LET values == Seq(IF field.of = "scalar" THEN Scalar ELSE messages[field.of])
    IN CASE field.kind = "plain" -> {s \in values : Len(s) = 1}
         [] field.kind = "repeated" -> values
         [] OTHER -> {s \in values : Len(s) <= 1}

\* The wires and the messages of each type.
Wire[d \in 0..Levels] ==
    [t \in DOMAIN Fields |->
        {w \in Bytes[d] :
            \A i \in DOMAIN w : IsElement(t, w[i], IF d = 0 THEN None ELSE Wire[d - 1])}]

Message[d \in 0..Levels] ==
    [t \in DOMAIN Fields |->
        {m \in Object[d] :
            /\ DOMAIN m.fields = DOMAIN Fields[t]
            /\ \A n \in DOMAIN Fields[t] :
                  m.fields[n] \in Values(Fields[t][n], IF d = 0 THEN None ELSE Message[d - 1])
            /\ m.unknown \in Seq({NewField} \X Seq(Scalar))}]

-----------------------------------------------------------------------------
(* The functions of the classes.                                           *)

create(type) ==
    [fields |-> [n \in DOMAIN Fields[type] |->
                    IF Fields[type][n].kind = "plain" THEN <<Default>> ELSE <<>>],
     unknown |-> <<>>]

\* Bug: a field that comes again is added to the value there is.
ReadField_Appends(type, message, e, lacks, read) ==
    LET n == e[1]
        field == Fields[type][n]
        value == IF field.of = "scalar" THEN e[2]
                 ELSE <<read[field.of][<<create(field.of), e[2]>>]>>
    IN IF n \in DOMAIN Fields[type] /\ <<type, n>> \notin lacks
       THEN [message EXCEPT !.fields[n] = @ \o value]
       ELSE [message EXCEPT !.unknown = Append(@, e)]

\* The value of a field when one more element of it comes: a submessage is
\* merged into the one there is, any other value comes behind it or replaces it.
Merged(field, old, content, read) ==
    LET Read(target) == read[field.of][<<target, content>>]
    IN CASE field.kind = "message" ->
                <<Read(IF old = <<>> THEN create(field.of) ELSE old[1])>>
         [] field.kind = "repeated" ->
                old \o (IF field.of = "scalar" THEN content ELSE <<Read(create(field.of))>>)
         [] OTHER -> content

\* One turn of the loop, in bindings that lack some fields, which read their
\* submessages.  What no case of the switch takes is kept
\* (UnknownFieldHandler.onRead).
ReadField(type, message, e, lacks, read) ==
    IF e[1] \in DOMAIN Fields[type] /\ <<type, e[1]>> \notin lacks
    THEN [message EXCEPT !.fields[e[1]] = Merged(Fields[type][e[1]], @, e[2], read)]
    ELSE [message EXCEPT !.unknown = Append(@, e)]

\* The loop.
ReadFields(type, target, wire, lacks, read) ==
    LET message[k \in 0..Len(wire)] ==
            IF k = 0 THEN target
            ELSE ReadField(type, message[k - 1], wire[k], lacks, read)
    IN message[Len(wire)]

Reading(lacks) ==
    LET read[d \in 0..Levels] ==
            [t \in DOMAIN Fields |-> [a \in Object[d] \X Bytes[d] |->
                ReadFields(t, a[1], a[2], lacks, IF d = 0 THEN None ELSE read[d - 1])]]
    IN read

internalBinaryRead(type, target, wire, lacks) == Reading(lacks)[Levels][type][<<target, wire>>]

\* Bug: an optional field is tested for being truthy, not for being there.
WriteField_Truthy(type, n, values, write) ==
    LET field == Fields[type][n]
        content(v) == IF field.of = "scalar" THEN <<v>> ELSE write[field.of][v]
    IN IF field.kind \in {"plain", "optional"} /\ values = <<Default>> THEN <<>>
       ELSE [i \in DOMAIN values |-> <<n, content(values[i])>>]

\* A plain field is left out when it has the default, any other when absent.
WriteField(type, n, values, write) ==
    LET field == Fields[type][n]
        content(v) == IF field.of = "scalar" THEN <<v>> ELSE write[field.of][v]
    IN IF field.kind = "plain" /\ values = <<Default>> THEN <<>>
       ELSE [i \in DOMAIN values |-> <<n, content(values[i])>>]

\* UnknownFieldHandler.onWrite puts what was kept behind the known fields.
WriteFields(type, message, write) ==
    FlattenSeq([n \in DOMAIN Fields[type] |-> WriteField(type, n, message.fields[n], write)])
    \o message.unknown

Writing[d \in 0..Levels] ==
    [t \in DOMAIN Fields |-> [m \in Object[d] |->
        WriteFields(t, m, IF d = 0 THEN None ELSE Writing[d - 1])]]

internalBinaryWrite(type, message) == Writing[Levels][type][message]

-----------------------------------------------------------------------------
(* A peer writes a message, element after element; it is read, and relayed *)
(* by the same and by older versions of the bindings.                      *)

VARIABLES
    type,       \* the type of the message
    wire,       \* what was put on the wire
    message,    \* what was read from it
    relays      \* how often the message was relayed

vars == <<type, wire, message, relays>>

TypeOK ==
    /\ type \in Type
    /\ message \in Message[Levels][type]
    /\ wire \in Wire[Levels][type]
    /\ relays \in 0..MaxRelays

\* What a peer may write for a field; repeated scalars also packed.
Contents(field, elements) ==
    IF field.of # "scalar" THEN {<<>>} \cup {<<e>> : e \in elements[field.of]}
    ELSE {<<v>> : v \in Scalar} \cup (IF field.kind = "repeated" THEN {<<Default, Other>>} ELSE {})

Elements[d \in 0..Depth] ==
    [t \in DOMAIN Fields |->
        {<<NewField, <<Other>>>>} \cup
        UNION {{n} \X Contents(Fields[t][n], IF d = 0 THEN None ELSE Elements[d - 1]) :
               n \in DOMAIN Fields[t]}]

Init ==
    /\ type \in Type
    /\ wire = <<>>
    /\ message = create(type)
    /\ relays = 0

\* A peer writes one more element, which is read into the message.
Write(e) ==
    /\ Len(wire) < MaxFields
    /\ wire' = Append(wire, e)
    /\ message' = internalBinaryRead(type, message, <<e>>, {})
    /\ UNCHANGED <<type, relays>>

\* The message is written by these bindings; read and written by bindings
\* that lack some fields; and read by these.
Relay(lacks) ==
    /\ relays < MaxRelays
    /\ relays' = relays + 1
    /\ LET written == internalBinaryWrite(type, message)
           theirs == internalBinaryRead(type, create(type), written, lacks)
           relayed == internalBinaryWrite(type, theirs)
       IN message' = internalBinaryRead(type, create(type), relayed, {})
    /\ UNCHANGED <<type, wire>>

\* The fields on a wire, with those of its submessages.
Used ==
    LET used[d \in 0..Levels] ==
            [t \in DOMAIN Fields |-> [w \in Bytes[d] |->
                UNION {{<<t, e[1]>>} \cup
                       (IF Fields[t][e[1]].of = "scalar" THEN {}
                        ELSE used[d - 1][Fields[t][e[1]].of][e[2]]) :
                       e \in {w[i] : i \in {i \in DOMAIN w : w[i][1] # NewField}}}]]
    IN used[Levels][type][wire]

\* sendPacket: a command for a node, as an object without the optional fields.
With(t, given) ==
    [create(t) EXCEPT !.fields = [n \in DOMAIN @ |->
        IF Fields[t][n].name \in DOMAIN given THEN <<given[Fields[t][n].name]>> ELSE @[n]]]

sendPacket(node) ==
    With("GenericMessage", [wirepas |->
        With("WirepasMessage", [sendPacketReq |->
            With("SendPacketReq",
                 [header |-> With("RequestHeader", [reqId |-> Other]),
                  destinationAddress |-> node, sourceEndpoint |-> Other,
                  destinationEndpoint |-> Other, qos |-> Other, payload |-> Other])])])

\* wirepasPublish: the command is put on the wire.
Publish(node) ==
    /\ type = "GenericMessage" /\ wire = <<>>
    /\ message' = sendPacket(node)
    /\ wire' = internalBinaryWrite(type, message')
    /\ UNCHANGED <<type, relays>>

Next ==
    \/ \E e \in Elements[Depth][type] : Write(e)
    \/ Write(<<NewField, <<Default>>>>)
    \/ Relay({})
    \/ \E field \in Used : Relay({field})
    \/ \E node \in Scalar : Publish(node)

Spec == Init /\ [][Next]_vars

-----------------------------------------------------------------------------
(* Properties.                                                             *)

\* Reading and writing lose nothing: however often a message was relayed on
\* its way, by these bindings or by older ones that do not know all of its
\* fields, and however many of its elements came later, it is the message
\* that was put on the wire; fields that are present with their default, and
\* fields nobody knows, included (internalBinaryRead, internalBinaryWrite).
NothingLost == message = internalBinaryRead(type, create(type), wire, {})

=============================================================================
