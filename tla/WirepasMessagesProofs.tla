------------------------ MODULE WirepasMessagesProofs ------------------------
(***************************************************************************)
(* Proofs about WirepasMessages, for all types of messages, any number of  *)
(* elements and relays, and any fields that the bindings on the way lack.  *)
(*                                                                         *)
(* A message of level d has submessages of level d - 1, and what is said   *)
(* of a message is proved from what is said of those: the levels are few,  *)
(* so this is done for one level and used for each.  Elements are taken    *)
(* one by one, from the shortest wire for which a statement would fail.    *)
(***************************************************************************)
EXTENDS WirepasMessages, LibraryLemmas

-----------------------------------------------------------------------------
(* The tables.                                                             *)

IsField(field) ==
    /\ field.kind \in {"plain", "optional", "repeated", "message"}
    /\ field.of \in {"scalar"} \cup DOMAIN Fields
    /\ field.kind \in {"plain", "optional"} => field.of = "scalar"
    /\ field.kind = "message" => field.of # "scalar"

IsTable(table) ==
    /\ Len(table) \in Nat /\ Len(table) < NewField
    /\ DOMAIN table = 1..Len(table)
    /\ \A n \in DOMAIN table : IsField(table[n])

LEMMA FieldsAreFields ==
    /\ \A name : IsField(Plain(name)) /\ IsField(Optional(name)) /\ IsField(Every(name))
    /\ \A name : \A t \in DOMAIN Fields : IsField(One(name, t)) /\ IsField(Each(name, t))
<1>1. \A t \in DOMAIN Fields : t # "scalar"
  BY DEF Fields
<1> QED
  BY <1>1 DEF IsField, Plain, Optional, Every, One, Each

\* Every class has a table of at most 17 fields, each of one of the five kinds
\* and, when it holds messages, of one of the classes.
LEMMA FieldsAreTables == \A t \in DOMAIN Fields : IsTable(Fields[t])
<1>1. IsTable(RequestHeader) /\ IsTable(ResponseHeader) /\ IsTable(EventHeader)
  BY FieldsAreFields DEF RequestHeader, ResponseHeader, EventHeader, IsTable, NewField
<1>2. IsTable(FirmwareVersion) /\ IsTable(NodeRole) /\ IsTable(AccessCycleRange)
  BY FieldsAreFields DEF FirmwareVersion, NodeRole, AccessCycleRange, IsTable, NewField
<1>3. IsTable(ChannelRange) /\ IsTable(AppConfigData) /\ IsTable(NetworkKeys)
  BY FieldsAreFields DEF ChannelRange, AppConfigData, NetworkKeys, IsTable, NewField
<1>4. IsTable(GatewayInfo) /\ IsTable(ScratchpadInfo) /\ IsTable(CustomerMessage)
  BY FieldsAreFields DEF GatewayInfo, ScratchpadInfo, CustomerMessage, IsTable, NewField
<1>5. {"RequestHeader", "ResponseHeader", "EventHeader", "FirmwareVersion", "NodeRole",
       "AccessCycleRange", "ChannelRange", "AppConfigData", "NetworkKeys",
       "SinkReadConfig", "SinkNewConfig", "GatewayInfo", "ScratchpadInfo"}
      \subseteq DOMAIN Fields
  BY DEF Fields
<1>6. IsTable(SendPacketReq) /\ IsTable(SendPacketResp) /\ IsTable(PacketReceivedEvent)
  BY <1>5, FieldsAreFields
  DEF SendPacketReq, SendPacketResp, PacketReceivedEvent, IsTable, NewField
<1>7. IsTable(SinkReadConfig)
  BY <1>5, FieldsAreFields DEF SinkReadConfig, IsTable, NewField
<1>8. IsTable(SinkNewConfig)
  BY <1>5, FieldsAreFields DEF SinkNewConfig, IsTable, NewField
<1>9. IsTable(StatusEvent) /\ IsTable(GetConfigsReq) /\ IsTable(GetConfigsResp)
  BY <1>5, FieldsAreFields DEF StatusEvent, GetConfigsReq, GetConfigsResp, IsTable, NewField
<1>10. IsTable(SetConfigReq) /\ IsTable(SetConfigResp)
  BY <1>5, FieldsAreFields DEF SetConfigReq, SetConfigResp, IsTable, NewField
<1>11. IsTable(GetGwInfoReq) /\ IsTable(GetGwInfoResp)
  BY <1>5, FieldsAreFields DEF GetGwInfoReq, GetGwInfoResp, IsTable, NewField
<1>12. IsTable(GetScratchpadStatusReq) /\ IsTable(GetScratchpadStatusResp)
  BY <1>5, FieldsAreFields
  DEF GetScratchpadStatusReq, GetScratchpadStatusResp, IsTable, NewField
<1>13. IsTable(UploadScratchpadReq) /\ IsTable(UploadScratchpadResp)
  BY <1>5, FieldsAreFields DEF UploadScratchpadReq, UploadScratchpadResp, IsTable, NewField
<1>14. IsTable(ProcessScratchpadReq) /\ IsTable(ProcessScratchpadResp)
  BY <1>5, FieldsAreFields DEF ProcessScratchpadReq, ProcessScratchpadResp, IsTable, NewField
<1>15. {"StatusEvent", "GetConfigsReq", "GetConfigsResp", "SetConfigReq", "SetConfigResp",
        "SendPacketReq", "SendPacketResp", "PacketReceivedEvent",
        "GetScratchpadStatusReq", "GetScratchpadStatusResp", "UploadScratchpadReq",
        "UploadScratchpadResp", "ProcessScratchpadReq", "ProcessScratchpadResp",
        "GetGwInfoReq", "GetGwInfoResp", "WirepasMessage", "CustomerMessage"}
       \subseteq DOMAIN Fields
  BY DEF Fields
<1>16. IsTable(WirepasMessage)
  BY <1>15, FieldsAreFields DEF WirepasMessage, IsTable, NewField
<1>17. IsTable(GenericMessage)
  BY <1>15, FieldsAreFields DEF GenericMessage, IsTable, NewField
<1> HIDE DEF IsTable
<1> QED
  BY <1>1, <1>2, <1>3, <1>4, <1>6, <1>7, <1>8, <1>9, <1>10, <1>11, <1>12, <1>13, <1>14,
     <1>16, <1>17
  DEF Fields

-----------------------------------------------------------------------------
(* The recursive functions.  Their levels are few, so a function that has  *)
(* the value of each is given level by level.                              *)

\* What a function of the levels has below level d.
Below(f, d) == IF d = 0 THEN None ELSE f[d - 1]

LEMMA BytesByLevel ==
    \A d \in 0..Levels :
        Bytes[d] = Seq(Nat \X (Seq(Scalar) \cup (IF d = 0 THEN {} ELSE Bytes[d - 1])))
<1> DEFINE At(b) == Seq(Nat \X (Seq(Scalar) \cup b))
           b0 == At({})
           b1 == At(b0)
           b2 == At(b1)
           b3 == At(b2)
           b4 == At(b3)
           f == [d \in 0..Levels |-> IF d = 0 THEN b0 ELSE IF d = 1 THEN b1
                                     ELSE IF d = 2 THEN b2 ELSE IF d = 3 THEN b3 ELSE b4]
<1> HIDE DEF At
<1>1. f = [d \in 0..Levels |-> At(IF d = 0 THEN {} ELSE f[d - 1])]
  BY DEF Levels
<1> HIDE DEF f
<1>2. Bytes = [d \in 0..Levels |-> At(IF d = 0 THEN {} ELSE Bytes[d - 1])]
  BY <1>1 DEF Bytes, At
<1> QED
  BY <1>2 DEF At

LEMMA ObjectByLevel ==
    \A d \in 0..Levels :
        Object[d] =
            [fields : Seq(Seq(Scalar \cup (IF d = 0 THEN {} ELSE Object[d - 1]))),
             unknown : Bytes[d]]
<1> DEFINE At(d, o) == [fields : Seq(Seq(Scalar \cup o)), unknown : Bytes[d]]
           o0 == At(0, {})
           o1 == At(1, o0)
           o2 == At(2, o1)
           o3 == At(3, o2)
           o4 == At(4, o3)
           f == [d \in 0..Levels |-> IF d = 0 THEN o0 ELSE IF d = 1 THEN o1
                                     ELSE IF d = 2 THEN o2 ELSE IF d = 3 THEN o3 ELSE o4]
<1> HIDE DEF At
<1>1. f = [d \in 0..Levels |-> At(d, IF d = 0 THEN {} ELSE f[d - 1])]
  BY DEF Levels
<1> HIDE DEF f
<1>2. Object = [d \in 0..Levels |-> At(d, IF d = 0 THEN {} ELSE Object[d - 1])]
  BY <1>1 DEF Object, At
<1> QED
  BY <1>2 DEF At

\* The wires and the messages of type t when its submessages have those given.
WiresOf(t, d, wires) ==
    {w \in Bytes[d] : \A i \in DOMAIN w : IsElement(t, w[i], wires)}

MessagesOf(t, d, messages) ==
    {m \in Object[d] :
        /\ DOMAIN m.fields = DOMAIN Fields[t]
        /\ \A n \in DOMAIN Fields[t] : m.fields[n] \in Values(Fields[t][n], messages)
        /\ m.unknown \in Seq({NewField} \X Seq(Scalar))}

LEMMA WireByLevel ==
    \A d \in 0..Levels :
        Wire[d] = [t \in DOMAIN Fields |-> WiresOf(t, d, Below(Wire, d))]
<1> DEFINE At(d, w) == [t \in DOMAIN Fields |-> WiresOf(t, d, w)]
           w0 == At(0, None)
           w1 == At(1, w0)
           w2 == At(2, w1)
           w3 == At(3, w2)
           w4 == At(4, w3)
           f == [d \in 0..Levels |-> IF d = 0 THEN w0 ELSE IF d = 1 THEN w1
                                     ELSE IF d = 2 THEN w2 ELSE IF d = 3 THEN w3 ELSE w4]
<1> HIDE DEF At
<1>1. f = [d \in 0..Levels |-> At(d, IF d = 0 THEN None ELSE f[d - 1])]
  BY DEF Levels
<1> HIDE DEF f
<1>2. Wire = [d \in 0..Levels |-> At(d, IF d = 0 THEN None ELSE Wire[d - 1])]
  BY <1>1 DEF Wire, At, WiresOf
<1> QED
  BY <1>2 DEF At, Below

LEMMA MessageByLevel ==
    \A d \in 0..Levels :
        Message[d] = [t \in DOMAIN Fields |-> MessagesOf(t, d, Below(Message, d))]
<1> DEFINE At(d, m) == [t \in DOMAIN Fields |-> MessagesOf(t, d, m)]
           m0 == At(0, None)
           m1 == At(1, m0)
           m2 == At(2, m1)
           m3 == At(3, m2)
           m4 == At(4, m3)
           f == [d \in 0..Levels |-> IF d = 0 THEN m0 ELSE IF d = 1 THEN m1
                                     ELSE IF d = 2 THEN m2 ELSE IF d = 3 THEN m3 ELSE m4]
<1> HIDE DEF At
<1>1. f = [d \in 0..Levels |-> At(d, IF d = 0 THEN None ELSE f[d - 1])]
  BY DEF Levels
<1> HIDE DEF f
<1>2. Message = [d \in 0..Levels |-> At(d, IF d = 0 THEN None ELSE Message[d - 1])]
  BY <1>1 DEF Message, At, MessagesOf
<1> QED
  BY <1>2 DEF At, Below

LEMMA ReadingByLevel ==
    ASSUME NEW lacks
    PROVE  \A d \in 0..Levels : \A t \in DOMAIN Fields :
               \A m \in Object[d], w \in Bytes[d] :
                   Reading(lacks)[d][t][<<m, w>>] =
                       ReadFields(t, m, w, lacks, Below(Reading(lacks), d))
<1> DEFINE At(d, r) ==
               [t \in DOMAIN Fields |-> [a \in Object[d] \X Bytes[d] |->
                   ReadFields(t, a[1], a[2], lacks, r)]]
           r0 == At(0, None)
           r1 == At(1, r0)
           r2 == At(2, r1)
           r3 == At(3, r2)
           r4 == At(4, r3)
           f == [d \in 0..Levels |-> IF d = 0 THEN r0 ELSE IF d = 1 THEN r1
                                     ELSE IF d = 2 THEN r2 ELSE IF d = 3 THEN r3 ELSE r4]
           Read == Reading(lacks)
<1> HIDE DEF At
<1>1. f = [d \in 0..Levels |-> At(d, IF d = 0 THEN None ELSE f[d - 1])]
  BY DEF Levels
<1> HIDE DEF f
<1>2. Read = [d \in 0..Levels |-> At(d, IF d = 0 THEN None ELSE Read[d - 1])]
  BY <1>1 DEF Reading, At
<1> HIDE DEF Read
<1>3. \A d \in 0..Levels : Read[d] = At(d, Below(Read, d))
  BY <1>2 DEF Below
<1>4. ASSUME NEW d \in 0..Levels, NEW t \in DOMAIN Fields, NEW m \in Object[d], NEW w \in Bytes[d]
      PROVE  Read[d][t][<<m, w>>] = ReadFields(t, m, w, lacks, Below(Read, d))
  <2> DEFINE r == Below(Read, d)
  <2>1. Read[d] = At(d, r)
    BY <1>3
  <2> HIDE DEF r
  <2>2. Read[d][t] = [a \in Object[d] \X Bytes[d] |-> ReadFields(t, a[1], a[2], lacks, r)]
    BY <2>1 DEF At
  <2>3. Read[d][t][<<m, w>>] = ReadFields(t, m, w, lacks, r)
    BY <2>2
  <2> QED
    BY <2>3 DEF r
<1> QED
  BY <1>4 DEF Read

LEMMA WritingByLevel ==
    \A d \in 0..Levels : \A t \in DOMAIN Fields : \A m \in Object[d] :
        Writing[d][t][m] = WriteFields(t, m, Below(Writing, d))
<1> DEFINE At(d, w) ==
               [t \in DOMAIN Fields |-> [m \in Object[d] |-> WriteFields(t, m, w)]]
           w0 == At(0, None)
           w1 == At(1, w0)
           w2 == At(2, w1)
           w3 == At(3, w2)
           w4 == At(4, w3)
           f == [d \in 0..Levels |-> IF d = 0 THEN w0 ELSE IF d = 1 THEN w1
                                     ELSE IF d = 2 THEN w2 ELSE IF d = 3 THEN w3 ELSE w4]
<1> HIDE DEF At
<1>1. f = [d \in 0..Levels |-> At(d, IF d = 0 THEN None ELSE f[d - 1])]
  BY DEF Levels
<1> HIDE DEF f
<1>2. Writing = [d \in 0..Levels |-> At(d, IF d = 0 THEN None ELSE Writing[d - 1])]
  BY <1>1 DEF Writing, At
<1>3. \A d \in 0..Levels : Writing[d] = At(d, Below(Writing, d))
  BY <1>2 DEF Below
<1>4. ASSUME NEW d \in 0..Levels, NEW t \in DOMAIN Fields, NEW m \in Object[d]
      PROVE  Writing[d][t][m] = WriteFields(t, m, Below(Writing, d))
  <2> DEFINE w == Below(Writing, d)
  <2>1. Writing[d] = At(d, w)
    BY <1>3
  <2> HIDE DEF w
  <2>2. Writing[d][t][m] = WriteFields(t, m, w)
    BY <2>1 DEF At
  <2> QED
    BY <2>2 DEF w
<1> QED
  BY <1>4

LEMMA ElementsByLevel ==
    \A d \in 0..Depth : \A t \in DOMAIN Fields :
        Elements[d][t] =
            {<<NewField, <<Other>>>>} \cup
            UNION {{n} \X Contents(Fields[t][n], Below(Elements, d)) : n \in DOMAIN Fields[t]}
<1> DEFINE At(e) ==
               [t \in DOMAIN Fields |->
                   {<<NewField, <<Other>>>>} \cup
                   UNION {{n} \X Contents(Fields[t][n], e) : n \in DOMAIN Fields[t]}]
           e0 == At(None)
           e1 == At(e0)
           e2 == At(e1)
           e3 == At(e2)
           f == [d \in 0..Depth |-> IF d = 0 THEN e0 ELSE IF d = 1 THEN e1
                                    ELSE IF d = 2 THEN e2 ELSE e3]
<1> HIDE DEF At
<1>1. f = [d \in 0..Depth |-> At(IF d = 0 THEN None ELSE f[d - 1])]
  BY BoundsAssumption DEF Levels
<1> HIDE DEF f
<1>2. Elements = [d \in 0..Depth |-> At(IF d = 0 THEN None ELSE Elements[d - 1])]
  BY <1>1 DEF Elements, At
<1>3. \A d \in 0..Depth : Elements[d] = At(Below(Elements, d))
  BY <1>2 DEF Below
<1> QED
  BY <1>3 DEF At

-----------------------------------------------------------------------------
(* The loop of internalBinaryRead: it may be cut anywhere.                 *)

\* What the message is after each of the first n turns.
Turns(f, n, t, m, w, lacks, read) ==
    f[0] = m /\ \A k \in 1..n : f[k] = ReadField(t, f[k - 1], w[k], lacks, read)

\* Two runs of the loop over the same elements agree.
LEMMA TurnsAgree ==
    ASSUME NEW t, NEW m, NEW w, NEW v, NEW lacks, NEW read, NEW n \in Nat, NEW f, NEW g,
           Turns(f, n, t, m, w, lacks, read), Turns(g, n, t, m, v, lacks, read),
           \A k \in 1..n : w[k] = v[k]
    PROVE  f[n] = g[n]
<1> DEFINE T == {k \in 0..n : f[k] # g[k]}
<1> SUFFICES ASSUME n \in T
             PROVE  FALSE
  OBVIOUS
<1>1. T \subseteq Nat
  OBVIOUS
<1>2. PICK k \in T : \A i \in T : k <= i
  BY <1>1, LeastNatural
<1>3. k # 0
  BY DEF Turns
<1>4. k - 1 \in 0..n /\ k \in 1..n /\ k - 1 \notin T
  BY <1>1, <1>2, <1>3
<1>5. f[k - 1] = g[k - 1]
  BY <1>4
<1> QED
  BY <1>4, <1>5 DEF Turns

\* ReadFields is what the message is after the last turn.
LEMMA TurnsOfRead ==
    ASSUME NEW t, NEW m, NEW w, NEW lacks, NEW read, Len(w) \in Nat
    PROVE  \E f : /\ Turns(f, Len(w), t, m, w, lacks, read)
                  /\ ReadFields(t, m, w, lacks, read) = f[Len(w)]
<1> DEFINE Step(o, k) == ReadField(t, o, w[k], lacks, read)
           Is(f, n) == f = [k \in 0..n |-> IF k = 0 THEN m ELSE Step(f[k - 1], k)]
           T == {n \in Nat : ~\E f : Is(f, n)}
<1> HIDE DEF Step
<1>1. T = {}
  <2> SUFFICES ASSUME T # {}
               PROVE  FALSE
    OBVIOUS
  <2>1. PICK n \in T : \A i \in T : n <= i
    BY LeastNatural
  <2>2. n # 0
    <3> DEFINE f == [k \in 0..0 |-> m]
    <3>1. f = [k \in 0..0 |-> IF k = 0 THEN m ELSE Step(f[k - 1], k)]
      OBVIOUS
    <3> QED
      BY <2>1, <3>1
  <2>3. n \in Nat /\ n - 1 \in Nat /\ n - 1 < n
    BY <2>1, <2>2
  <2>4. PICK f : Is(f, n - 1)
    BY <2>1, <2>3
  <2> DEFINE h == [k \in 0..n |-> IF k = n THEN Step(f[n - 1], n) ELSE f[k]]
  <2>5. \A k \in 0..n : h[k] = IF k = 0 THEN m ELSE Step(h[k - 1], k)
    <3> TAKE k \in 0..n
    <3>1. \A i \in 0..(n - 1) : h[i] = f[i] /\ f[i] = IF i = 0 THEN m ELSE Step(f[i - 1], i)
      BY <2>3, <2>4
    <3>2. h[n] = Step(f[n - 1], n)
      BY <2>1
    <3> HIDE DEF h, T, Is
    <3>3. CASE k = n
      <4>1. n - 1 \in 0..(n - 1)
        BY <2>3
      <4>2. h[n - 1] = f[n - 1]
        BY <3>1, <4>1
      <4> QED
        BY <2>2, <3>2, <3>3, <4>2
    <3>4. CASE k # n
      <4>1. k \in 0..(n - 1) /\ (k = 0 \/ k - 1 \in 0..(n - 1))
        BY <2>3, <3>4
      <4> QED
        BY <3>1, <4>1
    <3> QED
      BY <3>3, <3>4
  <2>6. h = [k \in 0..n |-> h[k]]
    OBVIOUS
  <2> HIDE DEF h
  <2>7. Is(h, n)
    BY <2>5, <2>6
  <2> QED
    BY <2>1, <2>7
<1> DEFINE f == CHOOSE f : Is(f, Len(w))
<1>2. Is(f, Len(w))
  BY <1>1
<1>3. ReadFields(t, m, w, lacks, read) = f[Len(w)]
  BY DEF ReadFields, Step
<1> HIDE DEF f
<1>4. Turns(f, Len(w), t, m, w, lacks, read)
  <2>1. f[0] = m /\ \A k \in 1..Len(w) : f[k] = Step(f[k - 1], k)
    BY <1>2
  <2> QED
    BY <2>1 DEF Turns, Step
<1> QED
  BY <1>3, <1>4

LEMMA ReadNothing ==
    \A t, m, lacks, read : ReadFields(t, m, <<>>, lacks, read) = m
BY TurnsOfRead DEF Turns

\* The last element is read into what was read before it.
LEMMA ReadOneMore ==
    ASSUME NEW t, NEW m, NEW E, NEW w \in Seq(E), NEW e \in E, NEW lacks, NEW read
    PROVE  ReadFields(t, m, Append(w, e), lacks, read) =
               ReadField(t, ReadFields(t, m, w, lacks, read), e, lacks, read)
<1> DEFINE n == Len(w)
           v == Append(w, e)
<1>1. n \in Nat /\ Len(v) = n + 1 /\ v[n + 1] = e /\ \A k \in 1..n : w[k] = v[k]
  OBVIOUS
<1> HIDE DEF v, n
<1>2. PICK f : Turns(f, n, t, m, w, lacks, read) /\ ReadFields(t, m, w, lacks, read) = f[n]
  BY <1>1, TurnsOfRead DEF n
<1>3. PICK g : /\ Turns(g, n + 1, t, m, v, lacks, read)
               /\ ReadFields(t, m, v, lacks, read) = g[n + 1]
  BY <1>1, TurnsOfRead
<1>4. Turns(g, n, t, m, v, lacks, read) /\ g[n + 1] = ReadField(t, g[n], e, lacks, read)
  BY <1>1, <1>3 DEF Turns
<1>5. f[n] = g[n]
  BY <1>1, <1>2, <1>4, TurnsAgree
<1> QED
  BY <1>2, <1>3, <1>4, <1>5 DEF v

LEMMA ReadOne ==
    ASSUME NEW t, NEW m, NEW e, NEW lacks, NEW read
    PROVE  ReadFields(t, m, <<e>>, lacks, read) = ReadField(t, m, e, lacks, read)
<1> DEFINE E == {e}
           w == <<>>
<1>1. w \in Seq(E) /\ e \in E
  OBVIOUS
<1>2. Append(w, e) = <<e>>
  OBVIOUS
<1>3. ReadFields(t, m, w, lacks, read) = m
  BY ReadNothing
<1> HIDE DEF E, w
<1>4. ReadFields(t, m, Append(w, e), lacks, read) =
          ReadField(t, ReadFields(t, m, w, lacks, read), e, lacks, read)
  BY <1>1, ReadOneMore
<1>5. ReadFields(t, m, Append(w, e), lacks, read) = ReadField(t, m, e, lacks, read)
  BY <1>3, <1>4
<1> QED
  BY <1>5, <1>2

\* A shortest sequence of a set is empty, or one element longer than one that
\* is not in the set.  This is what the proofs below have for induction.
LEMMA Shortest ==
    ASSUME NEW E, NEW B \in SUBSET Seq(E), B # {}
    PROVE  \E w \in B : w = <<>> \/ \E v \in Seq(E) \ B, e \in E : w = Append(v, e)
<1> DEFINE T == {Len(w) : w \in B}
<1>1. \A w \in B : w \in Seq(E) /\ Len(w) \in Nat
  BY LenProperties
<1>2. T \in SUBSET Nat /\ T # {}
  BY <1>1
<1>3. PICK n \in T : \A i \in T : n <= i
  <2> HIDE DEF T
  <2> QED
    BY <1>2, LeastNatural
<1>4. PICK w \in B : Len(w) = n
  OBVIOUS
<1>5. \A v \in B : Len(w) <= Len(v)
  BY <1>3, <1>4
<1> HIDE DEF T
<1>6. CASE w # <<>>
  <2>1. PICK v \in Seq(E), e \in E : w = Append(v, e)
    BY <1>1, <1>6, SequenceEmptyOrAppend
  <2>2. Len(v) \in Nat /\ Len(w) = Len(v) + 1
    BY <2>1, AppendProperties, LenProperties
  <2>3. v \notin B
    BY <1>5, <2>2
  <2> QED
    BY <2>1, <2>3
<1> QED
  BY <1>6

\* A wire in two pieces is read piece after piece, which is also how a
\* submessage in two pieces is read.
LEMMA ReadConcat ==
    ASSUME NEW t, NEW m, NEW E, NEW a \in Seq(E), NEW b \in Seq(E), NEW lacks, NEW read
    PROVE  ReadFields(t, m, a \o b, lacks, read) =
               ReadFields(t, ReadFields(t, m, a, lacks, read), b, lacks, read)
<1> DEFINE Read(o, w) == ReadFields(t, o, w, lacks, read)
           B == {w \in Seq(E) : Read(m, a \o w) # Read(Read(m, a), w)}
<1> HIDE DEF Read
<1>1. SUFFICES B = {}
  BY DEF Read
<1>2. SUFFICES ASSUME B # {}
               PROVE  FALSE
  OBVIOUS
<1>3. PICK w \in B : w = <<>> \/ \E v \in Seq(E) \ B, e \in E : w = Append(v, e)
  BY <1>2, Shortest
<1>4. w # <<>>
  <2>1. Read(Read(m, a), <<>>) = Read(m, a)
    BY ReadNothing DEF Read
  <2>2. a \o <<>> = a
    OBVIOUS
  <2> QED
    BY <2>1, <2>2
<1>5. PICK v \in Seq(E), e \in E : w = Append(v, e) /\ v \notin B
  BY <1>3, <1>4
<1>6. Read(m, a \o v) = Read(Read(m, a), v)
  BY <1>5
<1>7. a \o w = Append(a \o v, e) /\ a \o v \in Seq(E)
  BY <1>5
<1> HIDE DEF B
<1>8. Read(m, Append(a \o v, e)) = ReadField(t, Read(m, a \o v), e, lacks, read)
  <2> DEFINE u == a \o v
  <2>1. u \in Seq(E)
    BY <1>7
  <2> HIDE DEF u
  <2>2. Read(m, Append(u, e)) = ReadField(t, Read(m, u), e, lacks, read)
    BY <2>1, ReadOneMore DEF Read
  <2> QED
    BY <2>2 DEF u
<1>9. Read(Read(m, a), w) = ReadField(t, Read(Read(m, a), v), e, lacks, read)
  BY <1>5, ReadOneMore DEF Read
<1> QED
  BY <1>6, <1>7, <1>8, <1>9 DEF B

-----------------------------------------------------------------------------
(* FlattenSeq.                                                             *)

\* What the first sequences are together.
Joined(f, ss, S) ==
    /\ f \in [0..Len(ss) -> Seq(S)]
    /\ f[0] = <<>> /\ \A k \in 1..Len(ss) : f[k] = f[k - 1] \o ss[k]
    /\ FlattenSeq(ss) = f[Len(ss)]

\* FlattenSeq joins the sequences one after the other.
LEMMA FlattenPrefixes ==
    ASSUME NEW S, NEW ss \in Seq(Seq(S))
    PROVE  \E f : Joined(f, ss, S)
<1> DEFINE n == Len(ss)
           step == [a \in Seq(S) \X (1..n) |-> a[1] \o ss[a[2]]]
<1>1. n \in Nat /\ \A k \in 1..n : ss[k] \in Seq(S)
  OBVIOUS
<1>2. step \in [Seq(S) \X (1..n) -> Seq(S)]
  BY <1>1
<1>3. \A x \in Seq(S) : \A k \in 1..n : step[<<x, k>>] = x \o ss[k]
  OBVIOUS
<1> HIDE DEF step
<1>4. <<>> \in Seq(S)
  OBVIOUS
<1> HIDE DEF n
<1>5. Iterates(Seq(S), n, <<>>, step)
  BY <1>1, <1>2, <1>4, Iteration
<1>6. PICK f \in [0..n -> Seq(S)] : f[0] = <<>> /\ \A k \in 1..n : f[k] = step[<<f[k - 1], k>>]
  BY <1>5 DEF Iterates
<1>7. \A k \in 1..n : f[k] = f[k - 1] \o ss[k]
  <2> TAKE k \in 1..n
  <2>1. k - 1 \in 0..n
    BY <1>1
  <2> QED
    BY <1>3, <1>6, <2>1
<1>8. CASE n = 0
  <2>1. FlattenSeq(ss) = ss /\ ss = <<>>
    BY <1>8 DEF FlattenSeq, n
  <2> QED
    BY <1>6, <1>7, <1>8, <2>1 DEF n, Joined
<1>9. CASE n # 0
  <2>1. f[1] = ss[1]
    <3>1. 1 \in 1..n /\ 1 - 1 = 0
      BY <1>1, <1>9
    <3>2. f[1] = <<>> \o ss[1] /\ ss[1] \in Seq(S)
      BY <1>1, <1>6, <1>7, <3>1
    <3> QED
      BY <3>2
  <2> DEFINE Is(g) == g = [i \in 1..n |-> IF i = 1 THEN ss[i] ELSE g[i - 1] \o ss[i]]
             h == [i \in 1..n |-> f[i]]
             g == CHOOSE g : Is(g)
  <2>2. \A i \in 1..n : f[i] = IF i = 1 THEN ss[i] ELSE h[i - 1] \o ss[i]
    <3> TAKE i \in 1..n
    <3>1. CASE i = 1
      BY <2>1, <3>1
    <3>2. CASE i # 1
      <4>1. i - 1 \in 1..n
        BY <1>1, <3>2
      <4>2. h[i - 1] = f[i - 1]
        BY <4>1
      <4> QED
        BY <1>7, <3>2, <4>2
    <3> QED
      BY <3>1, <3>2
  <2>3. h = [i \in 1..n |-> IF i = 1 THEN ss[i] ELSE h[i - 1] \o ss[i]]
    <3> DEFINE v == [i \in 1..n |-> IF i = 1 THEN ss[i] ELSE h[i - 1] \o ss[i]]
    <3>1. \A i \in 1..n : h[i] = v[i]
      <4> TAKE i \in 1..n
      <4>1. h[i] = f[i]
        OBVIOUS
      <4>2. v[i] = IF i = 1 THEN ss[i] ELSE h[i - 1] \o ss[i]
        OBVIOUS
      <4> HIDE DEF h, v
      <4> QED
        BY <2>2, <4>1, <4>2
    <3>2. DOMAIN h = 1..n /\ DOMAIN v = 1..n /\ h = [i \in 1..n |-> h[i]] /\ v = [i \in 1..n |-> v[i]]
      OBVIOUS
    <3> HIDE DEF h, v
    <3>3. h = v
      BY <3>1, <3>2
    <3> QED
      BY <3>3 DEF v
  <2> HIDE DEF h
  <2>4. Is(g)
    BY <2>3
  <2>5. FlattenSeq(ss) = g[n]
    BY <1>9 DEF FlattenSeq, n
  <2> HIDE DEF g
  <2>6. \A i \in 1..n : g[i] = IF i = 1 THEN ss[i] ELSE g[i - 1] \o ss[i]
    BY <2>4
  <2> DEFINE T == {i \in 1..n : g[i] # f[i]}
  <2>7. T = {}
    <3> SUFFICES ASSUME T # {}
                 PROVE  FALSE
      OBVIOUS
    <3>1. T \in SUBSET Nat
      BY <1>1
    <3>2. PICK i \in T : \A j \in T : i <= j
      BY <3>1, LeastNatural
    <3>3. CASE i = 1
      BY <2>1, <2>6, <3>2, <3>3
    <3>4. CASE i # 1
      <4>1. i \in 1..n /\ i - 1 \in 1..n /\ i - 1 < i
        BY <1>1, <3>2, <3>4
      <4>2. i - 1 \notin T
        BY <3>1, <3>2, <4>1
      <4>3. g[i - 1] = f[i - 1]
        BY <4>1, <4>2
      <4>4. g[i] = g[i - 1] \o ss[i]
        BY <2>6, <3>4, <4>1
      <4> QED
        BY <1>7, <3>2, <4>1, <4>3, <4>4
    <3> QED
      BY <3>3, <3>4
  <2>8. g[n] = f[n]
    <3>1. n \in 1..n
      BY <1>1, <1>9
    <3> QED
      BY <2>7, <3>1
  <2>9. FlattenSeq(ss) = f[n]
    BY <2>5, <2>8
  <2> HIDE DEF T
  <2> QED
    BY <1>6, <1>7, <2>9 DEF n, Joined
<1> QED
  BY <1>8, <1>9 DEF n

-----------------------------------------------------------------------------
(* Reading what was written, field by field.                               *)

Rec(f, u) == [fields |-> f, unknown |-> u]

Put(f, n, v) == [f EXCEPT ![n] = v]

\* A sequence of length n.
IsList(f, n) == f = [i \in 1..n |-> f[i]]

\* Elements that these bindings keep as they are.
Lacked(lacks, t, n) == <<t, n>> \in lacks
Unread(t, e, lacks) == e[1] \notin DOMAIN Fields[t] \/ Lacked(lacks, t, e[1])

LEMMA ReadKnown ==
    ASSUME NEW t, NEW lacks, NEW read, NEW e, ~Unread(t, e, lacks), NEW f, NEW u
    PROVE  ReadField(t, Rec(f, u), e, lacks, read) =
               Rec(Put(f, e[1], Merged(Fields[t][e[1]], f[e[1]], e[2], read)), u)
BY DEF ReadField, Rec, Unread, Lacked, Put

LEMMA ReadUnknown ==
    ASSUME NEW t, NEW lacks, NEW read, NEW e, Unread(t, e, lacks), NEW f, NEW u
    PROVE  ReadField(t, Rec(f, u), e, lacks, read) = Rec(f, Append(u, e))
BY DEF ReadField, Rec, Unread, Lacked

\* Elements that are not known are kept, in their order.
LEMMA ReadUnknowns ==
    ASSUME NEW t, NEW lacks, NEW read, NEW E, NEW D \in SUBSET E,
           NEW f, NEW u \in Seq(E), NEW w \in Seq(D), \A e \in D : Unread(t, e, lacks)
    PROVE  ReadFields(t, Rec(f, u), w, lacks, read) = Rec(f, u \o w)
<1> DEFINE Read(v) == ReadFields(t, Rec(f, u), v, lacks, read)
           B == {v \in Seq(D) : Read(v) # Rec(f, u \o v)}
<1> HIDE DEF Read
<1>1. SUFFICES B = {}
  BY DEF Read
<1>2. SUFFICES ASSUME B # {}
               PROVE  FALSE
  OBVIOUS
<1>3. PICK v \in B : v = <<>> \/ \E x \in Seq(D) \ B, e \in D : v = Append(x, e)
  BY <1>2, Shortest
<1>4. v # <<>>
  <2>1. Read(<<>>) = Rec(f, u)
    BY ReadNothing DEF Read
  <2>2. u \o <<>> = u
    OBVIOUS
  <2> QED
    BY <2>1, <2>2
<1>5. PICK x \in Seq(D), e \in D : v = Append(x, e) /\ x \notin B
  BY <1>3, <1>4
<1>6. Read(x) = Rec(f, u \o x)
  BY <1>5
<1>7. x \in Seq(E) /\ e \in E
  BY SeqMonotonic
<1>8. u \o v = Append(u \o x, e)
  BY <1>5, <1>7
<1> HIDE DEF B
<1>9. Read(v) = ReadField(t, Read(x), e, lacks, read)
  BY <1>5, ReadOneMore DEF Read
<1>10. Read(v) = Rec(f, Append(u \o x, e))
  BY <1>6, <1>9, ReadUnknown
<1> QED
  BY <1>3, <1>8, <1>10 DEF B

\* What one value of a field is on the wire, and what it is read as.
Packed(field, v, write) == IF field.of = "scalar" THEN <<v>> ELSE write[field.of][v]

Unpacked(field, v, read, write) ==
    IF field.of = "scalar" THEN v
    ELSE read[field.of][<<create(field.of), write[field.of][v]>>]

Back(field, vs, read, write) == [i \in DOMAIN vs |-> Unpacked(field, vs[i], read, write)]

\* The value of a field of a message that is new.
Start(field) == IF field.kind = "plain" THEN <<Default>> ELSE <<>>

\* Sequences of values that a field may have.
Fits(field, vs, V) ==
    /\ vs \in Seq(V)
    /\ field.kind = "plain" => Len(vs) = 1
    /\ field.kind \in {"optional", "message"} => Len(vs) <= 1

LEMMA WriteFieldIs ==
    ASSUME NEW t, NEW n, NEW V, NEW vs \in Seq(V), NEW write
    PROVE  WriteField(t, n, vs, write) =
               IF Fields[t][n].kind = "plain" /\ vs = <<Default>> THEN <<>>
               ELSE [i \in 1..Len(vs) |-> <<n, Packed(Fields[t][n], vs[i], write)>>]
<1>1. DOMAIN vs = 1..Len(vs)
  BY LenProperties
<1> QED
  BY <1>1 DEF WriteField, Packed

LEMMA WriteNothing ==
    ASSUME NEW t, NEW n, NEW write
    PROVE  WriteField(t, n, <<>>, write) = <<>>
BY DEF WriteField

\* A value that is merged into nothing is as it was read.
LEMMA MergedIntoNothing ==
    ASSUME NEW field, IsField(field), NEW v, NEW read, NEW write,
           field.kind # "repeated"
    PROVE  Merged(field, Start(field), Packed(field, v, write), read) =
               <<Unpacked(field, v, read, write)>>
BY DEF Merged, Packed, Unpacked, Start, IsField

LEMMA MergedBehind ==
    ASSUME NEW field, IsField(field), NEW v, NEW read, NEW write, NEW old,
           field.kind = "repeated"
    PROVE  Merged(field, old, Packed(field, v, write), read) =
               old \o <<Unpacked(field, v, read, write)>>
BY DEF Merged, Packed, Unpacked, IsField

\* What was written for a field is read into that field of a new message, value
\* by value, and changes nothing else.
LEMMA ReadWritten ==
    ASSUME NEW t \in DOMAIN Fields, NEW n \in DOMAIN Fields[t], NEW lacks, NEW read, NEW write,
           ~Lacked(lacks, t, n),
           NEW V, NEW vs, Fits(Fields[t][n], vs, V),
           NEW f, IsList(f, Len(Fields[t])), f[n] = Start(Fields[t][n]), NEW u
    PROVE  ReadFields(t, Rec(f, u), WriteField(t, n, vs, write), lacks, read) =
               Rec(Put(f, n, Back(Fields[t][n], vs, read, write)), u)
<1> DEFINE field == Fields[t][n]
           Read(w) == ReadFields(t, Rec(f, u), w, lacks, read)
           Goal(xs) == Read(WriteField(t, n, xs, write)) =
                           Rec(Put(f, n, Back(field, xs, read, write)), u)
<1>1. IsField(field) /\ n \in 1..Len(Fields[t]) /\ Len(Fields[t]) \in Nat
  BY FieldsAreTables DEF IsTable
<1>2. vs \in Seq(V) /\ Len(vs) \in Nat
  BY DEF Fits
<1> HIDE DEF field
<1>3. \A x : ~Unread(t, <<n, x>>, lacks)
  BY DEF Unread
<1>4. \A g, x : ReadField(t, Rec(g, u), <<n, x>>, lacks, read) =
                    Rec(Put(g, n, Merged(field, g[n], x, read)), u)
  BY <1>3, ReadKnown DEF field
<1>5. ASSUME NEW v
      PROVE  Read(<<<<n, Packed(field, v, write)>>>>) =
                 Rec(Put(f, n, Merged(field, f[n], Packed(field, v, write), read)), u)
  <2> DEFINE x == Packed(field, v, write)
  <2> HIDE DEF x
  <2>1. Read(<<<<n, x>>>>) = ReadField(t, Rec(f, u), <<n, x>>, lacks, read)
    <3> DEFINE e == <<n, x>>
    <3> HIDE DEF e
    <3>1. Read(<<e>>) = ReadField(t, Rec(f, u), e, lacks, read)
      BY ReadOne
    <3> QED
      BY <3>1 DEF e
  <2>2. ReadField(t, Rec(f, u), <<n, x>>, lacks, read) =
            Rec(Put(f, n, Merged(field, f[n], x, read)), u)
    BY <1>4
  <2> QED
    BY <2>1, <2>2 DEF x
<1>6. Read(<<>>) = Rec(f, u)
  BY ReadNothing
<1>7. f = Put(f, n, f[n])
  BY DEF Put, IsList
<1> HIDE DEF Read
<1>8. CASE field.kind # "repeated"
  <2>1. CASE vs = <<>>
    <3>1. field.kind # "plain"
      BY <2>1 DEF Fits, field
    <3>2. WriteField(t, n, vs, write) = <<>>
      BY <2>1, WriteNothing
    <3>3. Back(field, vs, read, write) = <<>> /\ f[n] = <<>>
      BY <2>1, <3>1 DEF Back, Start, field
    <3> QED
      BY <1>6, <1>7, <3>2, <3>3 DEF Read, field
  <2>2. CASE vs # <<>>
    <3>1. Len(vs) = 1
      <4>1. Len(vs) \in Nat \ {0}
        BY <1>2, <2>2, EmptySeq
      <4>2. field.kind \in {"plain", "optional", "message"}
        BY <1>1, <1>8 DEF IsField
      <4>3. Fits(field, vs, V)
        BY DEF field
      <4> DEFINE length == Len(vs)
      <4>4. length = 1 \/ length <= 1
        BY <4>2, <4>3 DEF Fits
      <4>5. length \in Nat /\ length # 0
        BY <4>1
      <4> HIDE DEF length
      <4>6. length = 1
        BY <4>4, <4>5
      <4> QED
        BY <4>6 DEF length
    <3>2. vs = <<vs[1]>>
      BY <1>2, <3>1
    <3>3. Back(field, vs, read, write) = <<Unpacked(field, vs[1], read, write)>>
      BY <3>2 DEF Back
    <3>4. CASE field.kind = "plain" /\ vs = <<Default>>
      <4>1. WriteField(t, n, vs, write) = <<>>
        BY <1>2, <3>4, WriteFieldIs DEF field
      <4>2. f[n] = <<Default>>
        BY <3>4 DEF Start, field
      <4>3. Unpacked(field, vs[1], read, write) = Default
        BY <1>1, <3>4 DEF Unpacked, IsField
      <4> QED
        BY <1>6, <1>7, <3>3, <4>1, <4>2, <4>3 DEF Read, field
    <3>5. CASE ~(field.kind = "plain" /\ vs = <<Default>>)
      <4>1. WriteField(t, n, vs, write) =
                [i \in 1..Len(vs) |-> <<n, Packed(field, vs[i], write)>>]
        BY <1>2, <3>5, WriteFieldIs DEF field
      <4>2. WriteField(t, n, vs, write) = <<<<n, Packed(field, vs[1], write)>>>>
        BY <3>1, <4>1
      <4>3. Merged(field, f[n], Packed(field, vs[1], write), read) =
                <<Unpacked(field, vs[1], read, write)>>
        BY <1>1, <1>8, MergedIntoNothing DEF field
      <4> QED
        BY <1>5, <3>3, <4>2, <4>3 DEF Read, field
    <3> QED
      BY <3>4, <3>5
  <2> QED
    BY <2>1, <2>2
<1>9. CASE field.kind = "repeated"
  <2> DEFINE B == {xs \in Seq(V) : ~Goal(xs)}
  <2> SUFFICES ASSUME B # {}
               PROVE  FALSE
    BY <1>2 DEF Read, field
  <2>1. PICK xs \in B : xs = <<>> \/ \E ys \in Seq(V) \ B, v \in V : xs = Append(ys, v)
    BY Shortest
  <2>2. xs # <<>>
    <3> SUFFICES ASSUME xs = <<>>
                 PROVE  Goal(xs)
      OBVIOUS
    <3>1. WriteField(t, n, xs, write) = <<>>
      BY WriteNothing
    <3>2. Back(field, xs, read, write) = <<>> /\ f[n] = <<>>
      BY <1>9 DEF Back, Start, field
    <3> QED
      BY <1>6, <1>7, <3>1, <3>2
  <2>3. PICK ys \in Seq(V), v \in V : xs = Append(ys, v) /\ ys \notin B
    BY <2>1, <2>2
  <2>4. Goal(ys)
    BY <2>3
  <2> DEFINE a == WriteField(t, n, ys, write)
             x == <<n, Packed(field, v, write)>>
             bs == Back(field, ys, read, write)
             b == Unpacked(field, v, read, write)
             E == {<<n, Packed(field, z, write)>> : z \in V}
             P == {Unpacked(field, z, read, write) : z \in V}
  <2>5. \A zs \in Seq(V) : WriteField(t, n, zs, write) =
            [i \in 1..Len(zs) |-> <<n, Packed(field, zs[i], write)>>]
    <3> TAKE zs \in Seq(V)
    <3>1. field.kind # "plain"
      BY <1>9
    <3> QED
      BY <3>1, WriteFieldIs DEF field
  <2>6. /\ Len(ys) \in Nat /\ Len(xs) = Len(ys) + 1 /\ xs[Len(xs)] = v /\ xs \in Seq(V)
        /\ DOMAIN xs = 1..Len(xs) /\ DOMAIN ys = 1..Len(ys)
        /\ \A i \in 1..Len(ys) : xs[i] = ys[i]
    BY <2>3, AppendProperties, LenProperties
  <2>7. a \in Seq(E) /\ Len(a) = Len(ys) /\ x \in E
    <3>1. a = [i \in 1..Len(ys) |-> <<n, Packed(field, ys[i], write)>>]
      BY <2>5
    <3>2. \A i \in 1..Len(ys) : <<n, Packed(field, ys[i], write)>> \in E
      BY ElementOfSeq
    <3>3. x \in E
      OBVIOUS
    <3> HIDE DEF a, E, x
    <3> QED
      BY <2>6, <3>1, <3>2, <3>3
  <2>8. WriteField(t, n, xs, write) = Append(a, x)
    <3>1. WriteField(t, n, xs, write) = [i \in 1..Len(xs) |-> <<n, Packed(field, xs[i], write)>>]
      BY <2>5, <2>6
    <3>2. a = [i \in 1..Len(ys) |-> <<n, Packed(field, ys[i], write)>>]
      BY <2>5
    <3> HIDE DEF a
    <3> QED
      BY <2>6, <2>7, <3>1, <3>2
  <2>9. bs \in Seq(P) /\ b \in P /\ Len(bs) = Len(ys)
    <3>1. bs = [i \in 1..Len(ys) |-> Unpacked(field, ys[i], read, write)]
      BY <2>6 DEF Back
    <3>2. \A i \in 1..Len(ys) : Unpacked(field, ys[i], read, write) \in P
      BY ElementOfSeq
    <3>3. b \in P
      OBVIOUS
    <3> HIDE DEF bs, P, b
    <3> QED
      BY <2>6, <3>1, <3>2, <3>3
  <2>10. Back(field, xs, read, write) = bs \o <<b>>
    <3>1. Back(field, xs, read, write) = [i \in 1..Len(xs) |-> Unpacked(field, xs[i], read, write)]
      BY <2>6 DEF Back
    <3>2. bs = [i \in 1..Len(ys) |-> Unpacked(field, ys[i], read, write)]
      BY <2>6 DEF Back
    <3>3. bs \o <<b>> = Append(bs, b)
      <4> HIDE DEF bs, b
      <4> QED
        BY <2>9, AppendIsConcat
    <3> HIDE DEF bs
    <3>4. Back(field, xs, read, write) = Append(bs, b)
      BY <2>6, <2>9, <3>1, <3>2
    <3> QED
      BY <3>3, <3>4
  <2> HIDE DEF a, x, bs, b, E, P, B
  <2>11. Read(Append(a, x)) = ReadField(t, Read(a), x, lacks, read)
    BY <2>7, ReadOneMore DEF Read
  <2> DEFINE g == Put(f, n, bs)
  <2>12. Read(a) = Rec(g, u)
    BY <2>4 DEF a, bs
  <2>13. g[n] = bs /\ Put(g, n, bs \o <<b>>) = Put(f, n, bs \o <<b>>)
    BY <1>1 DEF Put, IsList
  <2> HIDE DEF g
  <2>14. ReadField(t, Rec(g, u), x, lacks, read) =
             Rec(Put(g, n, Merged(field, bs, Packed(field, v, write), read)), u)
    BY <1>4, <2>13 DEF x
  <2>15. Merged(field, bs, Packed(field, v, write), read) = bs \o <<b>>
    BY <1>1, <1>9, MergedBehind DEF b
  <2>16. Read(Append(a, x)) = Rec(Put(f, n, bs \o <<b>>), u)
    BY <2>11, <2>12, <2>13, <2>14, <2>15
  <2>17. Goal(xs)
    BY <2>8, <2>10, <2>16
  <2> QED
    BY <2>1, <2>17 DEF B
<1> QED
  BY <1>8, <1>9

\* A wire made of pieces, one for each field, each of which only sets its field
\* and adds to what is not known.
EachSets(t, lacks, read, E, N, ps, hs, f0, g) ==
    \A n \in 1..N : \A f : \A u \in Seq(E) : IsList(f, N) /\ f[n] = f0[n] =>
        ReadFields(t, Rec(f, u), ps[n], lacks, read) = Rec(Put(f, n, g[n]), u \o hs[n])

\* The pieces are read one after the other, into the fields they are for.
LEMMA ReadPieces ==
    ASSUME NEW t, NEW lacks, NEW read, NEW E, NEW N \in Nat,
           NEW ps \in Seq(Seq(E)), Len(ps) = N,
           NEW hs \in Seq(Seq(E)), Len(hs) = N,
           NEW f0, IsList(f0, N), NEW g, IsList(g, N), NEW u0 \in Seq(E),
           EachSets(t, lacks, read, E, N, ps, hs, f0, g)
    PROVE  ReadFields(t, Rec(f0, u0), FlattenSeq(ps), lacks, read) =
               Rec(g, u0 \o FlattenSeq(hs))
<1> DEFINE Read(m, w) == ReadFields(t, m, w, lacks, read)
           mix == [k \in 0..N |-> [n \in 1..N |-> IF n <= k THEN g[n] ELSE f0[n]]]
<1>1. \A k \in 1..N : ps[k] \in Seq(E) /\ hs[k] \in Seq(E)
  OBVIOUS
<1>2. PICK a : Joined(a, ps, E)
  BY FlattenPrefixes
<1>3. PICK b : Joined(b, hs, E)
  BY FlattenPrefixes
<1>4. /\ a \in [0..N -> Seq(E)] /\ a[0] = <<>> /\ FlattenSeq(ps) = a[N]
      /\ \A k \in 1..N : a[k] = a[k - 1] \o ps[k]
  BY <1>2 DEF Joined
<1>5. /\ b \in [0..N -> Seq(E)] /\ b[0] = <<>> /\ FlattenSeq(hs) = b[N]
       /\ \A k \in 1..N : b[k] = b[k - 1] \o hs[k]
  BY <1>3 DEF Joined
<1>6. mix[0] = f0 /\ mix[N] = g /\ \A k \in 0..N : IsList(mix[k], N)
  <2>1. ASSUME NEW k \in 0..N
        PROVE  mix[k] = [n \in 1..N |-> IF n <= k THEN g[n] ELSE f0[n]]
    OBVIOUS
  <2>2. 0 \in 0..N /\ N \in 0..N /\ \A n \in 1..N : n <= N /\ ~(n <= 0)
    OBVIOUS
  <2> HIDE DEF mix
  <2>3. mix[0] = [n \in 1..N |-> f0[n]]
    BY <2>1, <2>2
  <2>4. mix[N] = [n \in 1..N |-> g[n]]
    BY <2>1, <2>2
  <2>5. \A k \in 0..N : IsList(mix[k], N)
    BY <2>1 DEF IsList
  <2> QED
    BY <2>3, <2>4, <2>5 DEF IsList
<1>7. \A k \in 1..N : mix[k - 1][k] = f0[k] /\ mix[k] = Put(mix[k - 1], k, g[k])
  <2> TAKE k \in 1..N
  <2>1. k - 1 \in 0..N /\ k \in 0..N
    OBVIOUS
  <2>2. mix[k - 1] = [n \in 1..N |-> IF n <= k - 1 THEN g[n] ELSE f0[n]]
    BY <2>1
  <2>3. mix[k] = [n \in 1..N |-> IF n <= k THEN g[n] ELSE f0[n]]
    BY <2>1
  <2> DEFINE old == mix[k - 1]
             new == mix[k]
  <2>4. IsList(old, N) /\ IsList(new, N)
    BY <1>6, <2>1
  <2>5. old[k] = f0[k] /\ \A n \in 1..N : new[n] = IF n = k THEN g[k] ELSE old[n]
    <3>1. \A n \in 1..N : n <= k <=> n = k \/ n <= k - 1
      OBVIOUS
    <3> QED
      BY <2>2, <2>3, <3>1
  <2> HIDE DEF mix, old, new
  <2>6. new = Put(old, k, g[k])
    BY <2>4, <2>5 DEF Put, IsList
  <2> QED
    BY <2>5, <2>6 DEF old, new
<1> HIDE DEF Read, mix
<1> DEFINE T == {k \in 0..N : Read(Rec(f0, u0), a[k]) # Rec(mix[k], u0 \o b[k])}
<1>8. T = {}
  <2> SUFFICES ASSUME T # {}
               PROVE  FALSE
    OBVIOUS
  <2>1. T \in SUBSET Nat
    OBVIOUS
  <2>2. PICK k \in T : \A j \in T : k <= j
    BY <2>1, LeastNatural
  <2>3. k # 0
    <3>1. Read(Rec(f0, u0), <<>>) = Rec(f0, u0)
      BY ReadNothing DEF Read
    <3>2. u0 \o <<>> = u0
      OBVIOUS
    <3> QED
      BY <1>4, <1>5, <1>6, <3>1, <3>2
  <2>4. k \in 1..N /\ k - 1 \in 0..N /\ k - 1 < k
    BY <2>1, <2>2, <2>3
  <2>5. k - 1 \notin T
    BY <2>1, <2>2, <2>4
  <2>6. Read(Rec(f0, u0), a[k - 1]) = Rec(mix[k - 1], u0 \o b[k - 1])
    BY <2>4, <2>5
  <2> DEFINE v == u0 \o b[k - 1]
  <2>7. a[k - 1] \in Seq(E) /\ b[k - 1] \in Seq(E) /\ a[k] = a[k - 1] \o ps[k]
    BY <1>4, <1>5, <2>4
  <2>8. v \in Seq(E) /\ u0 \o b[k] = v \o hs[k]
    <3>1. b[k] = b[k - 1] \o hs[k]
      BY <1>5, <2>4
    <3> DEFINE x == b[k - 1]
               y == hs[k]
    <3>2. u0 \in Seq(E) /\ x \in Seq(E) /\ y \in Seq(E)
      BY <1>1, <2>4, <2>7
    <3> HIDE DEF x, y
    <3>3. u0 \o x \in Seq(E)
      BY <3>2, ConcatProperties
    <3>4. (u0 \o x) \o y = u0 \o (x \o y)
      BY <3>2, ConcatAssociative, SMTT(30)
    <3> QED
      BY <3>1, <3>3, <3>4 DEF x, y
  <2>9. Read(Rec(f0, u0), a[k]) = Read(Read(Rec(f0, u0), a[k - 1]), ps[k])
    <3> DEFINE x == a[k - 1]
               y == ps[k]
    <3>1. x \in Seq(E) /\ y \in Seq(E)
      BY <1>1, <2>4, <2>7
    <3> HIDE DEF x, y
    <3>2. Read(Rec(f0, u0), x \o y) = Read(Read(Rec(f0, u0), x), y)
      BY <3>1, ReadConcat DEF Read
    <3> QED
      BY <2>7, <3>2 DEF x, y
  <2> HIDE DEF v
  <2>10. Read(Rec(mix[k - 1], v), ps[k]) = Rec(Put(mix[k - 1], k, g[k]), v \o hs[k])
    <3>1. IsList(mix[k - 1], N) /\ mix[k - 1][k] = f0[k]
      BY <1>6, <1>7, <2>4
    <3> QED
      BY <2>4, <2>8, <3>1 DEF Read, EachSets
  <2>11. mix[k] = Put(mix[k - 1], k, g[k])
    BY <1>7, <2>4
  <2>12. Read(Rec(f0, u0), a[k]) = Rec(mix[k], u0 \o b[k])
    BY <2>6, <2>8, <2>9, <2>10, <2>11 DEF v
  <2> QED
    BY <2>2, <2>12
<1>9. N \in 0..N
  OBVIOUS
<1>10. Read(Rec(f0, u0), a[N]) = Rec(mix[N], u0 \o b[N])
  BY <1>8, <1>9
<1> HIDE DEF T
<1> QED
  BY <1>6, <1>10, <1>4, <1>5 DEF Read

\* The pieces there are: a field that is read, one that is not, and nothing.
FitsSome(field, vs) == \E V : Fits(field, vs, V)

LEMMA PieceRead ==
    ASSUME NEW t \in DOMAIN Fields, NEW n \in 1..Len(Fields[t]), NEW lacks, NEW read, NEW write,
           NEW vs, NEW f, NEW u,
           ~Lacked(lacks, t, n), FitsSome(Fields[t][n], vs),
           IsList(f, Len(Fields[t])), f[n] = Start(Fields[t][n])
    PROVE  ReadFields(t, Rec(f, u), WriteField(t, n, vs, write), lacks, read) =
               Rec(Put(f, n, Back(Fields[t][n], vs, read, write)), u)
<1>1. PICK V : Fits(Fields[t][n], vs, V)
  BY DEF FitsSome
<1>2. n \in DOMAIN Fields[t]
  BY FieldsAreTables DEF IsTable
<1> QED
  BY <1>1, <1>2, ReadWritten

-----------------------------------------------------------------------------
(* One level: submessages come through a relay, so messages do.            *)

\* Written by these bindings, and read and written by theirs on the way, every
\* message is read as it was; what is on the wire has the form of one.
RoundTrip(messages, wires, objects, bytes, write, theirs, ours) ==
    \A t \in DOMAIN Fields : \A m \in messages[t] :
        LET written == write[t][m]
            read == theirs[t][<<create(t), written>>]
            relayed == write[t][read]
        IN /\ written \in wires[t]
           /\ read \in objects
           /\ relayed \in bytes
           /\ ours[t][<<create(t), written>>] = m
           /\ ours[t][<<create(t), relayed>>] = m

\* The values of a field, one by one.
ValueOf(field, messages) == IF field.of = "scalar" THEN Scalar ELSE messages[field.of]

LEMMA ValuesFit ==
    ASSUME NEW field, IsField(field), NEW messages, NEW vs
    PROVE  vs \in Values(field, messages) <=> Fits(field, vs, ValueOf(field, messages))
BY DEF Values, Fits, ValueOf, IsField

LEMMA WriteFieldIn ==
    ASSUME NEW t, NEW n, NEW V, NEW vs \in Seq(V), NEW write, NEW X,
           \A v \in V : <<n, Packed(Fields[t][n], v, write)>> \in X
    PROVE  WriteField(t, n, vs, write) \in Seq(X)
<1> DEFINE w == [i \in 1..Len(vs) |-> <<n, Packed(Fields[t][n], vs[i], write)>>]
<1>1. \A i \in 1..Len(vs) : <<n, Packed(Fields[t][n], vs[i], write)>> \in X
  BY ElementOfSeq
<1>2. w \in Seq(X)
  <2>1. Len(vs) \in Nat
    BY LenProperties
  <2>2. w \in [1..Len(vs) -> X]
    BY <1>1
  <2> HIDE DEF w
  <2> QED
    BY <2>1, <2>2
<1>3. WriteField(t, n, vs, write) = <<>> \/ WriteField(t, n, vs, write) = w
  BY WriteFieldIs
<1> QED
  BY <1>2, <1>3, EmptySeq

LEMMA BackIn ==
    ASSUME NEW field, NEW V, NEW vs, Fits(field, vs, V), NEW read, NEW write, NEW X,
           \A v \in V : Unpacked(field, v, read, write) \in X
    PROVE  Fits(field, Back(field, vs, read, write), X)
<1>1. vs \in Seq(V) /\ Len(vs) \in Nat /\ DOMAIN vs = 1..Len(vs)
  BY LenProperties DEF Fits
<1>2. \A i \in 1..Len(vs) : Unpacked(field, vs[i], read, write) \in X
  BY <1>1, ElementOfSeq
<1> DEFINE b == Back(field, vs, read, write)
<1>3. b \in [1..Len(vs) -> X]
  BY <1>1, <1>2 DEF Back
<1> HIDE DEF b
<1>4. b \in Seq(X) /\ Len(b) = Len(vs)
  BY <1>1, <1>3
<1> QED
  BY <1>4 DEF b, Fits

LEMMA BackIsSame ==
    ASSUME NEW field, NEW V, NEW vs \in Seq(V), NEW read, NEW write,
           \A v \in V : Unpacked(field, v, read, write) = v
    PROVE  Back(field, vs, read, write) = vs
<1>1. \A i \in 1..Len(vs) : vs[i] \in V
  BY ElementOfSeq
<1>2. DOMAIN vs = 1..Len(vs) /\ Len(vs) \in Nat
  BY LenProperties
<1>3. vs = [i \in 1..Len(vs) |-> vs[i]]
  BY <1>2
<1> QED
  BY <1>1, <1>2, <1>3 DEF Back

LEMMA BackAndBack ==
    ASSUME NEW field, NEW V, NEW vs \in Seq(V), NEW read, NEW ours, NEW write,
           \A v \in V : Unpacked(field, Unpacked(field, v, read, write), ours, write) = v
    PROVE  Back(field, Back(field, vs, read, write), ours, write) = vs
<1>1. \A i \in 1..Len(vs) : vs[i] \in V
  BY ElementOfSeq
<1>2. DOMAIN vs = 1..Len(vs) /\ Len(vs) \in Nat
  BY LenProperties
<1>3. vs = [i \in 1..Len(vs) |-> vs[i]]
  BY <1>2
<1> DEFINE b == Back(field, vs, read, write)
<1>4. DOMAIN b = 1..Len(vs) /\ \A i \in 1..Len(vs) : b[i] = Unpacked(field, vs[i], read, write)
  BY <1>2 DEF Back
<1> HIDE DEF b
<1>5. \A i \in 1..Len(vs) : Unpacked(field, b[i], ours, write) = vs[i]
  BY <1>1, <1>4
<1>6. Back(field, b, ours, write) = [i \in 1..Len(vs) |-> Unpacked(field, b[i], ours, write)]
  BY <1>4 DEF Back
<1>7. Back(field, b, ours, write) = [i \in 1..Len(vs) |-> vs[i]]
  BY <1>5, <1>6
<1> QED
  BY <1>3, <1>7 DEF b

LEMMA FlattenNothing ==
    ASSUME NEW n \in Nat
    PROVE  FlattenSeq([k \in 1..n |-> <<>>]) = <<>>
<1> DEFINE S == {}
           ss == [k \in 1..n |-> <<>>]
<1>1. ss \in Seq(Seq(S)) /\ Len(ss) = n /\ \A k \in 1..n : ss[k] = <<>>
  <2>1. <<>> \in Seq(S)
    OBVIOUS
  <2> QED
    BY <2>1
<1> HIDE DEF S, ss
<1>2. PICK f : Joined(f, ss, S)
  BY <1>1, FlattenPrefixes
<1>3. f \in [0..n -> Seq(S)] /\ f[0] = <<>> /\ FlattenSeq(ss) = f[n]
      /\ \A k \in 1..n : f[k] = f[k - 1] \o ss[k]
  BY <1>1, <1>2 DEF Joined
<1> DEFINE T == {k \in 0..n : f[k] # <<>>}
<1>4. T = {}
  <2> SUFFICES ASSUME T # {}
               PROVE  FALSE
    OBVIOUS
  <2>1. T \in SUBSET Nat
    OBVIOUS
  <2>2. PICK k \in T : \A j \in T : k <= j
    BY <2>1, LeastNatural
  <2>3. k \in 1..n /\ k - 1 \in 0..n /\ k - 1 < k
    BY <1>3, <2>2
  <2>4. f[k - 1] = <<>>
    BY <2>2, <2>3
  <2>5. f[k] = <<>> \o <<>>
    BY <1>1, <1>3, <2>3, <2>4
  <2>6. <<>> \o <<>> = <<>>
    OBVIOUS
  <2> QED
    BY <2>2, <2>5, <2>6
<1>5. n \in 0..n
  OBVIOUS
<1>6. f[n] = <<>>
  BY <1>4, <1>5
<1> QED
  BY <1>3, <1>6 DEF ss

LEMMA FlattenIn ==
    ASSUME NEW S, NEW ss \in Seq(Seq(S))
    PROVE  FlattenSeq(ss) \in Seq(S)
<1>1. PICK f : Joined(f, ss, S)
  BY FlattenPrefixes
<1>2. Len(ss) \in 0..Len(ss)
  BY LenProperties
<1> QED
  BY <1>1, <1>2 DEF Joined

\* What a field of a message goes through.
FieldTrips(t, n, vs, back, X, O, B, W, R0) ==
    LET field == Fields[t][n]
    IN /\ Fits(field, vs, Scalar \cup O)
       /\ Fits(field, back, Scalar \cup O)
       /\ WriteField(t, n, vs, W) \in Seq({n} \X Content(field, X))
       /\ Content(field, X) \subseteq Seq(Scalar) \cup B
       /\ WriteField(t, n, back, W) \in Seq({n} \X (Seq(Scalar) \cup B))
       /\ Back(field, vs, R0, W) = vs
       /\ Back(field, back, R0, W) = vs

Within(M, X, O, B) == \A s \in DOMAIN Fields : M[s] \subseteq O /\ X[s] \subseteq B

\* A field comes through a relay when the messages of the level below do.
LEMMA FieldTrip ==
    ASSUME NEW t \in DOMAIN Fields, NEW n \in DOMAIN Fields[t],
           NEW M, NEW X, NEW O, NEW B, NEW W, NEW R, NEW R0,
           RoundTrip(M, X, O, B, W, R, R0), Within(M, X, O, B),
           NEW vs \in Values(Fields[t][n], M)
    PROVE  FieldTrips(t, n, vs, Back(Fields[t][n], vs, R, W), X, O, B, W, R0)
<1> DEFINE field == Fields[t][n]
           V == ValueOf(field, M)
           back == Back(field, vs, R, W)
           U == {Unpacked(field, v, R, W) : v \in V}
<1>1. IsField(field)
  BY FieldsAreTables DEF IsTable
<1>2. Fits(field, vs, V)
  BY <1>1, ValuesFit
<1> HIDE DEF field
<1>3. field.of \in DOMAIN Fields \/ field.of = "scalar"
  BY <1>1 DEF IsField
<1>4. field.of # "scalar" =>
          \A v \in V :
              /\ Packed(field, v, W) \in X[field.of]
              /\ Unpacked(field, v, R, W) \in O
              /\ Packed(field, Unpacked(field, v, R, W), W) \in B
              /\ Unpacked(field, v, R0, W) = v
              /\ Unpacked(field, Unpacked(field, v, R, W), R0, W) = v
  <2> SUFFICES ASSUME field.of # "scalar", NEW v \in V
               PROVE  /\ Packed(field, v, W) \in X[field.of]
                      /\ Unpacked(field, v, R, W) \in O
                      /\ Packed(field, Unpacked(field, v, R, W), W) \in B
                      /\ Unpacked(field, v, R0, W) = v
                      /\ Unpacked(field, Unpacked(field, v, R, W), R0, W) = v
    OBVIOUS
  <2>1. v \in M[field.of] /\ field.of \in DOMAIN Fields
    BY <1>3 DEF ValueOf
  <2> QED
    BY <2>1 DEF RoundTrip, Packed, Unpacked
<1>5. field.of = "scalar" =>
          \A v \in V :
              /\ v \in Scalar
              /\ Packed(field, v, W) = <<v>>
              /\ Unpacked(field, v, R, W) = v
              /\ Unpacked(field, v, R0, W) = v
  BY DEF Packed, Unpacked, ValueOf
<1>6. V \subseteq Scalar \cup O
  BY <1>3 DEF ValueOf, Within
<1>7. U \subseteq Scalar \cup O
  BY <1>4, <1>5
<1> HIDE DEF V
<1>8. Fits(field, vs, Scalar \cup O)
  BY <1>2, <1>6, SeqMonotonic DEF Fits
<1>9. Fits(field, back, U)
  <2>1. \A v \in V : Unpacked(field, v, R, W) \in U
    OBVIOUS
  <2> HIDE DEF U
  <2> QED
    BY <1>2, <2>1, BackIn
<1> HIDE DEF U
<1>10. Fits(field, back, Scalar \cup O)
  BY <1>7, <1>9, SeqMonotonic DEF Fits
<1>11. WriteField(t, n, vs, W) \in Seq({n} \X Content(field, X))
  <2>1. ASSUME NEW v \in V
        PROVE  <<n, Packed(field, v, W)>> \in {n} \X Content(field, X)
    <3>1. CASE field.of # "scalar"
      BY <1>4, <3>1 DEF Content
    <3>2. CASE field.of = "scalar"
      <4>1. v \in Scalar /\ Packed(field, v, W) = <<v>> /\ <<v>> \in Seq(Scalar)
        BY <1>5, <3>2
      <4> QED
        BY <3>2, <4>1 DEF Content
    <3> QED
      BY <3>1, <3>2
  <2>2. vs \in Seq(V)
    BY <1>2 DEF Fits
  <2> DEFINE E == {n} \X Content(field, X)
  <2>3. \A v \in V : <<n, Packed(field, v, W)>> \in E
    BY <2>1
  <2> HIDE DEF E
  <2>4. WriteField(t, n, vs, W) \in Seq(E)
    BY <2>2, <2>3, WriteFieldIn DEF field
  <2> QED
    BY <2>4 DEF E
<1>12. Content(field, X) \subseteq Seq(Scalar) \cup B
  <2>1. \A v \in Scalar : <<v>> \in Seq(Scalar)
    OBVIOUS
  <2> QED
    BY <1>3, <2>1 DEF Content, Within
<1>13. WriteField(t, n, back, W) \in Seq({n} \X (Seq(Scalar) \cup B))
  <2> DEFINE E == {n} \X (Seq(Scalar) \cup B)
  <2>1. ASSUME NEW v \in V
        PROVE  <<n, Packed(field, Unpacked(field, v, R, W), W)>> \in E
    <3>1. CASE field.of # "scalar"
      BY <1>4, <3>1
    <3>2. CASE field.of = "scalar"
      <4>1. <<v>> \in Seq(Scalar)
        BY <1>5, <3>2
      <4> QED
        BY <1>5, <3>2, <4>1
    <3> QED
      BY <3>1, <3>2
  <2>2. \A x \in U : <<n, Packed(field, x, W)>> \in E
    BY <2>1 DEF U
  <2>3. back \in Seq(U)
    BY <1>9 DEF Fits
  <2> HIDE DEF E, back
  <2>4. WriteField(t, n, back, W) \in Seq(E)
    BY <2>2, <2>3, WriteFieldIn DEF field
  <2> QED
    BY <2>4 DEF E
<1>14. Back(field, vs, R0, W) = vs
  <2>1. vs \in Seq(V) /\ \A v \in V : Unpacked(field, v, R0, W) = v
    BY <1>2, <1>4, <1>5 DEF Fits
  <2> QED
    BY <2>1, BackIsSame
<1>15. Back(field, back, R0, W) = vs
  <2>1. vs \in Seq(V) /\ \A v \in V : Unpacked(field, Unpacked(field, v, R, W), R0, W) = v
    BY <1>2, <1>4, <1>5 DEF Fits
  <2> QED
    BY <2>1, BackAndBack
<1> QED
  BY <1>8, <1>10, <1>11, <1>12, <1>13, <1>14, <1>15 DEF field, FieldTrips

\* The fields and the unknown elements of a message of type t.
Unknowns == Seq({NewField} \X Seq(Scalar))

HasForm(t, f, u, M, O) ==
    /\ f \in [DOMAIN Fields[t] -> Seq(Scalar \cup O)]
    /\ \A n \in DOMAIN Fields[t] : f[n] \in Values(Fields[t][n], M)
    /\ u \in Unknowns

\* What a message of type t goes through.
MessageTrips(t, m, lacks, X, O, B, W, R, R0) ==
    LET E == Nat \X (Seq(Scalar) \cup B)
        written == WriteFields(t, m, W)
        theirs == ReadFields(t, create(t), written, lacks, R)
        relayed == WriteFields(t, theirs, W)
    IN /\ written \in Seq({e \in E : IsElement(t, e, X)})
       /\ theirs \in [fields : Seq(Seq(Scalar \cup O)), unknown : Seq(E)]
       /\ relayed \in Seq(E)
       /\ ReadFields(t, create(t), written, {}, R0) = m
       /\ ReadFields(t, create(t), relayed, {}, R0) = m

\* A message comes through a relay when the messages of the level below do.
LEMMA MessageTrip ==
    ASSUME NEW t \in DOMAIN Fields, NEW lacks,
           NEW M, NEW X, NEW O, NEW B, NEW W, NEW R, NEW R0, NEW f, NEW u,
           RoundTrip(M, X, O, B, W, R, R0), Within(M, X, O, B), HasForm(t, f, u, M, O)
    PROVE  MessageTrips(t, Rec(f, u), lacks, X, O, B, W, R, R0)
<1> SUFFICES ASSUME f \in [DOMAIN Fields[t] -> Seq(Scalar \cup O)],
                    \A n \in DOMAIN Fields[t] : f[n] \in Values(Fields[t][n], M),
                    u \in Seq({NewField} \X Seq(Scalar))
             PROVE  MessageTrips(t, Rec(f, u), lacks, X, O, B, W, R, R0)
  BY DEF HasForm, Unknowns
<1> DEFINE nil == <<>>
           known == {}
           N == Len(Fields[t])
           F == Seq(Scalar \cup O)
           E == Nat \X (Seq(Scalar) \cup B)
           D == {e \in E : IsElement(t, e, X)}
           start == [n \in 1..N |-> Start(Fields[t][n])]
           back == [n \in 1..N |-> Back(Fields[t][n], f[n], R, W)]
           ps == [n \in 1..N |-> WriteField(t, n, f[n], W)]
           hs == [n \in 1..N |-> IF Lacked(lacks, t, n) THEN ps[n] ELSE nil]
           none == [n \in 1..N |-> nil]
           g == [n \in 1..N |-> IF Lacked(lacks, t, n) THEN start[n] ELSE back[n]]
           qs == [n \in 1..N |-> WriteField(t, n, g[n], W)]
           h == [n \in 1..N |-> IF Lacked(lacks, t, n) THEN start[n] ELSE f[n]]
           unknown == FlattenSeq(hs) \o u
<1>1. DOMAIN Fields[t] = 1..N /\ N \in Nat /\ N < NewField
  BY FieldsAreTables DEF IsTable
<1>2. create(t) = Rec(start, nil)
  BY <1>1 DEF create, Rec, Start
<1>3. \A n \in 1..N : Start(Fields[t][n]) \in F
  <2>1. nil \in F
    OBVIOUS
  <2>2. <<Default>> \in F
    BY DEF Scalar
  <2> HIDE DEF F
  <2> QED
    BY <2>1, <2>2 DEF Start
<1>4. ASSUME NEW n \in 1..N
      PROVE  /\ Fits(Fields[t][n], f[n], Scalar \cup O)
             /\ Fits(Fields[t][n], back[n], Scalar \cup O)
             /\ ps[n] \in Seq({n} \X Content(Fields[t][n], X))
             /\ Content(Fields[t][n], X) \subseteq Seq(Scalar) \cup B
             /\ WriteField(t, n, back[n], W) \in Seq({n} \X (Seq(Scalar) \cup B))
             /\ Back(Fields[t][n], f[n], R0, W) = f[n]
             /\ Back(Fields[t][n], back[n], R0, W) = f[n]
  <2>1. f[n] \in Values(Fields[t][n], M) /\ n \in DOMAIN Fields[t]
    BY <1>1
  <2>2. back[n] = Back(Fields[t][n], f[n], R, W) /\ ps[n] = WriteField(t, n, f[n], W)
    OBVIOUS
  <2> HIDE DEF back, ps
  <2>3. FieldTrips(t, n, f[n], back[n], X, O, B, W, R0)
    BY <2>1, <2>2, FieldTrip
  <2> QED
    BY <2>2, <2>3 DEF FieldTrips
<1>5. \A n \in 1..N : {n} \X Content(Fields[t][n], X) \subseteq D
  <2> TAKE n \in 1..N
  <2>1. n \in Nat /\ n \in DOMAIN Fields[t]
    BY <1>1
  <2>2. Content(Fields[t][n], X) \subseteq Seq(Scalar) \cup B
    BY <1>4
  <2> HIDE DEF E, N
  <2>3. ASSUME NEW c \in Content(Fields[t][n], X)
        PROVE  <<n, c>> \in D
    <3> DEFINE e == <<n, c>>
    <3>1. e \in E /\ e[1] = n /\ e[2] = c
      BY <2>1, <2>2 DEF E
    <3> HIDE DEF e
    <3>2. IsElement(t, e, X)
      BY <2>1, <3>1 DEF IsElement
    <3> QED
      BY <3>1, <3>2 DEF e
  <2> QED
    BY <2>3
<1>6. {NewField} \X Seq(Scalar) \subseteq D
  BY <1>1 DEF IsElement, NewField
<1>7. \A n \in 1..N : {n} \X (Seq(Scalar) \cup B) \subseteq E
  OBVIOUS
<1>8. start \in [1..N -> F] /\ f \in [1..N -> F] /\ back \in [1..N -> F]
  <2>1. \A n \in 1..N : back[n] \in F
    BY <1>4 DEF Fits
  <2> QED
    BY <1>1, <1>3, <2>1
<1>9. g \in [1..N -> F] /\ h \in [1..N -> F]
  <2> HIDE DEF F, start, back
  <2> QED
    BY <1>8
<1>10. \A n \in 1..N : ps[n] \in Seq(D) /\ ps[n] \in Seq(E)
  <2> TAKE n \in 1..N
  <2>1. ps[n] \in Seq({n} \X Content(Fields[t][n], X)) /\ D \subseteq E
    BY <1>4
  <2> HIDE DEF ps, D, E
  <2> QED
    BY <1>5, <2>1, SeqMonotonic
<1> HIDE DEF N, F, E, D, start, back, nil, known
<1>11. nil \in Seq(E)
  BY DEF nil
<1>12. ps \in Seq(Seq(D)) /\ ps \in Seq(Seq(E)) /\ Len(ps) = N
  <2>1. ps \in [1..N -> Seq(D)] /\ ps \in [1..N -> Seq(E)]
    BY <1>10
  <2> HIDE DEF ps
  <2> QED
    BY <1>1, <2>1
<1>13. hs \in Seq(Seq(E)) /\ Len(hs) = N /\ none \in Seq(Seq(E)) /\ Len(none) = N
  <2>1. hs \in [1..N -> Seq(E)] /\ none \in [1..N -> Seq(E)]
    BY <1>10, <1>11
  <2> HIDE DEF hs, none
  <2> QED
    BY <1>1, <2>1
<1>14. \A n \in 1..N : Lacked(lacks, t, n) => WriteField(t, n, g[n], W) = nil
  <2> TAKE n \in 1..N
  <2> HAVE Lacked(lacks, t, n)
  <2>1. g[n] = Start(Fields[t][n])
    BY DEF start
  <2>2. CASE Fields[t][n].kind = "plain"
    BY <2>1, <2>2 DEF Start, WriteField, nil
  <2>3. CASE Fields[t][n].kind # "plain"
    BY <2>1, <2>3, WriteNothing DEF Start, nil
  <2> QED
    BY <2>2, <2>3
<1>15. qs \in Seq(Seq(E)) /\ Len(qs) = N
  <2>1. \A n \in 1..N : WriteField(t, n, g[n], W) \in Seq(E)
    <3> TAKE n \in 1..N
    <3>1. CASE ~Lacked(lacks, t, n)
      <4>1. WriteField(t, n, back[n], W) \in Seq({n} \X (Seq(Scalar) \cup B))
        BY <1>4
      <4> QED
        BY <1>7, <3>1, <4>1, SeqMonotonic
    <3> QED
      BY <1>11, <1>14, <3>1
  <2>2. qs \in [1..N -> Seq(E)]
    BY <2>1
  <2> HIDE DEF qs
  <2> DEFINE S == Seq(E)
  <2> HIDE DEF S
  <2>3. N \in Nat /\ qs \in [1..N -> S]
    BY <1>1, <2>2 DEF S
  <2>4. qs \in Seq(S) /\ Len(qs) = N
    BY <2>3
  <2> QED
    BY <2>4 DEF S
<1>16. u \in Seq(D) /\ u \in Seq(E)
  <2>1. D \subseteq E
    BY DEF D
  <2> QED
    BY <1>6, <2>1, SeqMonotonic
<1>17. FlattenSeq(hs) \in Seq(E) /\ unknown \in Seq(E) /\ FlattenSeq(qs) \in Seq(E)
  BY <1>13, <1>15, <1>16, FlattenIn, ConcatProperties
<1>18. FlattenSeq(none) = nil
  BY <1>1, FlattenNothing DEF nil
<1>19. FlattenSeq(ps) \in Seq(D) /\ FlattenSeq(ps) \in Seq(E)
  BY <1>12, FlattenIn
<1> DEFINE m == Rec(f, u)
           written == WriteFields(t, m, W)
<1>20. written = FlattenSeq(ps) \o u
  BY <1>1 DEF WriteFields, Rec
<1>21. \A e \in {NewField} \X Seq(Scalar) : \A l : Unread(t, e, l)
  BY <1>1 DEF Unread, NewField
<1>22. {NewField} \X Seq(Scalar) \subseteq E
  BY <1>6 DEF D
<1>23. ASSUME NEW l, NEW read, NEW f1, NEW u1 \in Seq(E)
       PROVE  ReadFields(t, Rec(f1, u1), u, l, read) = Rec(f1, u1 \o u)
  BY <1>21, <1>22, ReadUnknowns
<1>24. N = Len(Fields[t])
  BY DEF N
<1>25. /\ IsList(start, N) /\ IsList(f, N) /\ IsList(g, N) /\ IsList(h, N)
       /\ \A n \in 1..N : start[n] = Start(Fields[t][n])
  BY <1>8 DEF IsList, start
<1> DEFINE Read(l, read, o, w) == ReadFields(t, o, w, l, read)
<1>26. ASSUME NEW o, NEW l, NEW read, NEW a \in Seq(E), NEW b \in Seq(E)
       PROVE  Read(l, read, o, a \o b) = Read(l, read, Read(l, read, o, a), b)
  BY ReadConcat
<1>27. \A n \in 1..N :
           /\ ps[n] = WriteField(t, n, f[n], W)
           /\ qs[n] = WriteField(t, n, g[n], W)
           /\ hs[n] = IF Lacked(lacks, t, n) THEN ps[n] ELSE nil
           /\ g[n] = IF Lacked(lacks, t, n) THEN start[n] ELSE back[n]
           /\ h[n] = IF Lacked(lacks, t, n) THEN start[n] ELSE f[n]
           /\ none[n] = nil
           /\ back[n] = Back(Fields[t][n], f[n], R, W)
  BY DEF back
<1> HIDE DEF ps, hs, g, h, qs, none, Read
<1>28. \A u1 \in Seq(E) : u1 \o nil = u1 /\ nil \o u1 = u1
  BY ConcatEmptySeq DEF nil
<1>29. \A n : ~Lacked(known, t, n)
  BY DEF Lacked, known
<1>30. ASSUME NEW n \in 1..N, NEW l, NEW read, NEW f1, NEW u1, NEW vs,
              ~Lacked(l, t, n), IsList(f1, N), f1[n] = start[n],
              FitsSome(Fields[t][n], vs)
       PROVE  Read(l, read, Rec(f1, u1), WriteField(t, n, vs, W)) =
                  Rec(Put(f1, n, Back(Fields[t][n], vs, read, W)), u1)
  <2>1. n \in 1..Len(Fields[t]) /\ IsList(f1, Len(Fields[t])) /\ f1[n] = Start(Fields[t][n])
    BY <1>24, <1>25, <1>30
  <2> QED
    BY <1>30, <2>1, PieceRead, Z3 DEF Read
<1>31. ASSUME NEW n \in 1..N, NEW f1, IsList(f1, N)
       PROVE  Put(f1, n, f1[n]) = f1
  BY <1>31 DEF Put, IsList
<1>32. ASSUME NEW n \in 1..N, NEW l, NEW read, NEW f1, NEW u1, IsList(f1, N)
       PROVE  Read(l, read, Rec(f1, u1), nil) = Rec(Put(f1, n, f1[n]), u1)
  <2>1. Read(l, read, Rec(f1, u1), nil) = Rec(f1, u1)
    BY ReadNothing DEF nil, Read
  <2> QED
    BY <1>32, <1>31, <2>1
\* Their bindings put the fields they lack with what they do not know.
<1>33. Read(lacks, R, create(t), written) = Rec(g, unknown)
  <2>1. ASSUME NEW n \in 1..N, NEW f1, NEW u1 \in Seq(E), IsList(f1, N), f1[n] = start[n]
        PROVE  Read(lacks, R, Rec(f1, u1), ps[n]) = Rec(Put(f1, n, g[n]), u1 \o hs[n])
    <3>1. CASE Lacked(lacks, t, n)
      <4> DEFINE C == {n} \X Content(Fields[t][n], X)
      <4>1. ps[n] \in Seq(C) /\ C \in SUBSET E /\ \A e \in C : e[1] = n
        BY <1>4, <1>5 DEF D
      <4>2. Read(lacks, R, Rec(f1, u1), ps[n]) = Rec(Put(f1, n, f1[n]), u1 \o ps[n])
        <5> DEFINE w == ps[n]
        <5>1. w \in Seq(C)
          BY <4>1
        <5> HIDE DEF C, w
        <5>2. \A e \in C : Unread(t, e, lacks)
          BY <3>1, <4>1 DEF Unread
        <5>3. ReadFields(t, Rec(f1, u1), w, lacks, R) = Rec(f1, u1 \o w)
          <6> DEFINE p == u1
          <6>1. C \in SUBSET E /\ p \in Seq(E)
            BY <4>1
          <6> HIDE DEF p
          <6>2. ReadFields(t, Rec(f1, p), w, lacks, R) = Rec(f1, p \o w)
            BY <5>1, <5>2, <6>1, ReadUnknowns, Z3
          <6> QED
            BY <6>2 DEF p
        <5> QED
          BY <1>31, <2>1, <5>3 DEF Read, w
      <4> QED
        BY <1>27, <2>1, <3>1, <4>2
    <3>2. CASE ~Lacked(lacks, t, n)
      <4>1. FitsSome(Fields[t][n], f[n])
        BY <1>4 DEF FitsSome
      <4>2. Read(lacks, R, Rec(f1, u1), WriteField(t, n, f[n], W)) =
                Rec(Put(f1, n, Back(Fields[t][n], f[n], R, W)), u1)
        <5> DEFINE v == f[n]
        <5>1. FitsSome(Fields[t][n], v)
          BY <4>1
        <5> HIDE DEF v
        <5>2. Read(lacks, R, Rec(f1, u1), WriteField(t, n, v, W)) =
                  Rec(Put(f1, n, Back(Fields[t][n], v, R, W)), u1)
          BY <1>30, <2>1, <3>2, <5>1, Z3
        <5> QED
          BY <5>2 DEF v
      <4> QED
        BY <1>27, <1>28, <3>2, <4>2
    <3> QED
      BY <3>1, <3>2
  <2>2. EachSets(t, lacks, R, E, N, ps, hs, start, g)
    BY <2>1 DEF EachSets, Read
  <2>3. Read(lacks, R, Rec(start, nil), FlattenSeq(ps)) = Rec(g, nil \o FlattenSeq(hs))
    BY <1>1, <1>11, <1>12, <1>13, <1>25, <2>2, ReadPieces DEF Read
  <2>4. nil \o FlattenSeq(hs) = FlattenSeq(hs)
    BY <1>17, <1>28
  <2>5. Read(lacks, R, create(t), FlattenSeq(ps) \o u) =
            Read(lacks, R, Rec(g, FlattenSeq(hs)), u)
    BY <1>2, <1>16, <1>19, <1>26, <2>3, <2>4
  <2>6. Read(lacks, R, Rec(g, FlattenSeq(hs)), u) = Rec(g, unknown)
    BY <1>17, <1>23 DEF Read
  <2> QED
    BY <1>20, <2>5, <2>6
<1>34. Read(known, R0, create(t), written) = m
  <2>1. ASSUME NEW n \in 1..N, NEW f1, NEW u1 \in Seq(E), IsList(f1, N), f1[n] = start[n]
        PROVE  Read(known, R0, Rec(f1, u1), ps[n]) = Rec(Put(f1, n, f[n]), u1 \o none[n])
    <3>1. FitsSome(Fields[t][n], f[n]) /\ Back(Fields[t][n], f[n], R0, W) = f[n]
      BY <1>4 DEF FitsSome
    <3>2. Read(known, R0, Rec(f1, u1), WriteField(t, n, f[n], W)) =
              Rec(Put(f1, n, Back(Fields[t][n], f[n], R0, W)), u1)
      <4> DEFINE v == f[n]
      <4>1. FitsSome(Fields[t][n], v) /\ f1[n] = start[n] /\ IsList(f1, N) /\ ~Lacked(known, t, n)
        BY <1>29, <2>1, <3>1
      <4> HIDE DEF v
      <4>2. Read(known, R0, Rec(f1, u1), WriteField(t, n, v, W)) =
                Rec(Put(f1, n, Back(Fields[t][n], v, R0, W)), u1)
        BY <1>30, <4>1, Z3
      <4> QED
        BY <4>2 DEF v
    <3> QED
      BY <1>27, <1>28, <3>1, <3>2
  <2>2. EachSets(t, known, R0, E, N, ps, none, start, f)
    BY <2>1 DEF EachSets, Read
  <2>3. Read(known, R0, Rec(start, nil), FlattenSeq(ps)) = Rec(f, nil \o FlattenSeq(none))
    BY <1>1, <1>11, <1>12, <1>13, <1>25, <2>2, ReadPieces DEF Read
  <2>4. nil \o FlattenSeq(none) = nil
    BY <1>11, <1>18, <1>28
  <2>5. Read(known, R0, create(t), FlattenSeq(ps) \o u) = Read(known, R0, Rec(f, nil), u)
    BY <1>2, <1>16, <1>19, <1>26, <2>3, <2>4
  <2>6. Read(known, R0, Rec(f, nil), u) = Rec(f, nil \o u)
    BY <1>11, <1>23 DEF Read
  <2>7. nil \o u = u
    BY <1>16, <1>28
  <2> QED
    BY <1>20, <2>5, <2>6, <2>7
<1> DEFINE theirs == Rec(g, unknown)
           relayed == WriteFields(t, theirs, W)
<1>35. relayed = FlattenSeq(qs) \o unknown
  BY <1>1 DEF WriteFields, Rec, qs
\* These bindings find the fields that were lacked where theirs put them.
<1>36. Read(known, R0, create(t), relayed) = m
  <2>1. ASSUME NEW n \in 1..N, NEW f1, NEW u1 \in Seq(E), IsList(f1, N), f1[n] = start[n]
        PROVE  Read(known, R0, Rec(f1, u1), qs[n]) = Rec(Put(f1, n, h[n]), u1 \o none[n])
    <3>1. CASE Lacked(lacks, t, n)
      <4>1. qs[n] = nil /\ h[n] = start[n]
        BY <1>14, <1>27, <3>1
      <4>2. Read(known, R0, Rec(f1, u1), nil) = Rec(Put(f1, n, start[n]), u1)
        BY <1>32, <2>1
      <4> QED
        BY <1>27, <1>28, <4>1, <4>2
    <3>2. CASE ~Lacked(lacks, t, n)
      <4>1. /\ FitsSome(Fields[t][n], back[n])
            /\ Back(Fields[t][n], back[n], R0, W) = f[n]
        BY <1>4 DEF FitsSome
      <4>2. Read(known, R0, Rec(f1, u1), WriteField(t, n, back[n], W)) =
                Rec(Put(f1, n, Back(Fields[t][n], back[n], R0, W)), u1)
        <5> DEFINE v == back[n]
        <5>1. FitsSome(Fields[t][n], v) /\ f1[n] = start[n] /\ IsList(f1, N) /\ ~Lacked(known, t, n)
          BY <1>29, <2>1, <4>1
        <5> HIDE DEF v
        <5>2. Read(known, R0, Rec(f1, u1), WriteField(t, n, v, W)) =
                  Rec(Put(f1, n, Back(Fields[t][n], v, R0, W)), u1)
          BY <1>30, <5>1, Z3
        <5> QED
          BY <5>2 DEF v
      <4> QED
        BY <1>27, <1>28, <3>2, <4>1, <4>2
    <3> QED
      BY <3>1, <3>2
  <2>2. EachSets(t, known, R0, E, N, qs, none, start, h)
    BY <2>1 DEF EachSets, Read
  <2>3. Read(known, R0, Rec(start, nil), FlattenSeq(qs)) = Rec(h, nil \o FlattenSeq(none))
    BY <1>1, <1>11, <1>13, <1>15, <1>25, <2>2, ReadPieces DEF Read
  <2>4. nil \o FlattenSeq(none) = nil
    BY <1>11, <1>18, <1>28
  <2>5. Read(known, R0, create(t), FlattenSeq(qs) \o unknown) = Read(known, R0, Rec(h, nil), unknown)
    <3>1. Read(known, R0, create(t), FlattenSeq(qs) \o unknown) =
              Read(known, R0, Read(known, R0, create(t), FlattenSeq(qs)), unknown)
      <4> HIDE DEF unknown
      <4> QED
        BY <1>17, <1>26
    <3>2. Read(known, R0, create(t), FlattenSeq(qs)) = Rec(h, nil)
      BY <1>2, <2>3, <2>4
    <3> QED
      BY <3>1, <3>2
  <2>6. ASSUME NEW n \in 1..N, NEW f1, NEW u1 \in Seq(E), IsList(f1, N), f1[n] = h[n]
        PROVE  Read(known, R0, Rec(f1, u1), hs[n]) = Rec(Put(f1, n, f[n]), u1 \o none[n])
    <3>1. CASE ~Lacked(lacks, t, n)
      <4>1. hs[n] = nil /\ h[n] = f[n]
        BY <1>27, <3>1
      <4>2. Read(known, R0, Rec(f1, u1), nil) = Rec(Put(f1, n, f[n]), u1)
        BY <1>32, <2>6, <4>1
      <4> QED
        BY <1>27, <1>28, <4>1, <4>2
    <3>2. CASE Lacked(lacks, t, n)
      <4>1. /\ FitsSome(Fields[t][n], f[n])
            /\ Back(Fields[t][n], f[n], R0, W) = f[n]
        BY <1>4 DEF FitsSome
      <4>2. f1[n] = start[n] /\ hs[n] = WriteField(t, n, f[n], W)
        BY <1>27, <2>6, <3>2
      <4>3. Read(known, R0, Rec(f1, u1), WriteField(t, n, f[n], W)) =
                Rec(Put(f1, n, Back(Fields[t][n], f[n], R0, W)), u1)
        <5> DEFINE v == f[n]
        <5>1. FitsSome(Fields[t][n], v) /\ f1[n] = start[n] /\ IsList(f1, N) /\ ~Lacked(known, t, n)
          BY <1>29, <2>6, <4>1, <4>2
        <5> HIDE DEF v
        <5>2. Read(known, R0, Rec(f1, u1), WriteField(t, n, v, W)) =
                  Rec(Put(f1, n, Back(Fields[t][n], v, R0, W)), u1)
          BY <1>30, <5>1, Z3
        <5> QED
          BY <5>2 DEF v
      <4> QED
        BY <1>27, <1>28, <4>1, <4>2, <4>3
    <3> QED
      BY <3>1, <3>2
  <2>7. EachSets(t, known, R0, E, N, hs, none, h, f)
    BY <2>6 DEF EachSets, Read
  <2>8. Read(known, R0, Rec(h, nil), FlattenSeq(hs)) = Rec(f, nil \o FlattenSeq(none))
    BY <1>1, <1>11, <1>13, <1>25, <2>7, ReadPieces DEF Read
  <2>9. Read(known, R0, Rec(h, nil), unknown) = Read(known, R0, Rec(f, nil), u)
    BY <1>16, <1>17, <1>26, <2>4, <2>8
  <2>10. Read(known, R0, Rec(f, nil), u) = Rec(f, nil \o u)
    BY <1>11, <1>23 DEF Read
  <2>11. nil \o u = u
    BY <1>16, <1>28
  <2> QED
    BY <1>35, <2>5, <2>9, <2>10, <2>11
<1>37. written \in Seq(D)
  BY <1>16, <1>19, <1>20, ConcatProperties
<1>38. relayed \in Seq(E)
  BY <1>17, <1>35, ConcatProperties
<1>39. theirs \in [fields : Seq(F), unknown : Seq(E)]
  <2>1. g \in Seq(F)
    BY <1>1, <1>9
  <2> QED
    BY <1>17, <2>1 DEF Rec
<1> QED
  BY <1>33, <1>34, <1>36, <1>37, <1>38, <1>39 DEF Read, D, E, F, known, MessageTrips

-----------------------------------------------------------------------------
(* All levels: what is written is read.                                    *)

\* The objects and the byte strings below level d.
SubObjects(d) == IF d = 0 THEN {} ELSE Object[d - 1]
SubBytes(d) == IF d = 0 THEN {} ELSE Bytes[d - 1]

LEMMA UnknownsAreBytes ==
    ASSUME NEW B
    PROVE  Unknowns \subseteq Seq(Nat \X (Seq(Scalar) \cup B))
<1>1. {NewField} \X Seq(Scalar) \subseteq Nat \X (Seq(Scalar) \cup B)
  BY DEF NewField
<1> QED
  BY <1>1, SeqMonotonic DEF Unknowns

LEMMA BytesAre ==
    ASSUME NEW d \in 0..Levels
    PROVE  Bytes[d] = Seq(Nat \X (Seq(Scalar) \cup SubBytes(d)))
BY BytesByLevel DEF SubBytes

LEMMA ObjectsAre ==
    ASSUME NEW d \in 0..Levels
    PROVE  Object[d] = [fields : Seq(Seq(Scalar \cup SubObjects(d))), unknown : Bytes[d]]
BY ObjectByLevel DEF SubObjects

\* A message is its fields and its unknown elements.
LEMMA FormOfMessage ==
    ASSUME NEW d \in 0..Levels, NEW t \in DOMAIN Fields, NEW m \in Message[d][t]
    PROVE  /\ m \in Object[d]
           /\ \E f, u : m = Rec(f, u) /\ HasForm(t, f, u, Below(Message, d), SubObjects(d))
<1> DEFINE f == m.fields
           u == m.unknown
           O == SubObjects(d)
           M == Below(Message, d)
<1>1. m \in MessagesOf(t, d, M)
  BY MessageByLevel
<1> HIDE DEF M, O
<1>2. /\ m \in Object[d] /\ DOMAIN f = DOMAIN Fields[t]
      /\ \A n \in DOMAIN Fields[t] : f[n] \in Values(Fields[t][n], M)
      /\ u \in Unknowns
  BY <1>1 DEF MessagesOf, Unknowns
<1>3. m \in [fields : Seq(Seq(Scalar \cup O)), unknown : Bytes[d]]
  BY <1>2, ObjectsAre DEF O
<1>4. m = Rec(f, u) /\ f \in Seq(Seq(Scalar \cup O))
  BY <1>3 DEF Rec
<1> HIDE DEF f, u
<1>5. f \in [DOMAIN Fields[t] -> Seq(Scalar \cup O)]
  <2> DEFINE F == Seq(Scalar \cup O)
  <2> HIDE DEF F
  <2>1. f \in Seq(F)
    BY <1>4 DEF F
  <2>2. f \in [1..Len(f) -> F] /\ DOMAIN f = 1..Len(f)
    BY <2>1
  <2> QED
    BY <1>2, <2>2 DEF F
<1>6. HasForm(t, f, u, M, O)
  BY <1>2, <1>5 DEF HasForm
<1> QED
  BY <1>2, <1>4, <1>6 DEF M, O

LEMMA FormIsObject ==
    ASSUME NEW d \in 0..Levels, NEW t \in DOMAIN Fields, NEW f, NEW u \in Bytes[d],
           f \in [DOMAIN Fields[t] -> Seq(Scalar \cup SubObjects(d))]
    PROVE  Rec(f, u) \in Object[d]
<1> DEFINE F == Seq(Scalar \cup SubObjects(d))
           N == Len(Fields[t])
<1>1. DOMAIN Fields[t] = 1..N /\ N \in Nat
  BY FieldsAreTables DEF IsTable
<1> HIDE DEF N, F
<1>2. f \in Seq(F)
  BY <1>1 DEF F
<1>3. Object[d] = [fields : Seq(F), unknown : Bytes[d]]
  BY ObjectsAre DEF F
<1> QED
  BY <1>2, <1>3 DEF Rec

LEMMA FormIsMessage ==
    ASSUME NEW d \in 0..Levels, NEW t \in DOMAIN Fields, NEW f, NEW u,
           HasForm(t, f, u, Below(Message, d), SubObjects(d))
    PROVE  Rec(f, u) \in Message[d][t]
<1>1. f \in [DOMAIN Fields[t] -> Seq(Scalar \cup SubObjects(d))] /\ u \in Unknowns
  BY DEF HasForm
<1>2. u \in Bytes[d]
  BY <1>1, UnknownsAreBytes, BytesAre
<1>3. Rec(f, u) \in Object[d]
  BY <1>1, <1>2, FormIsObject
<1> DEFINE M == Below(Message, d)
<1> HIDE DEF M
<1>4. \A n \in DOMAIN Fields[t] : f[n] \in Values(Fields[t][n], M)
  BY DEF HasForm, M
<1>5. DOMAIN f = DOMAIN Fields[t]
  BY <1>1
<1>6. Rec(f, u).fields = f /\ Rec(f, u).unknown = u
  BY DEF Rec
<1>7. Rec(f, u) \in MessagesOf(t, d, M)
  BY <1>1, <1>3, <1>4, <1>5, <1>6 DEF MessagesOf, Unknowns
<1> QED
  BY <1>7, MessageByLevel DEF M

\* A new message has its form.
LEMMA NewIsForm ==
    ASSUME NEW t \in DOMAIN Fields, NEW M, NEW O
    PROVE  \E f, u : create(t) = Rec(f, u) /\ HasForm(t, f, u, M, O)
<1> DEFINE f == [n \in DOMAIN Fields[t] |-> Start(Fields[t][n])]
           u == <<>>
<1>1. create(t) = Rec(f, u)
  BY DEF create, Rec, Start
<1>2. ASSUME NEW n \in DOMAIN Fields[t]
      PROVE  f[n] \in Seq(Scalar \cup O) /\ f[n] \in Values(Fields[t][n], M)
  <2> DEFINE field == Fields[t][n]
             vs == Start(field)
  <2>1. IsField(field)
    BY FieldsAreTables DEF IsTable
  <2> HIDE DEF field
  <2>2. CASE field.kind = "plain"
    <3>1. vs = <<Default>> /\ field.of = "scalar" /\ Default \in Scalar
      BY <2>1, <2>2 DEF Start, IsField, Scalar
    <3>2. vs \in Seq(Scalar) /\ vs \in Seq(Scalar \cup O) /\ Len(vs) = 1
      BY <3>1
    <3>3. vs \in Values(field, M)
      BY <2>2, <3>1, <3>2 DEF Values
    <3> QED
      BY <3>2, <3>3 DEF field
  <2>3. CASE field.kind # "plain"
    <3>1. vs = <<>>
      BY <2>3 DEF Start
    <3>2. vs \in Values(field, M)
      BY <2>3, <3>1 DEF Values
    <3> QED
      BY <3>1, <3>2 DEF field
  <2> QED
    BY <2>2, <2>3
<1>3. u \in Unknowns
  BY DEF Unknowns
<1>4. HasForm(t, f, u, M, O)
  BY <1>2, <1>3 DEF HasForm
<1> QED
  BY <1>1, <1>4

LEMMA NewIsMessage ==
    ASSUME NEW d \in 0..Levels, NEW t \in DOMAIN Fields
    PROVE  create(t) \in Message[d][t] /\ create(t) \in Object[d]
<1>1. PICK f, u : create(t) = Rec(f, u) /\ HasForm(t, f, u, Below(Message, d), SubObjects(d))
  BY NewIsForm
<1>2. create(t) \in Message[d][t]
  BY <1>1, FormIsMessage
<1> QED
  BY <1>2, FormOfMessage

LEMMA WiresAre ==
    ASSUME NEW d \in 0..Levels, NEW t \in DOMAIN Fields, NEW w
    PROVE  w \in Wire[d][t] <=>
               w \in Seq({e \in Nat \X (Seq(Scalar) \cup SubBytes(d)) :
                              IsElement(t, e, Below(Wire, d))})
<1> DEFINE E == Nat \X (Seq(Scalar) \cup SubBytes(d))
           X == Below(Wire, d)
           D == {e \in E : IsElement(t, e, X)}
<1>1. Wire[d][t] = WiresOf(t, d, X)
  BY WireByLevel
<1>2. Bytes[d] = Seq(E)
  BY BytesAre
<1> HIDE DEF E, X
<1>3. w \in Wire[d][t] <=> w \in Seq(E) /\ \A i \in DOMAIN w : IsElement(t, w[i], X)
  BY <1>1, <1>2 DEF WiresOf
<1>4. ASSUME w \in Seq(E), \A i \in DOMAIN w : IsElement(t, w[i], X)
      PROVE  w \in Seq(D)
  <2>1. DOMAIN w = 1..Len(w) /\ Len(w) \in Nat /\ w \in [1..Len(w) -> E]
    BY <1>4
  <2>2. w \in [1..Len(w) -> D]
    BY <1>4, <2>1
  <2> HIDE DEF D
  <2> QED
    BY <2>1, <2>2
<1>5. ASSUME w \in Seq(D)
      PROVE  w \in Seq(E) /\ \A i \in DOMAIN w : IsElement(t, w[i], X)
  <2>1. D \subseteq E
    OBVIOUS
  <2>2. DOMAIN w = 1..Len(w) /\ \A i \in 1..Len(w) : w[i] \in D
    <3> HIDE DEF D
    <3> QED
      BY <1>5
  <2>3. w \in Seq(E)
    <3> HIDE DEF D
    <3> QED
      BY <1>5, <2>1, SeqMonotonic
  <2> QED
    BY <2>2, <2>3
<1> QED
  BY <1>3, <1>4, <1>5 DEF D, E, X

\* What has a type below level d has the form of that level.
LEMMA WithinLevels ==
    ASSUME NEW d \in 0..Levels
    PROVE  Within(Below(Message, d), Below(Wire, d), SubObjects(d), SubBytes(d))
<1>1. CASE d = 0
  BY <1>1 DEF Within, Below, None
<1>2. CASE d # 0
  <2> DEFINE c == d - 1
  <2>1. c \in 0..Levels
    BY <1>2 DEF Levels
  <2>2. Below(Message, d) = Message[c] /\ Below(Wire, d) = Wire[c]
        /\ SubObjects(d) = Object[c] /\ SubBytes(d) = Bytes[c]
    BY <1>2 DEF Below, SubObjects, SubBytes
  <2> HIDE DEF c
  <2>3. \A s \in DOMAIN Fields : Message[c][s] \subseteq Object[c]
    BY <2>1, FormOfMessage
  <2>4. \A s \in DOMAIN Fields : Wire[c][s] \subseteq Bytes[c]
    BY <2>1, WireByLevel DEF WiresOf
  <2> QED
    BY <2>2, <2>3, <2>4 DEF Within
<1> QED
  BY <1>1, <1>2

\* The messages of level d come through a relay.
TripsAt(d, lacks) ==
    RoundTrip(Message[d], Wire[d], Object[d], Bytes[d], Writing[d], Reading(lacks)[d],
              Reading({})[d])

TripsBelow(d, lacks) ==
    RoundTrip(Below(Message, d), Below(Wire, d), SubObjects(d), SubBytes(d), Below(Writing, d),
              Below(Reading(lacks), d), Below(Reading({}), d))

\* The messages of a level come through when those of the level below do.
LEMMA LevelTrip ==
    ASSUME NEW d \in 0..Levels, NEW lacks, TripsBelow(d, lacks)
    PROVE  TripsAt(d, lacks)
<1> DEFINE ours == Reading({})
           R == Below(Reading(lacks), d)
           R0 == Below(ours, d)
           W == Below(Writing, d)
           M == Below(Message, d)
           X == Below(Wire, d)
           O == SubObjects(d)
           B == SubBytes(d)
           E == Nat \X (Seq(Scalar) \cup B)
<1>1. SUFFICES ASSUME NEW t \in DOMAIN Fields, NEW m \in Message[d][t]
               PROVE  LET written == Writing[d][t][m]
                          read == Reading(lacks)[d][t][<<create(t), written>>]
                          relayed == Writing[d][t][read]
                      IN /\ written \in Wire[d][t]
                         /\ read \in Object[d]
                         /\ relayed \in Bytes[d]
                         /\ ours[d][t][<<create(t), written>>] = m
                         /\ ours[d][t][<<create(t), relayed>>] = m
  BY DEF TripsAt, RoundTrip
<1>2. PICK f, u : m = Rec(f, u) /\ HasForm(t, f, u, M, O)
  BY FormOfMessage
<1>3. m \in Object[d] /\ create(t) \in Object[d]
  BY FormOfMessage, NewIsMessage
<1>4. Bytes[d] = Seq(E)
  BY BytesAre
<1>5. Object[d] = [fields : Seq(Seq(Scalar \cup O)), unknown : Bytes[d]]
  BY ObjectsAre
<1>6. \A w : w \in Wire[d][t] <=> w \in Seq({e \in E : IsElement(t, e, X)})
  BY WiresAre
<1>7. \A o \in Object[d] : Writing[d][t][o] = WriteFields(t, o, W)
  BY WritingByLevel
<1>8. \A w \in Bytes[d] : Reading(lacks)[d][t][<<create(t), w>>] =
                              ReadFields(t, create(t), w, lacks, R)
  BY <1>3, ReadingByLevel
<1>9. \A w \in Bytes[d] : ours[d][t][<<create(t), w>>] =
                              ReadFields(t, create(t), w, {}, R0)
  BY <1>3, ReadingByLevel
<1>10. RoundTrip(M, X, O, B, W, R, R0) /\ Within(M, X, O, B)
  BY WithinLevels DEF TripsBelow
<1> HIDE DEF ours, R, R0, W, M, X, O, B
<1> DEFINE written == WriteFields(t, m, W)
           theirs == ReadFields(t, create(t), written, lacks, R)
           relayed == WriteFields(t, theirs, W)
<1>11. /\ written \in Seq({e \in E : IsElement(t, e, X)})
       /\ theirs \in [fields : Seq(Seq(Scalar \cup O)), unknown : Seq(E)]
       /\ relayed \in Seq(E)
       /\ ReadFields(t, create(t), written, {}, R0) = m
       /\ ReadFields(t, create(t), relayed, {}, R0) = m
  <2>1. MessageTrips(t, m, lacks, X, O, B, W, R, R0)
    BY <1>2, <1>10, MessageTrip
  <2> QED
    BY <2>1 DEF MessageTrips
<1> HIDE DEF E, theirs, relayed
<1>12. written \in Wire[d][t] /\ written \in Bytes[d]
  <2>1. {e \in E : IsElement(t, e, X)} \subseteq E
    OBVIOUS
  <2>2. written \in Seq(E)
    BY <1>11, <2>1, SeqMonotonic
  <2> QED
    BY <1>4, <1>6, <1>11, <2>2
<1>13. theirs \in Object[d] /\ relayed \in Bytes[d]
  BY <1>4, <1>5, <1>11
<1> HIDE DEF written
<1>14. Writing[d][t][m] = written
  BY <1>3, <1>7 DEF written
<1>15. Reading(lacks)[d][t][<<create(t), written>>] = theirs
  BY <1>8, <1>12 DEF theirs
<1>16. Writing[d][t][theirs] = relayed
  BY <1>7, <1>13 DEF relayed
<1>17. /\ ours[d][t][<<create(t), written>>] = m
       /\ ours[d][t][<<create(t), relayed>>] = m
  BY <1>9, <1>11, <1>12, <1>13
<1> QED
  BY <1>12, <1>13, <1>14, <1>15, <1>16, <1>17

\* Any message of any type is read as it was written, also when bindings that
\* lack some fields read and wrote it on the way (internalBinaryRead,
\* internalBinaryWrite, and the handling of unknown fields).
THEOREM EveryMessageComesThrough ==
    ASSUME NEW lacks
    PROVE  TripsAt(Levels, lacks)
<1>1. TripsAt(0, lacks)
  <2>1. 0 \in 0..Levels
    BY DEF Levels
  <2>2. TripsBelow(0, lacks)
    BY DEF TripsBelow, RoundTrip, Below, None
  <2> QED
    BY <2>1, <2>2, LevelTrip
<1>2. ASSUME NEW d \in 1..Levels, TripsAt(d - 1, lacks)
      PROVE  TripsAt(d, lacks)
  <2>1. d \in 0..Levels /\ d # 0
    BY DEF Levels
  <2>2. TripsBelow(d, lacks)
    BY <1>2, <2>1 DEF TripsAt, TripsBelow, Below, SubObjects, SubBytes
  <2> QED
    BY <2>1, <2>2, LevelTrip
<1>3. TripsAt(1, lacks)
  BY <1>1, <1>2 DEF Levels
<1>4. TripsAt(2, lacks)
  BY <1>2, <1>3 DEF Levels
<1>5. TripsAt(3, lacks)
  BY <1>2, <1>4 DEF Levels
<1>6. TripsAt(4, lacks)
  BY <1>2, <1>5 DEF Levels
<1> QED
  BY <1>6 DEF Levels

-----------------------------------------------------------------------------
(* All levels: what is read has the type of the message.                   *)

\* Submessages that are read have their type.
ReadsTyped(M, X, R) ==
    \A s \in DOMAIN Fields : \A w \in X[s] :
        /\ R[s][<<create(s), w>>] \in M[s]
        /\ \A m \in M[s] : R[s][<<m, w>>] \in M[s]

\* A field that is there stays a list of its values.
LEMMA MergedTyped ==
    ASSUME NEW field, IsField(field), NEW M, NEW X, NEW R, ReadsTyped(M, X, R),
           NEW old \in Values(field, M), NEW content \in Content(field, X)
    PROVE  Merged(field, old, content, R) \in Values(field, M)
<1> DEFINE V == ValueOf(field, M)
<1>1. Fits(field, old, V)
  BY ValuesFit
<1>2. SUFFICES Fits(field, Merged(field, old, content, R), V)
  BY ValuesFit
<1>3. CASE field.kind = "message"
  <2>1. field.of \in DOMAIN Fields /\ field.of # "scalar"
    BY <1>3 DEF IsField
  <2>2. content \in X[field.of] /\ V = M[field.of]
    BY <2>1 DEF Content, ValueOf
  <2> DEFINE target == IF old = <<>> THEN create(field.of) ELSE old[1]
             v == R[field.of][<<target, content>>]
  <2>3. old \in Seq(V) /\ (old # <<>> => old[1] \in V)
    BY <1>1, EmptySeq, ElementOfSeq DEF Fits
  <2>4. v \in V
    BY <2>1, <2>2, <2>3 DEF ReadsTyped
  <2>5. Merged(field, old, content, R) = <<v>>
    BY <1>3 DEF Merged
  <2> HIDE DEF v, V
  <2>6. <<v>> \in Seq(V) /\ Len(<<v>>) = 1
    BY <2>4
  <2> QED
    BY <1>3, <2>5, <2>6 DEF Fits
<1>4. CASE field.kind = "repeated"
  <2> DEFINE more == IF field.of = "scalar" THEN content
                     ELSE <<R[field.of][<<create(field.of), content>>]>>
  <2>1. more \in Seq(V)
    <3>1. CASE field.of = "scalar"
      BY <1>4, <3>1 DEF Content, ValueOf
    <3>2. CASE field.of # "scalar"
      <4> DEFINE v == R[field.of][<<create(field.of), content>>]
      <4>1. field.of \in DOMAIN Fields /\ content \in X[field.of] /\ V = M[field.of]
        BY <3>2 DEF IsField, Content, ValueOf
      <4>2. v \in V
        BY <4>1 DEF ReadsTyped
      <4> HIDE DEF v, V
      <4>3. <<v>> \in Seq(V)
        BY <4>2
      <4> QED
        BY <3>2, <4>3 DEF v
    <3> QED
      BY <3>1, <3>2
  <2>2. Merged(field, old, content, R) = old \o more
    BY <1>4 DEF Merged
  <2> HIDE DEF more, V
  <2>3. old \in Seq(V)
    BY <1>1 DEF Fits
  <2>4. old \o more \in Seq(V)
    BY <2>1, <2>3, ConcatProperties
  <2> QED
    BY <1>4, <2>2, <2>4 DEF Fits
<1>5. CASE field.kind \in {"plain", "optional"}
  <2>1. field.of = "scalar"
    BY <1>5 DEF IsField
  <2>2. PICK v \in Scalar : content = <<v>>
    BY <1>5, <2>1 DEF Content
  <2>3. Merged(field, old, content, R) = <<v>> /\ V = Scalar
    BY <1>5, <2>1, <2>2 DEF Merged, ValueOf
  <2> HIDE DEF V
  <2>4. <<v>> \in Seq(V) /\ Len(<<v>>) = 1
    BY <2>3
  <2> QED
    BY <1>5, <2>3, <2>4 DEF Fits
<1> QED
  BY <1>3, <1>4, <1>5 DEF IsField

\* An element of the right form keeps the form of the message it is read into.
LEMMA ReadFieldTyped ==
    ASSUME NEW t \in DOMAIN Fields, NEW M, NEW X, NEW O, NEW B, NEW R,
           ReadsTyped(M, X, R), Within(M, X, O, B),
           NEW f, NEW u, HasForm(t, f, u, M, O), NEW e, IsElement(t, e, X)
    PROVE  \E g, v : /\ ReadField(t, Rec(f, u), e, {}, R) = Rec(g, v)
                     /\ HasForm(t, g, v, M, O)
<1>1. /\ f \in [DOMAIN Fields[t] -> Seq(Scalar \cup O)]
      /\ \A n \in DOMAIN Fields[t] : f[n] \in Values(Fields[t][n], M)
      /\ u \in Unknowns
  BY DEF HasForm
<1>2. CASE e[1] \in DOMAIN Fields[t]
  <2> DEFINE n == e[1]
             field == Fields[t][n]
             new == Merged(field, f[n], e[2], R)
             g == Put(f, n, new)
  <2>1. e[2] \in Content(field, X)
    BY <1>2 DEF IsElement
  <2>2. IsField(field) /\ n \in DOMAIN Fields[t] /\ f[n] \in Values(field, M)
    BY <1>1, <1>2, FieldsAreTables DEF IsTable
  <2>3. new \in Values(field, M)
    BY <2>1, <2>2, MergedTyped
  <2>4. ~Unread(t, e, {})
    BY <1>2 DEF Unread, Lacked
  <2>5. ReadField(t, Rec(f, u), e, {}, R) = Rec(g, u)
    BY <2>4, ReadKnown
  <2>6. new \in Seq(Scalar \cup O)
    <3>1. ValueOf(field, M) \subseteq Scalar \cup O
      BY <2>2 DEF ValueOf, Within, IsField
    <3>2. new \in Seq(ValueOf(field, M))
      BY <2>2, <2>3, ValuesFit DEF Fits
    <3> HIDE DEF new, field
    <3> QED
      BY <3>1, <3>2, SeqMonotonic
  <2> HIDE DEF new, n
  <2>7. g \in [DOMAIN Fields[t] -> Seq(Scalar \cup O)]
    <3> DEFINE F == Seq(Scalar \cup O)
    <3> HIDE DEF F
    <3>1. f \in [DOMAIN Fields[t] -> F] /\ new \in F
      BY <1>1, <2>6 DEF F
    <3> QED
      BY <3>1 DEF Put, F
  <2>8. \A i \in DOMAIN Fields[t] : g[i] = IF i = n THEN new ELSE f[i]
    BY <1>1 DEF Put
  <2>9. \A i \in DOMAIN Fields[t] : g[i] \in Values(Fields[t][i], M)
    BY <1>1, <2>3, <2>8
  <2> HIDE DEF g
  <2>10. HasForm(t, g, u, M, O)
    BY <1>1, <2>7, <2>9 DEF HasForm
  <2> QED
    BY <2>5, <2>10
<1>3. CASE e[1] \notin DOMAIN Fields[t]
  <2>1. e \in {NewField} \X Seq(Scalar)
    BY <1>3 DEF IsElement
  <2>2. ReadField(t, Rec(f, u), e, {}, R) = Rec(f, Append(u, e))
    BY <1>3, ReadUnknown DEF Unread
  <2>3. Append(u, e) \in Unknowns
    <3> DEFINE S == {NewField} \X Seq(Scalar)
    <3> HIDE DEF S
    <3>1. u \in Seq(S) /\ e \in S
      BY <1>1, <2>1 DEF S, Unknowns
    <3>2. Append(u, e) \in Seq(S)
      BY <3>1
    <3> QED
      BY <3>2 DEF S, Unknowns
  <2>4. HasForm(t, f, Append(u, e), M, O)
    BY <1>1, <2>3 DEF HasForm
  <2> QED
    BY <2>2, <2>4
<1> QED
  BY <1>2, <1>3

\* So do all elements of a wire.
LEMMA ReadFieldsTyped ==
    ASSUME NEW t \in DOMAIN Fields, NEW M, NEW X, NEW O, NEW B, NEW R,
           ReadsTyped(M, X, R), Within(M, X, O, B),
           NEW f, NEW u, HasForm(t, f, u, M, O),
           NEW D, \A e \in D : IsElement(t, e, X), NEW w \in Seq(D)
    PROVE  \E g, v : /\ ReadFields(t, Rec(f, u), w, {}, R) = Rec(g, v)
                     /\ HasForm(t, g, v, M, O)
<1> DEFINE nothing == {}
           Read(x) == ReadFields(t, Rec(f, u), x, nothing, R)
           Good(x) == \E g, v : Read(x) = Rec(g, v) /\ HasForm(t, g, v, M, O)
           Bad == {x \in Seq(D) : ~Good(x)}
<1> SUFFICES ASSUME Bad # {}
             PROVE  FALSE
  OBVIOUS
<1>1. PICK x \in Bad : x = <<>> \/ \E y \in Seq(D) \ Bad, e \in D : x = Append(y, e)
  BY Shortest
<1>2. x # <<>>
  <2>1. Read(<<>>) = Rec(f, u)
    BY ReadNothing
  <2> HIDE DEF Read
  <2>2. Good(<<>>)
    BY <2>1
  <2> QED
    BY <2>2
<1>3. PICK y \in Seq(D), e \in D : x = Append(y, e) /\ y \notin Bad
  BY <1>1, <1>2
<1>4. PICK g, v : Read(y) = Rec(g, v) /\ HasForm(t, g, v, M, O)
  BY <1>3
<1> HIDE DEF nothing
<1>5. Read(x) = ReadField(t, Read(y), e, nothing, R)
  BY <1>3, ReadOneMore
<1>6. IsElement(t, e, X)
  OBVIOUS
<1>7. PICK h, z : ReadField(t, Rec(g, v), e, {}, R) = Rec(h, z) /\ HasForm(t, h, z, M, O)
  BY <1>4, <1>6, ReadFieldTyped
<1>8. Read(x) = Rec(h, z)
  BY <1>4, <1>5, <1>7 DEF nothing
<1>9. Good(x)
  BY <1>7, <1>8
<1> QED
  BY <1>9

\* The messages of level d that are read have their type.
TypedAt(d) == ReadsTyped(Message[d], Wire[d], Reading({})[d])

\* What is read on a level has its type when it has on the level below.
LEMMA LevelTyped ==
    ASSUME NEW d \in 0..Levels,
           ReadsTyped(Below(Message, d), Below(Wire, d), Below(Reading({}), d))
    PROVE  TypedAt(d)
<1> DEFINE ours == Reading({})
           M == Below(Message, d)
           X == Below(Wire, d)
           O == SubObjects(d)
           B == SubBytes(d)
           R == Below(ours, d)
<1>1. ASSUME NEW t \in DOMAIN Fields, NEW w \in Wire[d][t], NEW m \in Message[d][t]
      PROVE  ours[d][t][<<m, w>>] \in Message[d][t]
  <2>1. PICK f, u : m = Rec(f, u) /\ HasForm(t, f, u, M, O)
    BY FormOfMessage
  <2>2. m \in Object[d]
    BY FormOfMessage
  <2> DEFINE D == {e \in Nat \X (Seq(Scalar) \cup B) : IsElement(t, e, X)}
  <2>3. w \in Seq(D) /\ \A e \in D : IsElement(t, e, X)
    BY WiresAre
  <2>4. w \in Bytes[d]
    BY WireByLevel DEF WiresOf
  <2>5. ours[d][t][<<m, w>>] = ReadFields(t, m, w, {}, R)
    BY <2>2, <2>4, ReadingByLevel
  <2>6. Within(M, X, O, B) /\ ReadsTyped(M, X, R)
    BY WithinLevels
  <2> HIDE DEF D, M, X, O, B, R, ours
  <2>7. PICK g, v : /\ ReadFields(t, Rec(f, u), w, {}, R) = Rec(g, v)
                    /\ HasForm(t, g, v, M, O)
    BY <2>1, <2>3, <2>6, ReadFieldsTyped
  <2>8. Rec(g, v) \in Message[d][t]
    BY <2>7, FormIsMessage DEF M, O
  <2> QED
    BY <2>1, <2>5, <2>7, <2>8
<1>2. \A t \in DOMAIN Fields : create(t) \in Message[d][t]
  BY NewIsMessage
<1> HIDE DEF ours
<1>3. ReadsTyped(Message[d], Wire[d], ours[d])
  BY <1>1, <1>2 DEF ReadsTyped
<1> QED
  BY <1>3 DEF ours, TypedAt

\* What is read into a message of any type is a message of that type, and so is
\* what is read into a new one (internalBinaryRead).
THEOREM WhatIsReadHasItsType == TypedAt(Levels)
<1>1. TypedAt(0)
  <2>1. 0 \in 0..Levels
    BY DEF Levels
  <2>2. ReadsTyped(Below(Message, 0), Below(Wire, 0), Below(Reading({}), 0))
    BY DEF ReadsTyped, Below, None
  <2> QED
    BY <2>1, <2>2, LevelTyped
<1>2. ASSUME NEW d \in 1..Levels, TypedAt(d - 1)
      PROVE  TypedAt(d)
  <2>1. d \in 0..Levels /\ d # 0
    BY DEF Levels
  <2>2. ReadsTyped(Below(Message, d), Below(Wire, d), Below(Reading({}), d))
    BY <1>2, <2>1 DEF TypedAt, Below
  <2> QED
    BY <2>1, <2>2, LevelTyped
<1>3. TypedAt(1)
  BY <1>1, <1>2 DEF Levels
<1>4. TypedAt(2)
  BY <1>2, <1>3 DEF Levels
<1>5. TypedAt(3)
  BY <1>2, <1>4 DEF Levels
<1>6. TypedAt(4)
  BY <1>2, <1>5 DEF Levels
<1> QED
  BY <1>6 DEF Levels

-----------------------------------------------------------------------------
(* What peers and these bindings put on the wire.                          *)

LEMMA OneElement ==
    ASSUME NEW d \in 0..Levels, NEW t \in DOMAIN Fields,
           NEW e \in Nat \X (Seq(Scalar) \cup SubBytes(d)), IsElement(t, e, Below(Wire, d))
    PROVE  <<e>> \in Wire[d][t]
<1> DEFINE D == {x \in Nat \X (Seq(Scalar) \cup SubBytes(d)) : IsElement(t, x, Below(Wire, d))}
<1>1. e \in D
  OBVIOUS
<1> HIDE DEF D
<1>2. <<e>> \in Seq(D)
  BY <1>1
<1> QED
  BY <1>2, WiresAre DEF D

LEMMA NewElement ==
    ASSUME NEW d \in 0..Levels, NEW t \in DOMAIN Fields, NEW v \in Scalar
    PROVE  <<<<NewField, <<v>>>>>> \in Wire[d][t]
<1> DEFINE e == <<NewField, <<v>>>>
<1>1. <<v>> \in Seq(Scalar)
  OBVIOUS
<1>2. e \in Nat \X (Seq(Scalar) \cup SubBytes(d)) /\ e \in {NewField} \X Seq(Scalar)
  BY <1>1 DEF NewField
<1>3. e[1] \notin DOMAIN Fields[t]
  BY FieldsAreTables DEF IsTable
<1> HIDE DEF e
<1>4. IsElement(t, e, Below(Wire, d))
  BY <1>2, <1>3 DEF IsElement
<1>5. <<e>> \in Wire[d][t]
  BY <1>2, <1>4, OneElement
<1> QED
  BY <1>5 DEF e

LEMMA NoElement ==
    ASSUME NEW d \in 0..Levels, NEW t \in DOMAIN Fields
    PROVE  <<>> \in Wire[d][t]
<1>1. <<>> \in Seq({x \in Nat \X (Seq(Scalar) \cup SubBytes(d)) : IsElement(t, x, Below(Wire, d))})
  OBVIOUS
<1> QED
  BY <1>1, WiresAre

\* The elements of level k fit on the wires of all higher levels.
ElementsFit(k) ==
    \A d \in (k + 1)..Levels : \A t \in DOMAIN Fields :
        \A e \in Elements[k][t] : <<e>> \in Wire[d][t]

\* Elements fit when those of their submessages do, one level lower.
LEMMA LevelFits ==
    ASSUME NEW k \in 0..Depth, k # 0 => ElementsFit(k - 1)
    PROVE  ElementsFit(k)
<1> SUFFICES ASSUME NEW d \in (k + 1)..Levels, NEW t \in DOMAIN Fields, NEW e \in Elements[k][t]
             PROVE  <<e>> \in Wire[d][t]
  BY DEF ElementsFit
<1> DEFINE c == d - 1
<1>1. /\ k \in Nat /\ d \in 0..Levels /\ d # 0 /\ c \in 0..Levels
      /\ (k # 0 => c \in ((k - 1) + 1)..Levels)
  BY BoundsAssumption DEF Levels
<1>2. Below(Wire, d) = Wire[c] /\ SubBytes(d) = Bytes[c]
  BY <1>1 DEF Below, SubBytes
<1> HIDE DEF c
<1>3. e = <<NewField, <<Other>>>>
      \/ \E n \in DOMAIN Fields[t] : e \in {n} \X Contents(Fields[t][n], Below(Elements, k))
  BY ElementsByLevel
<1>4. CASE e = <<NewField, <<Other>>>>
  BY <1>1, <1>4, NewElement DEF Scalar
<1>5. ASSUME NEW n \in DOMAIN Fields[t], e \in {n} \X Contents(Fields[t][n], Below(Elements, k))
      PROVE  <<e>> \in Wire[d][t]
  <2> DEFINE field == Fields[t][n]
  <2>1. PICK x \in Contents(field, Below(Elements, k)) : e = <<n, x>>
    BY <1>5
  <2>2. IsField(field) /\ n \in Nat
    BY FieldsAreTables DEF IsTable
  <2> HIDE DEF field
  <2>3. x \in Content(field, Wire[c])
    <3>1. CASE field.of # "scalar"
      <4> DEFINE s == field.of
      <4>1. s \in DOMAIN Fields
        BY <2>2, <3>1 DEF IsField
      <4>2. x = <<>> \/ \E y \in Below(Elements, k)[s] : x = <<y>>
        BY <3>1 DEF Contents
      <4> HIDE DEF s
      <4>3. x \in Wire[c][s]
        <5>1. CASE k = 0
          <6>1. Below(Elements, k)[s] = {}
            BY <4>1, <5>1 DEF Below, None
          <6> QED
            BY <1>1, <4>1, <4>2, <6>1, NoElement
        <5>2. CASE k # 0
          <6>1. Below(Elements, k) = Elements[k - 1]
            BY <5>2 DEF Below
          <6>2. \A y \in Elements[k - 1][s] : <<y>> \in Wire[c][s]
            BY <1>1, <4>1, <5>2 DEF ElementsFit
          <6> QED
            BY <1>1, <4>1, <4>2, <6>1, <6>2, NoElement
        <5> QED
          BY <5>1, <5>2
      <4> QED
        BY <3>1, <4>3 DEF Content, s
    <3>2. CASE field.of = "scalar"
      <4>1. CASE field.kind = "repeated"
        <5>1. x \in {<<v>> : v \in Scalar} \cup {<<Default, Other>>}
          BY <3>2, <4>1 DEF Contents
        <5>2. \A v \in Scalar : <<v>> \in Seq(Scalar)
          OBVIOUS
        <5>3. <<Default, Other>> \in Seq(Scalar)
          <6>1. Default \in Scalar /\ Other \in Scalar
            BY DEF Scalar
          <6> QED
            BY <6>1
        <5> QED
          BY <3>2, <4>1, <5>1, <5>2, <5>3 DEF Content
      <4>2. CASE field.kind # "repeated"
        BY <3>2, <4>2 DEF Contents, Content
      <4> QED
        BY <4>1, <4>2
    <3> QED
      BY <3>1, <3>2
  <2>4. x \in Seq(Scalar) \cup Bytes[c]
    <3>1. field.of \in DOMAIN Fields => x \in Wire[c][field.of] \/ field.of = "scalar"
      BY <2>3 DEF Content
    <3>2. \A s \in DOMAIN Fields : Wire[c][s] \subseteq Bytes[c]
      BY <1>1, WireByLevel DEF WiresOf
    <3>3. \A v \in Scalar : <<v>> \in Seq(Scalar)
      OBVIOUS
    <3>4. field.of = "scalar" => x \in Seq(Scalar)
      BY <2>3, <3>3 DEF Content
    <3> QED
      BY <2>2, <3>1, <3>2, <3>4 DEF IsField
  <2>5. e \in Nat \X (Seq(Scalar) \cup SubBytes(d))
    BY <1>2, <2>1, <2>2, <2>4
  <2>6. IsElement(t, e, Below(Wire, d))
    BY <1>2, <2>1, <2>3 DEF IsElement, field
  <2> QED
    BY <1>1, <2>5, <2>6, OneElement
<1> QED
  BY <1>3, <1>4, <1>5

\* What a peer writes has the form of an element.
LEMMA ElementOnWire ==
    ASSUME NEW t \in DOMAIN Fields, NEW e \in Elements[Depth][t]
    PROVE  <<e>> \in Wire[Levels][t]
<1>1. ASSUME NEW k \in 0..3, k <= Depth, k # 0 => ElementsFit(k - 1)
      PROVE  ElementsFit(k)
  <2>1. k \in 0..Depth
    BY <1>1, BoundsAssumption DEF Levels
  <2> QED
    BY <1>1, <2>1, LevelFits
<1>2. ElementsFit(0)
  BY <1>1, BoundsAssumption DEF Levels
<1>3. 1 <= Depth => ElementsFit(1)
  BY <1>1, <1>2
<1>4. 2 <= Depth => ElementsFit(2)
  BY <1>1, <1>3, BoundsAssumption DEF Levels
<1>5. 3 <= Depth => ElementsFit(3)
  BY <1>1, <1>4, BoundsAssumption DEF Levels
<1>6. Depth \in {0, 1, 2, 3}
  BY BoundsAssumption DEF Levels
<1>7. ElementsFit(Depth) /\ Levels \in (Depth + 1)..Levels
  BY <1>2, <1>3, <1>4, <1>5, <1>6 DEF Levels
<1> QED
  BY <1>7 DEF ElementsFit

\* An object without the optional fields.
LEMMA WithTyped ==
    ASSUME NEW d \in 0..Levels, NEW t \in DOMAIN Fields, NEW given,
           \A n \in DOMAIN Fields[t] :
               Fields[t][n].name \in DOMAIN given =>
                   given[Fields[t][n].name] \in ValueOf(Fields[t][n], Below(Message, d))
    PROVE  With(t, given) \in Message[d][t]
<1> DEFINE M == Below(Message, d)
           O == SubObjects(d)
           old == create(t).fields
           has(n) == Fields[t][n].name \in DOMAIN given
           value(n) == given[Fields[t][n].name]
           f == [n \in DOMAIN Fields[t] |-> IF has(n) THEN <<value(n)>> ELSE old[n]]
<1>1. PICK g, u : create(t) = Rec(g, u) /\ HasForm(t, g, u, M, O)
  BY NewIsForm
<1>2. old = g /\ create(t).unknown = u /\ DOMAIN old = DOMAIN Fields[t]
  BY <1>1 DEF Rec, HasForm
<1>3. With(t, given) = Rec(f, u)
  BY <1>1, <1>2 DEF With, Rec
<1>4. /\ g \in [DOMAIN Fields[t] -> Seq(Scalar \cup O)]
      /\ \A n \in DOMAIN Fields[t] : g[n] \in Values(Fields[t][n], M)
      /\ u \in Unknowns
  BY <1>1 DEF HasForm
<1>5. \A n \in DOMAIN Fields[t] : has(n) => value(n) \in ValueOf(Fields[t][n], M)
  OBVIOUS
<1>6. Within(M, Below(Wire, d), O, SubBytes(d))
  BY WithinLevels
<1> HIDE DEF has, value, M, O, old
<1>7. ASSUME NEW n \in DOMAIN Fields[t]
      PROVE  f[n] \in Seq(Scalar \cup O) /\ f[n] \in Values(Fields[t][n], M)
  <2> DEFINE field == Fields[t][n]
             v == value(n)
             V == ValueOf(field, M)
  <2>1. IsField(field)
    BY FieldsAreTables DEF IsTable
  <2>2. CASE has(n)
    <3>1. f[n] = <<v>> /\ v \in V
      BY <1>5, <2>2
    <3>2. V \subseteq Scalar \cup O
      BY <1>6, <2>1 DEF ValueOf, Within, IsField
    <3> HIDE DEF v, V, field
    <3>3. <<v>> \in Seq(V) /\ <<v>> \in Seq(Scalar \cup O) /\ Len(<<v>>) = 1
      BY <3>1, <3>2
    <3>4. Fits(field, <<v>>, V)
      BY <3>3 DEF Fits
    <3>5. <<v>> \in Values(field, M)
      BY <2>1, <3>4, ValuesFit DEF V
    <3> QED
      BY <3>1, <3>3, <3>5 DEF field
  <2>3. CASE ~has(n)
    BY <1>2, <1>4, <2>3
  <2> QED
    BY <2>2, <2>3
<1> HIDE DEF f
<1>8. f \in [DOMAIN Fields[t] -> Seq(Scalar \cup O)]
  BY <1>7 DEF f
<1>9. HasForm(t, f, u, M, O)
  BY <1>4, <1>7, <1>8 DEF HasForm
<1> QED
  BY <1>3, <1>9, FormIsMessage DEF M, O

\* The object of sendPacket is a message, with those in it.
LEMMA CommandIsMessage ==
    ASSUME NEW node \in Scalar
    PROVE  sendPacket(node) \in Message[Levels]["GenericMessage"]
<1> DEFINE header == [reqId |-> Other]
           command == [header |-> With("RequestHeader", header), destinationAddress |-> node,
                       sourceEndpoint |-> Other, destinationEndpoint |-> Other,
                       qos |-> Other, payload |-> Other]
           inner == [sendPacketReq |-> With("SendPacketReq", command)]
           outer == [wirepas |-> With("WirepasMessage", inner)]
<1>1. \A t \in {"RequestHeader", "SendPacketReq", "WirepasMessage", "GenericMessage"} :
          t \in DOMAIN Fields
  BY DEF Fields
<1>2. /\ Fields["RequestHeader"] = RequestHeader /\ Fields["SendPacketReq"] = SendPacketReq
      /\ Fields["WirepasMessage"] = WirepasMessage /\ Fields["GenericMessage"] = GenericMessage
  BY DEF Fields
<1>3. Other \in Scalar
  BY DEF Scalar
<1>4. \A d \in 1..Levels : Below(Message, d) = Message[d - 1] /\ d \in 0..Levels
  BY DEF Below, Levels
<1>5. With("RequestHeader", header) \in Message[1]["RequestHeader"]
  <2>1. \A n \in DOMAIN RequestHeader :
            RequestHeader[n].name \in DOMAIN header =>
                RequestHeader[n].of = "scalar" /\ header[RequestHeader[n].name] \in Scalar
    BY <1>3 DEF RequestHeader, Plain, Optional
  <2> QED
    BY <1>1, <1>2, <2>1, WithTyped DEF ValueOf, Levels
<1>6. With("SendPacketReq", command) \in Message[2]["SendPacketReq"]
  <2> DEFINE h == With("RequestHeader", header)
  <2> HIDE DEF h
  <2>1. \A n \in DOMAIN SendPacketReq :
            SendPacketReq[n].name \in DOMAIN command =>
                IF n = 1 THEN SendPacketReq[n].of = "RequestHeader" /\ command[SendPacketReq[n].name] = h
                ELSE SendPacketReq[n].of = "scalar" /\ command[SendPacketReq[n].name] \in Scalar
    BY <1>3 DEF SendPacketReq, Plain, Optional, One, h
  <2> QED
    BY <1>1, <1>2, <1>4, <1>5, <2>1, WithTyped DEF ValueOf, Levels, h
<1>7. With("WirepasMessage", inner) \in Message[3]["WirepasMessage"]
  <2>1. \A n \in DOMAIN WirepasMessage :
            WirepasMessage[n].name \in DOMAIN inner =>
                /\ WirepasMessage[n].of = "SendPacketReq"
                /\ inner[WirepasMessage[n].name] = With("SendPacketReq", command)
    BY DEF WirepasMessage, One
  <2> QED
    BY <1>1, <1>2, <1>4, <1>6, <2>1, WithTyped DEF ValueOf, Levels
<1>8. With("GenericMessage", outer) \in Message[4]["GenericMessage"]
  <2>1. \A n \in DOMAIN GenericMessage :
            GenericMessage[n].name \in DOMAIN outer =>
                /\ GenericMessage[n].of = "WirepasMessage"
                /\ outer[GenericMessage[n].name] = With("WirepasMessage", inner)
    BY DEF GenericMessage, One
  <2> QED
    BY <1>1, <1>2, <1>4, <1>7, <2>1, WithTyped DEF ValueOf, Levels
<1> QED
  BY <1>8 DEF sendPacket, Levels

-----------------------------------------------------------------------------
(* The invariant.                                                          *)

\* What the invariant needs of the constants.
LEMMA OfType ==
    ASSUME NEW t \in Type
    PROVE  t \in DOMAIN Fields /\ Levels \in 0..Levels
BY TypeAssumption DEF Levels

LEMMA InitTypeOK == Init => TypeOK /\ NothingLost
<1> SUFFICES ASSUME Init
             PROVE  TypeOK /\ NothingLost
  OBVIOUS
<1>1. type \in Type /\ wire = <<>> /\ message = create(type) /\ relays = 0
  BY DEF Init
<1>2. type \in DOMAIN Fields /\ Levels \in 0..Levels
  BY <1>1, OfType
<1>3. message \in Message[Levels][type] /\ message \in Object[Levels]
  BY <1>1, <1>2, NewIsMessage
<1>4. <<>> \in Wire[Levels][type] /\ <<>> \in Bytes[Levels]
  <2>1. <<>> \in Wire[Levels][type]
    BY <1>2, NoElement
  <2> QED
    BY <1>2, <2>1, WireByLevel DEF WiresOf
<1>5. TypeOK
  BY <1>1, <1>3, <1>4, BoundsAssumption DEF TypeOK
<1>6. internalBinaryRead(type, message, <<>>, {}) = message
  <2>1. Reading({})[Levels][type][<<message, <<>>>>] =
            ReadFields(type, message, <<>>, {}, Below(Reading({}), Levels))
    BY <1>2, <1>3, <1>4, ReadingByLevel
  <2> QED
    BY <2>1, ReadNothing DEF internalBinaryRead
<1> QED
  BY <1>1, <1>5, <1>6 DEF NothingLost

\* One more element, as that of a peer.
LEMMA WriteStep ==
    ASSUME TypeOK, NothingLost, NEW e, <<e>> \in Wire[Levels][type], Write(e)
    PROVE  TypeOK' /\ NothingLost'
<1> DEFINE ours == Reading({})
           R == Below(ours, Levels)
           E == Nat \X (Seq(Scalar) \cup SubBytes(Levels))
           D == {x \in E : IsElement(type, x, Below(Wire, Levels))}
           new == create(type)
<1>1. /\ type \in Type /\ message \in Message[Levels][type] /\ wire \in Wire[Levels][type]
      /\ relays \in 0..MaxRelays
  BY DEF TypeOK
<1>2. /\ wire' = Append(wire, e) /\ message' = internalBinaryRead(type, message, <<e>>, {})
      /\ type' = type /\ relays' = relays
  BY DEF Write
<1>3. type \in DOMAIN Fields /\ Levels \in 0..Levels
  BY <1>1, OfType
<1>4. message' = ours[Levels][type][<<message, <<e>>>>]
  BY <1>2 DEF internalBinaryRead
<1>5. message = ours[Levels][type][<<new, wire>>]
  BY DEF NothingLost, internalBinaryRead
<1>6. \A w : w \in Wire[Levels][type] <=> w \in Seq(D)
  BY <1>3, WiresAre
<1>7. message \in Object[Levels] /\ new \in Object[Levels] /\ new \in Message[Levels][type]
  BY <1>1, <1>3, FormOfMessage, NewIsMessage
<1>8. \A w \in Wire[Levels][type] : w \in Bytes[Levels]
  BY <1>3, WireByLevel DEF WiresOf
<1>9. \A m \in Object[Levels], w \in Wire[Levels][type] :
          ours[Levels][type][<<m, w>>] = ReadFields(type, m, w, {}, R)
  BY <1>3, <1>8, ReadingByLevel
<1>10. ReadsTyped(Message[Levels], Wire[Levels], ours[Levels])
  BY WhatIsReadHasItsType DEF TypedAt
<1> HIDE DEF ours, R, E, D, new
<1>11. message' \in Message[Levels][type]
  BY <1>1, <1>3, <1>4, <1>10 DEF ReadsTyped
<1>12. wire \in Seq(D) /\ e \in D
  <2>1. wire \in Seq(D) /\ <<e>> \in Seq(D)
    BY <1>1, <1>6
  <2>2. <<e>>[1] \in D
    BY <2>1
  <2> QED
    BY <2>1, <2>2
<1>13. wire' \in Wire[Levels][type]
  <2>1. Append(wire, e) \in Seq(D)
    BY <1>12
  <2> QED
    BY <1>2, <1>6, <2>1
<1>14. TypeOK'
  BY <1>1, <1>2, <1>11, <1>13 DEF TypeOK
<1>15. ours[Levels][type][<<new, wire'>>] = message'
  <2>1. ours[Levels][type][<<new, wire'>>] = ReadFields(type, new, Append(wire, e), {}, R)
    BY <1>2, <1>7, <1>9, <1>13
  <2>2. ReadFields(type, new, Append(wire, e), {}, R) =
            ReadField(type, ReadFields(type, new, wire, {}, R), e, {}, R)
    BY <1>12, ReadOneMore
  <2>3. ReadFields(type, new, wire, {}, R) = message
    BY <1>1, <1>5, <1>7, <1>9
  <2>4. message' = ReadFields(type, message, <<e>>, {}, R)
    BY <1>4, <1>7, <1>9
  <2>5. ReadFields(type, message, <<e>>, {}, R) = ReadField(type, message, e, {}, R)
    BY ReadOne
  <2> QED
    BY <2>1, <2>2, <2>3, <2>4, <2>5
<1> QED
  BY <1>2, <1>14, <1>15 DEF NothingLost, internalBinaryRead, ours, new

\* Whatever fields they lack, bindings that relay the message lose nothing.
LEMMA RelayStep ==
    ASSUME TypeOK, NothingLost, NEW lacks, Relay(lacks)
    PROVE  TypeOK' /\ NothingLost'
<1>1. /\ type \in Type /\ message \in Message[Levels][type] /\ wire \in Wire[Levels][type]
      /\ relays \in 0..MaxRelays
  BY DEF TypeOK
<1>2. type \in DOMAIN Fields
  BY <1>1, OfType
<1> DEFINE ours == Reading({})
           theirs == Reading(lacks)
           written == Writing[Levels][type][message]
           read == theirs[Levels][type][<<create(type), written>>]
           relayed == Writing[Levels][type][read]
<1>3. message' = ours[Levels][type][<<create(type), relayed>>]
  BY DEF Relay, internalBinaryRead, internalBinaryWrite
<1>4. ours[Levels][type][<<create(type), relayed>>] = message
  <2>1. RoundTrip(Message[Levels], Wire[Levels], Object[Levels], Bytes[Levels],
                  Writing[Levels], theirs[Levels], ours[Levels])
    BY EveryMessageComesThrough DEF TripsAt
  <2> HIDE DEF theirs, ours
  <2> QED
    BY <1>1, <1>2, <2>1 DEF RoundTrip
<1>5. message' = message
  BY <1>3, <1>4
<1>6. type' = type /\ wire' = wire /\ relays' = relays + 1 /\ relays < MaxRelays
  BY DEF Relay
<1>7. relays' \in 0..MaxRelays
  BY <1>1, <1>6, BoundsAssumption
<1>8. TypeOK'
  BY <1>1, <1>5, <1>6, <1>7 DEF TypeOK
<1> QED
  BY <1>5, <1>6, <1>8 DEF NothingLost

\* What the commands of these bindings are on the wire is what was meant.
LEMMA PublishStep ==
    ASSUME TypeOK, NEW node \in Scalar, Publish(node)
    PROVE  TypeOK' /\ NothingLost'
<1>1. type \in Type /\ relays \in 0..MaxRelays /\ type = "GenericMessage"
  BY DEF TypeOK, Publish
<1>2. type \in DOMAIN Fields
  BY <1>1, OfType
<1> DEFINE ours == Reading({})
<1>3. message' = sendPacket(node) /\ wire' = Writing[Levels][type][message']
      /\ type' = type /\ relays' = relays
  BY DEF Publish, internalBinaryWrite
<1>4. message' \in Message[Levels][type]
  BY <1>1, <1>3, CommandIsMessage
<1>5. /\ wire' \in Wire[Levels][type]
      /\ ours[Levels][type][<<create(type), wire'>>] = message'
  <2>1. RoundTrip(Message[Levels], Wire[Levels], Object[Levels], Bytes[Levels],
                  Writing[Levels], ours[Levels], ours[Levels])
    BY EveryMessageComesThrough DEF TripsAt
  <2> HIDE DEF ours
  <2> QED
    BY <1>2, <1>3, <1>4, <2>1 DEF RoundTrip
<1>6. TypeOK'
  BY <1>1, <1>3, <1>4, <1>5 DEF TypeOK
<1> QED
  BY <1>3, <1>5, <1>6 DEF NothingLost, internalBinaryRead

LEMMA NextTypeOK == TypeOK /\ NothingLost /\ [Next]_vars => TypeOK' /\ NothingLost'
<1> SUFFICES ASSUME TypeOK, NothingLost, [Next]_vars
             PROVE  TypeOK' /\ NothingLost'
  OBVIOUS
<1>1. type \in Type /\ type \in DOMAIN Fields /\ Levels \in 0..Levels
  BY OfType DEF TypeOK
<1>2. ASSUME NEW e \in Elements[Depth][type], Write(e)
      PROVE  TypeOK' /\ NothingLost'
  BY <1>1, <1>2, ElementOnWire, WriteStep
<1>3. CASE Write(<<NewField, <<Default>>>>)
  <2>1. <<<<NewField, <<Default>>>>>> \in Wire[Levels][type]
    BY <1>1, NewElement DEF Scalar
  <2> QED
    BY <1>3, <2>1, WriteStep
<1>4. ASSUME NEW lacks, Relay(lacks)
      PROVE  TypeOK' /\ NothingLost'
  BY <1>4, RelayStep
<1>5. ASSUME NEW node \in Scalar, Publish(node)
      PROVE  TypeOK' /\ NothingLost'
  BY <1>5, PublishStep
<1>6. CASE UNCHANGED vars
  BY <1>6 DEF vars, TypeOK, NothingLost
<1> QED
  BY <1>2, <1>3, <1>4, <1>5, <1>6 DEF Next

\* The invariant: the message has its type, the wire has its form, and the one
\* is what is read from the other.
THEOREM Invariance == Spec => [](TypeOK /\ NothingLost)
<1>1. Init => TypeOK /\ NothingLost
  BY InitTypeOK
<1>2. TypeOK /\ NothingLost /\ [Next]_vars => (TypeOK /\ NothingLost)'
  BY NextTypeOK
<1> QED
  BY <1>1, <1>2, PTL DEF Spec

\* What is read has the form of a message of its type, and what is on the
\* wire that of one, whatever was written and relayed on the way
\* (internalBinaryRead, internalBinaryWrite and sendPacket).
THEOREM MessageTypes == Spec => []TypeOK
BY Invariance, PTL

\* Reading and writing lose nothing, for every type of message, any number of
\* elements and relays, and every version of the bindings on the way, whatever
\* fields it lacks (internalBinaryRead, internalBinaryWrite).
THEOREM NothingIsLost == Spec => []NothingLost
BY Invariance, PTL

=============================================================================
