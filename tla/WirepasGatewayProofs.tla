------------------------- MODULE WirepasGatewayProofs -------------------------
(***************************************************************************)
(* What WirepasGateway guarantees for any nodes, any colours and any       *)
(* bounds: its types, and what can be said of the LEDs, the reported and   *)
(* the desired state when everything has come to rest.                     *)
(*                                                                         *)
(* Nothing in the code compares an LED with the shadow.  That they agree   *)
(* in the end rests on what is on its way: until they do, a query, a       *)
(* message, a request, a delta or a command makes one follow the other.    *)
(***************************************************************************)
EXTENDS WirepasGateway, LibraryLemmas, SequenceTheorems, FunctionTheorems, TLAPS

\* A query, a message, the buffer, or a request will tell the shadow what the
\* LED shows now; so will a delta, which is acknowledged as it is.
Queried(l) ==
    \E c \in ToSet(throttled) \cup ToSet(sent) : c.kind = "get" /\ c.led = l

Said(l) == \E m \in ToSet(uplink) : LedOf(m) = l /\ m.v = led[l]

Told(l) ==
    \/ buffer[l] = led[l]
    \/ \E doc \in ToSet(updates) \cup ToSet(deltas) : l \in DOMAIN doc /\ doc[l] = led[l]

\* The LED is about to be switched.
Switched(l) ==
    \/ \E doc \in ToSet(deltas) \cup {j.rest : j \in jobs} :
          l \in DOMAIN doc /\ doc[l] # led[l]
    \/ \E c \in ToSet(throttled) \cup ToSet(sent) :
          c.kind = "set" /\ c.led = l /\ c.v # led[l]

Agrees(l) == reported[l] = led[l] /\ desired[l] \in {"unset", led[l]}

\* A process that has asked the node knows what its LED shows, or is about to.
LedIsFollowed ==
    \A l \in Led : up /\ NodeOf(l) \in asked /\ l \notin missed =>
        Queried(l) \/ Said(l) \/ Told(l) \/ Switched(l) \/ Agrees(l)

\* Nothing but what an LED shows is ever said of one that nobody has set.
UnsetIsLeft ==
    \A l \in Led : desired[l] = "unset" =>
        /\ \A doc \in ToSet(deltas) \cup {j.rest : j \in jobs} : l \notin DOMAIN doc
        /\ \A c \in ToSet(throttled) \cup ToSet(sent) : c.kind = "set" => c.led # l
        /\ \A m \in ToSet(uplink) : LedOf(m) = l => m.v = led[l]
        /\ buffer[l] \in {"unset", led[l]}
        /\ \A doc \in ToSet(updates) : l \in DOMAIN doc => doc[l] = led[l]

\* What differs is on its way, as soon as the process has asked a node, or was
\* until a disconnect.
DeltaIsPending ==
    \A l \in Led :
        up /\ asked # {} /\ desired[l] # "unset" /\ reported[l] # desired[l] =>
            deltas # <<>> \/ updates # <<>> \/ buffered \/ unheard

\* A process that is not there knows nothing, and what is held back for the
\* shadow will be flushed.
DownIsBlank == ~up => asked = {}

BufferIsFlushed == \A l \in Led : buffer[l] # "unset" => buffered

Inv == TypeOK /\ DownIsBlank /\ BufferIsFlushed /\ UnsetIsLeft /\ LedIsFollowed /\ DeltaIsPending

-----------------------------------------------------------------------------
(* What the helpers of the actions return.                                 *)

State == Value \cup {"unset"}

LEMMA DocumentFacts ==
    ASSUME NEW doc
    PROVE  doc \in Document <=>
               \E S \in SUBSET Led : doc \in [S -> Value]
BY DEF Document

\* A document with the states of some LEDs.
LEMMA IsDocument ==
    ASSUME NEW doc, DOMAIN doc \subseteq Led, doc = [l \in DOMAIN doc |-> doc[l]],
           \A l \in DOMAIN doc : doc[l] \in Value
    PROVE  doc \in Document
<1>1. doc \in [DOMAIN doc -> Value]
  OBVIOUS
<1> QED
  BY <1>1 DEF Document

LEMMA OfDocument ==
    ASSUME NEW doc \in Document
    PROVE  DOMAIN doc \subseteq Led /\ \A l \in DOMAIN doc : doc[l] \in Value
BY DEF Document

LEMMA LedFacts ==
    ASSUME NEW l \in Led
    PROVE  NodeOf(l) \in Node /\ l[2] \in Color /\ l = <<NodeOf(l), l[2]>>
BY DEF Led, NodeOf

\* What is published after an update of the shadow: what is desired and not
\* reported, if anything is.
LEMMA PublishFacts ==
    ASSUME deltas \in Seq(Document), NEW d \in [Led -> State], NEW r \in [Led -> State],
           PublishDelta(d, r)
    PROVE  /\ deltas' \in Seq(Document)
           /\ ToSet(deltas) \subseteq ToSet(deltas')
           /\ \A doc \in ToSet(deltas') \ ToSet(deltas) : \A l \in DOMAIN doc :
                 l \in Led /\ d[l] # "unset" /\ doc[l] = d[l]
           /\ up => \A l \in Led : d[l] # "unset" /\ d[l] # r[l] =>
                 \E doc \in ToSet(deltas') : l \in DOMAIN doc /\ doc[l] = d[l]
<1> DEFINE diff == Difference(d, r)
<1>1. /\ DOMAIN diff = {l \in Led : d[l] # "unset" /\ d[l] # r[l]}
      /\ \A l \in DOMAIN diff : diff[l] = d[l]
      /\ diff = [l \in DOMAIN diff |-> diff[l]]
  BY DEF Difference
<1>2. \A l \in Led : d[l] \in Value \cup {"unset"}
  BY DEF State
<1> HIDE DEF diff
<1>3. diff \in Document
  BY <1>1, <1>2, IsDocument
<1>4. CASE up /\ DOMAIN diff # {}
  <2>1. deltas' = Append(deltas, diff)
    BY <1>4 DEF PublishDelta, diff
  <2>2. deltas' \in Seq(Document) /\ ToSet(deltas') = ToSet(deltas) \cup {diff}
    BY <1>3, <2>1, ElementsOfAppend
  <2> QED
    BY <1>1, <2>2
<1>5. CASE ~(up /\ DOMAIN diff # {})
  <2>1. deltas' = deltas
    BY <1>5 DEF PublishDelta, diff
  <2> QED
    BY <1>1, <1>5, <2>1
<1> QED
  BY <1>4, <1>5

LEMMA SwitchesFacts ==
    ASSUME NEW doc \in Document, NEW n \in Node
    PROVE  /\ Switches(doc, n) \in Seq(Command)
           /\ \A c : c \in ToSet(Switches(doc, n)) <=>
                 \E l \in DOMAIN doc : NodeOf(l) = n /\ c = [kind |-> "set", led |-> l, v |-> doc[l]]
<1> DEFINE L == {l \in DOMAIN doc : NodeOf(l) = n}
           Op(l) == [kind |-> "set", led |-> l, v |-> doc[l]]
           C == {Op(l) : l \in L}
           K == {k \in Color : <<n, k>> \in DOMAIN doc}
<1>1. IsFiniteSet(K)
  BY FiniteAssumption, FS_Subset
<1>2. \A l \in L : l[2] \in K /\ l = <<n, l[2]>>
  BY OfDocument, LedFacts
<1>3. [k \in K |-> Op(<<n, k>>)] \in Surjection(K, C)
  BY <1>2 DEF Surjection, NodeOf
<1>4. IsFiniteSet(C)
  BY <1>1, <1>3, FS_Surjection
<1>5. C \subseteq Command
  BY OfDocument DEF Command
<1>6. Switches(doc, n) = SetToSeq(C)
  BY DEF Switches
<1>7. SetToSeq(C) \in Seq(C) /\ ToSet(SetToSeq(C)) = C
  BY <1>4, ElementsOfSetToSeq
<1>8. SetToSeq(C) \in Seq(Command)
  BY <1>5, <1>7, SeqMonotonic
<1> QED
  BY <1>6, <1>7, <1>8

LEMMA QueriesFacts ==
    ASSUME NEW n \in Node
    PROVE  /\ Queries(n) \in Seq(Command)
           /\ \A c : c \in ToSet(Queries(n)) <=>
                 \E k \in Color : c = [kind |-> "get", led |-> <<n, k>>, v |-> "off"]
<1> DEFINE Op(k) == [kind |-> "get", led |-> <<n, k>>, v |-> "off"]
           C == {Op(k) : k \in Color}
<1>1. IsFiniteSet(C)
  <2>1. [k \in Color |-> Op(k)] \in Surjection(Color, C)
    BY DEF Surjection
  <2> QED
    BY <2>1, FiniteAssumption, FS_Surjection
<1>2. C \subseteq Command
  BY DEF Command, Led, Value
<1>3. Queries(n) = SetToSeq(C)
  BY DEF Queries
<1>4. SetToSeq(C) \in Seq(C) /\ ToSet(SetToSeq(C)) = C
  BY <1>1, ElementsOfSetToSeq
<1>5. SetToSeq(C) \in Seq(Command)
  BY <1>2, <1>4, SeqMonotonic
<1> QED
  BY <1>3, <1>4, <1>5

\* A turn of onDesired's loop: what becomes of the states in the document, and
\* where the new commands and the new call come from.
LEMMA SwitchNodeFacts ==
    ASSUME throttled \in Seq(Command), NEW doc \in Document, NEW n \in NodesOf(doc),
           NEW others \in SUBSET [rest : Document, wait : Nat],
           SwitchNode(doc, n, others)
    PROVE  /\ throttled' \in Seq(Command)
           /\ jobs' \subseteq [rest : Document, wait : Nat]
           /\ ToSet(throttled) \subseteq ToSet(throttled')
           /\ others \subseteq jobs'
           /\ \A c \in ToSet(throttled') \ ToSet(throttled) :
                 c.kind = "set" /\ c.led \in DOMAIN doc /\ c.v = doc[c.led]
           /\ \A j \in jobs' \ others :
                 \A l \in DOMAIN j.rest : l \in DOMAIN doc /\ j.rest[l] = doc[l]
           /\ \A l \in DOMAIN doc :
                 \/ \E c \in ToSet(throttled') :
                       c.kind = "set" /\ c.led = l /\ c.v = doc[l]
                 \/ \E j \in jobs' : l \in DOMAIN j.rest /\ j.rest[l] = doc[l]
<1> DEFINE rest == Without(doc, n)
           new == [rest |-> rest, wait |-> Len(throttled')]
<1>1. DOMAIN doc \subseteq Led /\ \A l \in DOMAIN doc : doc[l] \in Value
  BY OfDocument
<1>2. n \in Node
  BY <1>1, LedFacts DEF NodesOf
<1>3. throttled' = throttled \o Switches(doc, n)
  BY DEF SwitchNode
<1>4. /\ throttled' \in Seq(Command)
      /\ ToSet(throttled') = ToSet(throttled) \cup ToSet(Switches(doc, n))
  BY <1>2, <1>3, SwitchesFacts, ElementsOfConcat
<1>5. /\ DOMAIN rest = {l \in DOMAIN doc : NodeOf(l) # n}
      /\ rest = [l \in DOMAIN rest |-> rest[l]]
      /\ \A l \in DOMAIN rest : rest[l] = doc[l]
  BY DEF Without
<1>6. jobs' = others \cup (IF DOMAIN rest = {} THEN {} ELSE {new})
  BY DEF SwitchNode
<1> HIDE DEF rest
<1>7. rest \in Document
  BY <1>1, <1>5, IsDocument
<1>8. new \in [rest : Document, wait : Nat]
  BY <1>4, <1>7, LenProperties
<1>9. \A c : c \in ToSet(Switches(doc, n)) <=>
          \E l \in DOMAIN doc : NodeOf(l) = n /\ c = [kind |-> "set", led |-> l, v |-> doc[l]]
  BY <1>2, SwitchesFacts
<1>10. ASSUME NEW l \in DOMAIN doc
       PROVE  \/ \E c \in ToSet(throttled') : c.kind = "set" /\ c.led = l /\ c.v = doc[l]
              \/ \E j \in jobs' : l \in DOMAIN j.rest /\ j.rest[l] = doc[l]
  <2>1. CASE NodeOf(l) = n
    <3>1. [kind |-> "set", led |-> l, v |-> doc[l]] \in ToSet(throttled')
      BY <1>4, <1>9, <2>1
    <3> QED
      BY <3>1
  <2>2. CASE NodeOf(l) # n
    <3>1. new \in jobs' /\ l \in DOMAIN rest /\ rest[l] = doc[l]
      BY <1>5, <1>6, <2>2
    <3> QED
      BY <3>1
  <2> QED
    BY <2>1, <2>2
<1>11. ASSUME NEW c \in ToSet(throttled') \ ToSet(throttled)
       PROVE  c.kind = "set" /\ c.led \in DOMAIN doc /\ c.v = doc[c.led]
  BY <1>4, <1>9
<1>12. ASSUME NEW j \in jobs' \ others
       PROVE  \A l \in DOMAIN j.rest : l \in DOMAIN doc /\ j.rest[l] = doc[l]
  BY <1>5, <1>6
<1> QED
  BY <1>4, <1>6, <1>8, <1>10, <1>11, <1>12

LEMMA SpendFacts ==
    ASSUME TypeOK, NEW fault \in {"crash", "lost", "twice"}, Spend(fault)
    PROVE  budget' \in [{"crash", "lost", "twice"} -> Nat]
<1>1. budget \in [{"crash", "lost", "twice"} -> Nat]
  BY DEF TypeOK
<1>2. budget[fault] - 1 \in Nat
  BY <1>1 DEF Spend
<1> QED
  BY <1>1, <1>2 DEF Spend

\* What is missed stays missed, and only of nodes that have been asked.
LEMMA MissFacts ==
    ASSUME TypeOK, NEW leds, Miss(leds)
    PROVE  /\ missed' \subseteq Led
           /\ missed \subseteq missed'
           /\ \A l \in Led : l \in leds /\ NodeOf(l) \in asked => l \in missed'
BY DEF TypeOK, Miss

\* The next delta is taken, and may stay for a second time.
LEMMA DeltaArrivesFacts ==
    ASSUME TypeOK, DeltaArrives
    PROVE  /\ deltas # <<>> /\ Head(deltas) \in ToSet(deltas)
           /\ Head(deltas) \in Document
           /\ deltas' \in Seq(Document)
           /\ ToSet(deltas') \subseteq ToSet(deltas)
           /\ ToSet(deltas) = ToSet(deltas') \cup {Head(deltas)}
           /\ budget' \in [{"crash", "lost", "twice"} -> Nat]
<1>1. deltas # <<>> /\ deltas \in Seq(Document)
  BY DEF DeltaArrives, TypeOK
<1>2. /\ Head(deltas) \in Document /\ Tail(deltas) \in Seq(Document)
      /\ ToSet(deltas) = ToSet(Tail(deltas)) \cup {Head(deltas)}
  BY <1>1, ElementsOfTail
<1>3. CASE deltas' = Tail(deltas) /\ UNCHANGED budget
  BY <1>1, <1>2, <1>3 DEF TypeOK
<1>4. CASE Spend("twice") /\ deltas' = Append(Tail(deltas), Head(deltas))
  <2> DEFINE t == Tail(deltas)
             h == Head(deltas)
  <2>1. t \in Seq(Document) /\ h \in Document /\ deltas' = Append(t, h)
    BY <1>2, <1>4
  <2> HIDE DEF t, h
  <2>2. deltas' \in Seq(Document) /\ ToSet(deltas') = ToSet(t) \cup {h}
    BY <2>1, ElementsOfAppend
  <2>3. budget' \in [{"crash", "lost", "twice"} -> Nat]
    BY <1>4, SpendFacts
  <2> QED
    BY <1>1, <1>2, <2>2, <2>3 DEF t, h
<1> QED
  BY <1>3, <1>4 DEF DeltaArrives

LEMMA CommandArrivesFacts ==
    ASSUME TypeOK, CommandArrives
    PROVE  /\ sent # <<>> /\ Head(sent) \in ToSet(sent)
           /\ Head(sent) \in Command
           /\ sent' \in Seq(Command)
           /\ ToSet(sent') \subseteq ToSet(sent)
           /\ ToSet(sent) = ToSet(sent') \cup {Head(sent)}
           /\ budget' \in [{"crash", "lost", "twice"} -> Nat]
<1>1. sent # <<>> /\ sent \in Seq(Command)
  BY DEF CommandArrives, TypeOK
<1>2. /\ Head(sent) \in Command /\ Tail(sent) \in Seq(Command)
      /\ ToSet(sent) = ToSet(Tail(sent)) \cup {Head(sent)}
  BY <1>1, ElementsOfTail
<1>3. CASE sent' = Tail(sent) /\ UNCHANGED budget
  BY <1>1, <1>2, <1>3 DEF TypeOK
<1>4. CASE Spend("twice") /\ sent' = Append(Tail(sent), Head(sent))
  <2> DEFINE t == Tail(sent)
             h == Head(sent)
  <2>1. t \in Seq(Command) /\ h \in Command /\ sent' = Append(t, h)
    BY <1>2, <1>4
  <2> HIDE DEF t, h
  <2>2. sent' \in Seq(Command) /\ ToSet(sent') = ToSet(t) \cup {h}
    BY <2>1, ElementsOfAppend
  <2>3. budget' \in [{"crash", "lost", "twice"} -> Nat]
    BY <1>4, SpendFacts
  <2> QED
    BY <1>1, <1>2, <2>2, <2>3 DEF t, h
<1> QED
  BY <1>3, <1>4 DEF CommandArrives

\* A message is added to those on their way.
LEMMA SayFacts ==
    ASSUME uplink \in Seq(Message), NEW n \in Node, NEW c \in Color \cup {NoColor},
           NEW v \in Value, Say(n, c, v)
    PROVE  /\ uplink' \in Seq(Message)
           /\ ToSet(uplink') = ToSet(uplink) \cup {[node |-> n, color |-> c, v |-> v]}
<1>1. [node |-> n, color |-> c, v |-> v] \in Message
  BY DEF Message
<1> QED
  BY <1>1, ElementsOfAppend DEF Say

LEMMA AskFacts ==
    ASSUME TypeOK, NEW n \in Node, Ask(n)
    PROVE  /\ throttled' \in Seq(Command)
           /\ ToSet(throttled) \subseteq ToSet(throttled')
           /\ \A c \in ToSet(throttled') \ ToSet(throttled) : c.kind = "get"
           /\ n \notin asked => \A k \in Color :
                 \E c \in ToSet(throttled') : c.kind = "get" /\ c.led = <<n, k>>
           /\ asked' = asked \cup {n}
<1>1. CASE n \in asked
  BY <1>1 DEF Ask, TypeOK
<1>2. CASE n \notin asked
  <2>1. throttled' = throttled \o Queries(n)
    BY <1>2 DEF Ask
  <2>2. /\ throttled' \in Seq(Command)
        /\ ToSet(throttled') = ToSet(throttled) \cup ToSet(Queries(n))
    BY <2>1, QueriesFacts, ElementsOfConcat DEF TypeOK
  <2>3. \A c : c \in ToSet(Queries(n)) <=>
            \E k \in Color : c = [kind |-> "get", led |-> <<n, k>>, v |-> "off"]
    BY QueriesFacts
  <2>4. ASSUME NEW k \in Color
        PROVE  \E c \in ToSet(throttled') : c.kind = "get" /\ c.led = <<n, k>>
    <3>1. [kind |-> "get", led |-> <<n, k>>, v |-> "off"] \in ToSet(throttled')
      BY <2>2, <2>3
    <3> QED
      BY <3>1
  <2>5. \A c \in ToSet(throttled') \ ToSet(throttled) : c.kind = "get"
    BY <2>2, <2>3
  <2> QED
    BY <2>2, <2>4, <2>5 DEF Ask
<1> QED
  BY <1>1, <1>2

\* A message that carries an LED state is about an LED.
LEMMA MessageFacts ==
    ASSUME NEW m \in Message
    PROVE  /\ m.color # NoColor <=> LedOf(m) \in Led
           /\ LedOf(m) \in Led => NodeOf(LedOf(m)) = m.node
           /\ m.node \in Node /\ m.v \in Value
BY NoColorAssumption DEF Message, LedOf, Led, NodeOf

-----------------------------------------------------------------------------
(* Types.                                                                  *)

LEMMA UnsetFacts == Unset \in [Led -> State] /\ \A l \in Led : Unset[l] = "unset"
BY DEF Unset, State

LEMMA TypeFacts ==
    ASSUME TypeOK
    PROVE  /\ led \in [Led -> Value]
           /\ desired \in [Led -> State] /\ reported \in [Led -> State]
           /\ buffer \in [Led -> State]
           /\ deltas \in Seq(Document) /\ updates \in Seq(Document)
           /\ throttled \in Seq(Command) /\ sent \in Seq(Command)
           /\ uplink \in Seq(Message)
           /\ jobs \subseteq [rest : Document, wait : Nat]
           /\ ToSet(deltas) \subseteq Document /\ ToSet(updates) \subseteq Document
           /\ ToSet(throttled) \subseteq Command /\ ToSet(sent) \subseteq Command
           /\ ToSet(uplink) \subseteq Message
BY ElementsOf DEF TypeOK, State

\* What the user sets, and the delta that follows from it.
LEMMA SetDesiredFacts ==
    ASSUME TypeOK, SetDesired
    PROVE  /\ desired' \in [Led -> State]
           /\ \A l \in Led : desired'[l] = desired[l] \/ desired'[l] # "unset"
           /\ PublishDelta(desired', reported)
           /\ changes' \in 0..MaxChanges
<1>1. PICK S \in SUBSET Node : \E f \in [S \X Color -> Value] : desired' = Updated(desired, f)
  BY DEF SetDesired
<1>2. PICK f \in [S \X Color -> Value] : desired' = Updated(desired, f)
  BY <1>1
<1>3. S \X Color \subseteq Led
  BY DEF Led
<1>4. desired \in [Led -> State]
  BY TypeFacts
<1>5. /\ DOMAIN desired' = Led
      /\ \A l \in Led : desired'[l] = IF l \in S \X Color THEN f[l] ELSE desired[l]
      /\ desired' = [l \in DOMAIN desired' |-> desired'[l]]
  BY <1>2, <1>3, <1>4 DEF Updated
<1>6. \A l \in Led : desired'[l] \in State /\ (desired'[l] = desired[l] \/ desired'[l] # "unset")
  BY <1>4, <1>5 DEF State, Value
<1>7. changes' \in 0..MaxChanges
  BY BoundsAssumption DEF SetDesired, TypeOK
<1> QED
  BY <1>5, <1>6, <1>7 DEF SetDesired

LEMMA ApplyUpdateFacts ==
    ASSUME TypeOK, NEW i \in DOMAIN updates, ApplyUpdate(i)
    PROVE  /\ updates[i] \in ToSet(updates) /\ updates[i] \in Document
           /\ updates' \in Seq(Document)
           /\ ToSet(updates) = ToSet(updates') \cup {updates[i]}
           /\ reported' \in [Led -> State]
           /\ \A l \in Led : reported'[l] = IF l \in DOMAIN updates[i]
                                            THEN updates[i][l] ELSE reported[l]
           /\ PublishDelta(desired, reported')
<1>1. updates \in Seq(Document) /\ i \in 1..Len(updates)
  BY LenProperties DEF TypeOK
<1>2. /\ updates[i] \in Document /\ updates' \in Seq(Document)
      /\ ToSet(updates) = ToSet(updates') \cup {updates[i]}
  BY <1>1, ElementOfSeq, ElementsOfRemoveAt DEF ApplyUpdate
<1>3. DOMAIN updates[i] \subseteq Led /\ \A l \in DOMAIN updates[i] : updates[i][l] \in Value
  BY <1>2, OfDocument
<1>4. reported \in [Led -> State]
  BY TypeFacts
<1>5. /\ DOMAIN reported' = Led
      /\ \A l \in Led : reported'[l] = IF l \in DOMAIN updates[i]
                                       THEN updates[i][l] ELSE reported[l]
      /\ reported' = [l \in DOMAIN reported' |-> reported'[l]]
  BY <1>3, <1>4 DEF ApplyUpdate, Updated
<1>6. \A l \in Led : reported'[l] \in State
  BY <1>3, <1>4, <1>5 DEF State
<1> QED
  BY <1>2, <1>5, <1>6 DEF ApplyUpdate

\* What is flushed.
LEMMA FlushFacts ==
    ASSUME TypeOK, Flush
    PROVE  /\ updates' \in Seq(Document)
           /\ \E doc : /\ ToSet(updates') = ToSet(updates) \cup {doc}
                       /\ DOMAIN doc = {l \in Led : buffer[l] # "unset"}
                       /\ \A l \in DOMAIN doc : doc[l] = buffer[l]
<1> DEFINE doc == [l \in {l \in Led : buffer[l] # "unset"} |-> buffer[l]]
<1>1. /\ DOMAIN doc = {l \in Led : buffer[l] # "unset"}
      /\ \A l \in DOMAIN doc : doc[l] = buffer[l]
      /\ doc = [l \in DOMAIN doc |-> doc[l]]
  OBVIOUS
<1>2. updates' = Append(updates, doc)
  BY DEF Flush
<1> HIDE DEF doc
<1>3. doc \in Document
  BY <1>1, TypeFacts, IsDocument DEF State
<1>4. updates' \in Seq(Document) /\ ToSet(updates') = ToSet(updates) \cup {doc}
  BY <1>2, <1>3, TypeFacts, ElementsOfAppend
<1> QED
  BY <1>1, <1>4

LEMMA PublishCommandFacts ==
    ASSUME TypeOK, PublishCommand
    PROVE  /\ throttled' \in Seq(Command) /\ sent' \in Seq(Command)
           /\ ToSet(throttled') \cup ToSet(sent') = ToSet(throttled) \cup ToSet(sent)
           /\ jobs' \subseteq [rest : Document, wait : Nat]
           /\ {j.rest : j \in jobs'} = {j.rest : j \in jobs}
<1> DEFINE after(j) == [j EXCEPT !.wait = IF @ > 0 THEN @ - 1 ELSE 0]
<1>1. throttled \in Seq(Command) /\ throttled # <<>> /\ sent \in Seq(Command)
  BY TypeFacts DEF PublishCommand
<1>2. /\ throttled' = Tail(throttled) /\ sent' = Append(sent, Head(throttled))
      /\ jobs' = {after(j) : j \in jobs}
  BY DEF PublishCommand
<1>3. /\ Head(throttled) \in Command /\ throttled' \in Seq(Command)
      /\ ToSet(throttled) = ToSet(throttled') \cup {Head(throttled)}
  BY <1>1, <1>2, ElementsOfTail
<1>4. sent' \in Seq(Command) /\ ToSet(sent') = ToSet(sent) \cup {Head(throttled)}
  BY <1>1, <1>2, <1>3, ElementsOfAppend
<1>5. ASSUME NEW j \in jobs
      PROVE  after(j) \in [rest : Document, wait : Nat] /\ after(j).rest = j.rest
  <2>1. j \in [rest : Document, wait : Nat]
    BY TypeFacts
  <2>2. (IF j.wait > 0 THEN j.wait - 1 ELSE 0) \in Nat
    BY <2>1
  <2> QED
    BY <2>1, <2>2
<1> HIDE DEF after
<1> QED
  BY <1>2, <1>3, <1>4, <1>5

LEMMA ExecuteFacts ==
    ASSUME TypeOK, Execute
    PROVE  LET c == Head(sent) IN
           /\ c \in Command
           /\ led' \in [Led -> Value]
           /\ uplink' \in Seq(Message)
           /\ ToSet(uplink) \subseteq ToSet(uplink')
           /\ \A m \in ToSet(uplink') \ ToSet(uplink) : LedOf(m) = c.led /\ m.v = led'[c.led]
           /\ \A l \in Led : l # c.led \/ c.kind = "get" => led'[l] = led[l]
           /\ c.kind = "set" => led'[c.led] = c.v
           /\ (c.kind = "get" \/ led'[c.led] # led[c.led]) =>
                 \E m \in ToSet(uplink') : LedOf(m) = c.led /\ m.v = led'[c.led]
<1> DEFINE c == Head(sent)
<1>1. c \in Command /\ led \in [Led -> Value]
  BY CommandArrivesFacts, TypeFacts DEF Execute
<1>2. /\ led' = IF c.kind = "set" THEN [led EXCEPT ![c.led] = c.v] ELSE led
      /\ IF c.kind = "get" \/ led' # led THEN Say(NodeOf(c.led), c.led[2], led'[c.led])
                                          ELSE UNCHANGED uplink
  BY DEF Execute
<1> HIDE DEF c
<1>3. c.led \in Led /\ c.kind \in {"set", "get"} /\ c.v \in Value
  BY <1>1 DEF Command
<1>4. /\ led' \in [Led -> Value]
      /\ \A l \in Led : l # c.led \/ c.kind = "get" => led'[l] = led[l]
      /\ c.kind = "set" => led'[c.led] = c.v
  BY <1>1, <1>2, <1>3
<1>5. CASE c.kind = "get" \/ led' # led
  <2> DEFINE m == [node |-> NodeOf(c.led), color |-> c.led[2], v |-> led'[c.led]]
  <2>1. /\ uplink' \in Seq(Message) /\ ToSet(uplink') = ToSet(uplink) \cup {m}
    BY <1>2, <1>3, <1>4, <1>5, LedFacts, SayFacts, TypeFacts
  <2>2. LedOf(m) = c.led /\ m.v = led'[c.led]
    BY <1>3, LedFacts DEF LedOf
  <2> HIDE DEF m
  <2> QED
    BY <1>1, <1>4, <2>1, <2>2 DEF c
<1>6. CASE ~(c.kind = "get" \/ led' # led)
  <2>1. uplink' = uplink /\ led' = led
    BY <1>2, <1>6
  <2> QED
    BY <1>1, <1>4, <1>6, <2>1, TypeFacts DEF c
<1> QED
  BY <1>5, <1>6

\* A delta is handled: its states go to the throttle, to a waiting call, or
\* to both, and to a request that acknowledges them.
LEMMA OnDeltaFacts ==
    ASSUME TypeOK, OnDelta
    PROVE  LET doc == Head(deltas) IN
           /\ doc \in ToSet(deltas) /\ doc \in Document
           /\ deltas # <<>>
           /\ deltas' \in Seq(Document)
           /\ ToSet(deltas) = ToSet(deltas') \cup {doc}
           /\ budget' \in [{"crash", "lost", "twice"} -> Nat]
           /\ updates' \in Seq(Document) /\ updates' # <<>>
           /\ ToSet(updates') = ToSet(updates) \cup {doc}
           /\ \E n \in NodesOf(doc) : SwitchNode(doc, n, jobs)
<1> DEFINE doc == Head(deltas)
<1>1. /\ doc \in ToSet(deltas) /\ doc \in Document
      /\ deltas # <<>>
      /\ deltas' \in Seq(Document)
      /\ ToSet(deltas) = ToSet(deltas') \cup {doc}
      /\ budget' \in [{"crash", "lost", "twice"} -> Nat]
  BY DeltaArrivesFacts DEF OnDelta
<1>2. updates' = Append(updates, doc) /\ updates \in Seq(Document)
  BY TypeFacts DEF OnDelta
<1>3. \E n \in NodesOf(doc) : SwitchNode(doc, n, jobs)
  BY DEF OnDelta
<1> HIDE DEF doc
<1>4. updates' \in Seq(Document) /\ ToSet(updates') = ToSet(updates) \cup {doc}
  BY <1>1, <1>2, ElementsOfAppend
<1>5. updates' # <<>>
  BY <1>4, ElementsOfEmpty
<1> QED
  BY <1>1, <1>3, <1>4, <1>5 DEF doc

\* A waiting call takes its next turn.
LEMMA NextNodeFacts ==
    ASSUME TypeOK, NextNode
    PROVE  \E j \in jobs : /\ j.rest \in Document
                           /\ \E n \in NodesOf(j.rest) : SwitchNode(j.rest, n, jobs \ {j})
BY TypeFacts DEF NextNode

LEMMA ReceiveFacts ==
    ASSUME TypeOK, Receive
    PROVE  LET m == Head(uplink) IN
           /\ m \in Message
           /\ uplink' \in Seq(Message)
           /\ ToSet(uplink) = ToSet(uplink') \cup {m}
           /\ buffer' \in [Led -> State]
           /\ \A l \in Led : buffer'[l] = IF LedOf(m) = l /\ buffer[l] = "unset"
                                          THEN m.v ELSE buffer[l]
           /\ missed' \subseteq Led
           /\ missed \subseteq missed'
           /\ LedOf(m) \in Led /\ m.node \in asked /\ buffer[LedOf(m)] \notin {"unset", m.v} =>
                 LedOf(m) \in missed'
<1> DEFINE m == Head(uplink)
<1>1. uplink \in Seq(Message) /\ uplink # <<>> /\ uplink' = Tail(uplink)
  BY TypeFacts DEF Receive
<1>2. /\ m \in Message
      /\ uplink' \in Seq(Message)
      /\ ToSet(uplink) = ToSet(uplink') \cup {m}
  BY <1>1, ElementsOfTail
<1>3. buffer' = Merge(m) /\ Miss(IF Drops(m) THEN {LedOf(m)} ELSE {})
  BY DEF Receive
<1>4. buffer \in [Led -> State] /\ missed \subseteq Led
  BY TypeFacts DEF TypeOK
<1> HIDE DEF m
<1>5. buffer' \in [Led -> State] /\ \A l \in Led : buffer'[l] =
          IF LedOf(m) = l /\ buffer[l] = "unset" THEN m.v ELSE buffer[l]
  BY <1>2, <1>3, <1>4, MessageFacts DEF Merge, State
<1>6. missed' \subseteq Led /\ missed \subseteq missed'
  BY <1>3, MissFacts
<1>7. ASSUME LedOf(m) \in Led, m.node \in asked, buffer[LedOf(m)] \notin {"unset", m.v}
      PROVE  LedOf(m) \in missed'
  <2>1. Drops(m)
    BY <1>2, <1>7, MessageFacts DEF Drops
  <2> QED
    BY <1>2, <1>3, <1>7, <2>1, MissFacts, MessageFacts
<1> QED
  BY <1>2, <1>5, <1>6, <1>7 DEF m

LEMMA LoseMessageFacts ==
    ASSUME TypeOK, LoseMessage
    PROVE  LET m == Head(uplink) IN
           /\ m \in Message
           /\ uplink' \in Seq(Message)
           /\ ToSet(uplink) = ToSet(uplink') \cup {m}
           /\ missed' \subseteq Led
           /\ missed \subseteq missed'
           /\ up /\ LedOf(m) \in Led /\ NodeOf(LedOf(m)) \in asked => LedOf(m) \in missed'
           /\ budget' \in [{"crash", "lost", "twice"} -> Nat]
<1> DEFINE m == Head(uplink)
<1>1. uplink \in Seq(Message) /\ uplink # <<>> /\ uplink' = Tail(uplink)
  BY TypeFacts DEF LoseMessage
<1>2. /\ m \in Message
      /\ uplink' \in Seq(Message)
      /\ ToSet(uplink) = ToSet(uplink') \cup {m}
  BY <1>1, ElementsOfTail
<1>3. CASE up
  <2>1. Spend("lost") /\ Miss({LedOf(m)})
    BY <1>3 DEF LoseMessage
  <2> HIDE DEF m
  <2> QED
    BY <1>2, <2>1, SpendFacts, MissFacts DEF m
<1>4. CASE ~up
  BY <1>2, <1>4 DEF LoseMessage, TypeOK
<1> QED
  BY <1>3, <1>4

LEMMA LoseCommandFacts ==
    ASSUME TypeOK, LoseCommand
    PROVE  LET c == Head(sent) IN
           /\ c \in Command
           /\ sent' \in Seq(Command)
           /\ ToSet(sent) = ToSet(sent') \cup {c}
           /\ missed' \subseteq Led
           /\ missed \subseteq missed'
           /\ NodeOf(c.led) \in asked => c.led \in missed'
           /\ budget' \in [{"crash", "lost", "twice"} -> Nat]
<1> DEFINE c == Head(sent)
<1>1. sent \in Seq(Command) /\ sent # <<>> /\ sent' = Tail(sent)
  BY TypeFacts DEF LoseCommand
<1>2. /\ c \in Command
      /\ sent' \in Seq(Command)
      /\ ToSet(sent) = ToSet(sent') \cup {c}
  BY <1>1, ElementsOfTail
<1>3. Spend("lost") /\ Miss({c.led})
  BY DEF LoseCommand
<1> HIDE DEF c
<1>4. c.led \in Led
  BY <1>2 DEF Command
<1> QED
  BY <1>2, <1>3, <1>4, SpendFacts, MissFacts DEF c

\* A disconnect takes all deltas on their way; what they are about is missed.
LEMMA DisconnectFacts ==
    ASSUME TypeOK, Disconnect
    PROVE  /\ deltas' \in Seq(Document) /\ ToSet(deltas') = {}
           /\ missed' \subseteq Led
           /\ missed \subseteq missed'
           /\ \A l \in Led : \A doc \in ToSet(deltas) :
                 l \in DOMAIN doc /\ NodeOf(l) \in asked => l \in missed'
           /\ budget' \in [{"crash", "lost", "twice"} -> Nat]
<1> DEFINE leds == UNION {DOMAIN doc : doc \in ToSet(deltas)}
<1>1. deltas' = <<>> /\ Spend("lost") /\ Miss(leds)
  BY DEF Disconnect
<1>2. \A l : \A doc \in ToSet(deltas) : l \in DOMAIN doc => l \in leds
  OBVIOUS
<1> HIDE DEF leds
<1>3. deltas' \in Seq(Document) /\ ToSet(deltas') = {}
  BY <1>1, EmptySeq, ElementsOfEmpty
<1> QED
  BY <1>1, <1>2, <1>3, SpendFacts, MissFacts

LEMMA CrashFacts ==
    ASSUME TypeOK, Crash
    PROVE  /\ updates' \in Seq(Document) /\ ToSet(updates') \subseteq ToSet(updates)
           /\ budget' \in [{"crash", "lost", "twice"} -> Nat]
           /\ buffer' = Unset /\ buffer' \in [Led -> State]
<1>1. updates \in Seq(Document) /\ Len(updates) \in Nat
  BY TypeFacts, LenProperties
<1>2. PICK i \in 0..Len(updates) : updates' = SubSeq(updates, 1, i)
  BY DEF Crash
<1>3. /\ updates' \in Seq(Document)
      /\ \A x : x \in ToSet(updates') <=> \E k \in 1..i : updates[k] = x
  BY <1>1, <1>2, ElementsOfSubSeq
<1>4. \A x : x \in ToSet(updates) <=> \E k \in 1..Len(updates) : updates[k] = x
  BY <1>1, ElementsOf
<1>5. ToSet(updates') \subseteq ToSet(updates)
  BY <1>1, <1>3, <1>4
<1> QED
  BY <1>3, <1>5, SpendFacts, UnsetFacts DEF Crash

LEMMA TypeStep ==
    ASSUME TypeOK, [Next]_vars
    PROVE  TypeOK'
<1> USE DEF meshVars, bufferVars, queueVars, stateVars, historyVars
<1>1. ASSUME SetDesired
      PROVE  TypeOK'
  <2>1. deltas' \in Seq(Document)
    BY <1>1, SetDesiredFacts, PublishFacts, TypeFacts
  <2> QED
    BY <1>1, <2>1, SetDesiredFacts DEF SetDesired, TypeOK, State
<1>2. ASSUME NEW i \in DOMAIN updates, ApplyUpdate(i)
      PROVE  TypeOK'
  <2>1. deltas' \in Seq(Document)
    BY <1>2, ApplyUpdateFacts, PublishFacts, TypeFacts
  <2> QED
    BY <1>2, <2>1, ApplyUpdateFacts DEF ApplyUpdate, TypeOK, State
<1>3. ASSUME OnDelta
      PROVE  TypeOK'
  <2>1. throttled' \in Seq(Command) /\ jobs' \subseteq [rest : Document, wait : Nat]
    BY <1>3, OnDeltaFacts, SwitchNodeFacts, TypeFacts
  <2> QED
    BY <1>3, <2>1, OnDeltaFacts DEF OnDelta, TypeOK
<1>4. ASSUME NextNode
      PROVE  TypeOK'
  <2>1. throttled' \in Seq(Command) /\ jobs' \subseteq [rest : Document, wait : Nat]
    BY <1>4, NextNodeFacts, SwitchNodeFacts, TypeFacts
  <2> QED
    BY <1>4, <2>1 DEF NextNode, TypeOK
<1>5. ASSUME PublishCommand
      PROVE  TypeOK'
  BY <1>5, PublishCommandFacts DEF PublishCommand, TypeOK
<1>6. ASSUME Execute
      PROVE  TypeOK'
  BY <1>6, ExecuteFacts, CommandArrivesFacts DEF Execute, TypeOK
<1>7. ASSUME NEW n \in Node, SendData(n)
      PROVE  TypeOK'
  <2>1. uplink' \in Seq(Message)
    BY <1>7, SayFacts, TypeFacts DEF SendData, Value
  <2> QED
    BY <1>7, <2>1 DEF SendData, TypeOK
<1>8. ASSUME LoseMessage
      PROVE  TypeOK'
  BY <1>8, LoseMessageFacts DEF LoseMessage, TypeOK
<1>9. ASSUME Receive
      PROVE  TypeOK'
  <2>1. Head(uplink).node \in Node
    BY <1>9, ReceiveFacts DEF Message
  <2>2. throttled' \in Seq(Command) /\ asked' \subseteq Node
    BY <1>9, <2>1, AskFacts DEF Receive, TypeOK
  <2> QED
    BY <1>9, <2>2, ReceiveFacts DEF Receive, TypeOK, State
<1>10. ASSUME Flush
       PROVE  TypeOK'
  BY <1>10, FlushFacts, UnsetFacts DEF Flush, TypeOK, State
<1>11. ASSUME Crash
       PROVE  TypeOK'
  <2>1. throttled' \in Seq(Command) /\ deltas' \in Seq(Document)
    BY <1>11, EmptySeq DEF Crash
  <2> QED
    BY <1>11, <2>1, CrashFacts DEF Crash, TypeOK, State
<1>12. ASSUME Restart
       PROVE  TypeOK'
  BY <1>12 DEF Restart, TypeOK
<1>13. ASSUME LoseCommand
       PROVE  TypeOK'
  BY <1>13, LoseCommandFacts DEF LoseCommand, TypeOK
<1>14. ASSUME Disconnect
       PROVE  TypeOK'
  BY <1>14, DisconnectFacts DEF Disconnect, TypeOK
<1>15. ASSUME UNCHANGED vars
       PROVE  TypeOK'
  BY <1>15 DEF vars, TypeOK
<1> QED
  BY <1>1, <1>2, <1>3, <1>4, <1>5, <1>6, <1>7, <1>8, <1>9, <1>10, <1>11, <1>12, <1>13,
     <1>14, <1>15
     DEF Next

-----------------------------------------------------------------------------
(* The invariants.                                                         *)

LEMMA DownStep ==
    ASSUME DownIsBlank, [Next]_vars
    PROVE  DownIsBlank'
BY DEF DownIsBlank, Next, vars, meshVars, bufferVars, queueVars, stateVars, SetDesired,
       ApplyUpdate, Disconnect, OnDelta, NextNode, PublishCommand, Execute, LoseCommand,
       SendData, LoseMessage, Receive, Flush, Crash, Restart

LEMMA BufferStep ==
    ASSUME TypeOK, BufferIsFlushed, [Next]_vars
    PROVE  BufferIsFlushed'
<1>1. CASE Flush \/ Crash
  BY <1>1, UnsetFacts DEF Flush, Crash, BufferIsFlushed
<1>2. CASE ~(Flush \/ Crash)
  BY <1>2 DEF BufferIsFlushed, Next, vars, bufferVars, SetDesired, ApplyUpdate, Disconnect,
              OnDelta, NextNode, PublishCommand, Execute, LoseCommand, SendData, LoseMessage,
              Receive, Restart
<1> QED
  BY <1>1, <1>2

\* What an update or the user leaves to differ is published at once; whatever
\* is taken from the deltas or the buffer goes to a request; and a process
\* that has not asked a node has something to flush as soon as it has.
LEMMA PendingStep ==
    ASSUME TypeOK, DownIsBlank, DeltaIsPending, [Next]_vars
    PROVE  DeltaIsPending'
<1> USE DEF meshVars, bufferVars, queueVars, stateVars, historyVars
<1>1. ASSUME SetDesired
      PROVE  DeltaIsPending'
  <2> SUFFICES ASSUME NEW l \in Led, up', asked' # {}, desired'[l] # "unset",
                      reported'[l] # desired'[l]
               PROVE  deltas' # <<>>
    BY DEF DeltaIsPending
  <2>1. \E doc \in ToSet(deltas') : l \in DOMAIN doc
    BY <1>1, SetDesiredFacts, PublishFacts, TypeFacts DEF SetDesired
  <2> QED
    BY <2>1, ElementsOfEmpty
<1>2. ASSUME NEW i \in DOMAIN updates, ApplyUpdate(i)
      PROVE  DeltaIsPending'
  <2> SUFFICES ASSUME NEW l \in Led, up', asked' # {}, desired'[l] # "unset",
                      reported'[l] # desired'[l]
               PROVE  deltas' # <<>>
    BY DEF DeltaIsPending
  <2>1. reported' \in [Led -> State] /\ PublishDelta(desired, reported')
    BY <1>2, ApplyUpdateFacts
  <2>2. up /\ desired[l] # "unset" /\ desired[l] # reported'[l]
    BY <1>2 DEF ApplyUpdate
  <2>3. \E doc \in ToSet(deltas') : l \in DOMAIN doc
    BY <2>1, <2>2, PublishFacts, TypeFacts
  <2> QED
    BY <2>3, ElementsOfEmpty
<1>3. ASSUME OnDelta
      PROVE  DeltaIsPending'
  BY <1>3, OnDeltaFacts DEF DeltaIsPending
<1>4. ASSUME Flush
      PROVE  DeltaIsPending'
  <2>1. updates' # <<>>
    BY <1>4, FlushFacts, ElementsOfEmpty
  <2> QED
    BY <2>1 DEF DeltaIsPending
<1>5. ASSUME Receive \/ Crash \/ Restart
      PROVE  DeltaIsPending'
  BY <1>5 DEF Receive, Crash, Restart, DownIsBlank, DeltaIsPending
<1>6. ASSUME \/ NextNode \/ PublishCommand \/ Execute \/ LoseCommand
             \/ \E n \in Node : SendData(n)
             \/ LoseMessage \/ UNCHANGED vars
      PROVE  DeltaIsPending'
  <2>1. UNCHANGED <<up, asked, buffered, updates, deltas, desired, reported, unheard>>
    BY <1>6 DEF NextNode, PublishCommand, Execute, LoseCommand, SendData, LoseMessage, vars
  <2> QED
    BY <2>1 DEF DeltaIsPending
<1>7. ASSUME Disconnect
      PROVE  DeltaIsPending'
  BY <1>7 DEF Disconnect, DeltaIsPending
<1> QED
  BY <1>1, <1>2, <1>3, <1>4, <1>5, <1>6, <1>7 DEF Next

\* Only what is desired is ever commanded, so an LED that nobody has set keeps
\* its state, and all that is said of it is that state.
LEMMA UnsetStep ==
    ASSUME TypeOK, UnsetIsLeft, [Next]_vars
    PROVE  UnsetIsLeft'
<1> USE DEF meshVars, bufferVars, queueVars, stateVars, historyVars
<1> DEFINE Left(l) ==
        /\ \A doc \in ToSet(deltas) \cup {j.rest : j \in jobs} : l \notin DOMAIN doc
        /\ \A c \in ToSet(throttled) \cup ToSet(sent) : c.kind = "set" => c.led # l
        /\ \A m \in ToSet(uplink) : LedOf(m) = l => m.v = led[l]
        /\ buffer[l] \in {"unset", led[l]}
        /\ \A doc \in ToSet(updates) : l \in DOMAIN doc => doc[l] = led[l]
<1> SUFFICES ASSUME NEW l \in Led, desired'[l] = "unset"
             PROVE  Left(l)'
  BY DEF UnsetIsLeft
<1>1. desired[l] = "unset"
  <2>1. CASE SetDesired
    BY <2>1, SetDesiredFacts
  <2>2. CASE ~SetDesired
    BY <2>2 DEF Next, vars, ApplyUpdate, Disconnect, OnDelta, NextNode, PublishCommand,
                Execute, LoseCommand, SendData, LoseMessage, Receive, Flush, Crash, Restart
  <2> QED
    BY <2>1, <2>2
<1>2. Left(l)
  BY <1>1 DEF UnsetIsLeft
<1>3. ASSUME SetDesired
      PROVE  Left(l)'
  <2>1. \A doc \in ToSet(deltas') : l \notin DOMAIN doc
    BY <1>2, <1>3, SetDesiredFacts, PublishFacts, TypeFacts
  <2> QED
    BY <1>2, <1>3, <2>1 DEF SetDesired
<1>4. ASSUME NEW i \in DOMAIN updates, ApplyUpdate(i)
      PROVE  Left(l)'
  <2>1. \A doc \in ToSet(deltas') : l \notin DOMAIN doc
    BY <1>1, <1>2, <1>4, ApplyUpdateFacts, PublishFacts, TypeFacts
  <2> QED
    BY <1>2, <1>4, <2>1, ApplyUpdateFacts DEF ApplyUpdate
<1>5. ASSUME OnDelta
      PROVE  Left(l)'
  <2>1. l \notin DOMAIN Head(deltas)
    BY <1>2, <1>5, OnDeltaFacts
  <2>2. PICK n \in NodesOf(Head(deltas)) : SwitchNode(Head(deltas), n, jobs)
    BY <1>5, OnDeltaFacts
  <2>3. /\ \A c \in ToSet(throttled') \ ToSet(throttled) :
              c.kind = "set" /\ c.led \in DOMAIN Head(deltas)
        /\ \A j \in jobs' \ jobs : \A k \in DOMAIN j.rest : k \in DOMAIN Head(deltas)
    BY <1>5, <2>2, OnDeltaFacts, SwitchNodeFacts, TypeFacts
  <2> QED
    BY <1>2, <1>5, <2>1, <2>3, OnDeltaFacts DEF OnDelta
<1>6. ASSUME NextNode
      PROVE  Left(l)'
  <2>1. PICK j \in jobs : /\ j.rest \in Document
                          /\ \E n \in NodesOf(j.rest) : SwitchNode(j.rest, n, jobs \ {j})
    BY <1>6, NextNodeFacts
  <2>2. PICK n \in NodesOf(j.rest) : SwitchNode(j.rest, n, jobs \ {j})
    BY <2>1
  <2>3. l \notin DOMAIN j.rest
    BY <1>2
  <2>4. /\ \A c \in ToSet(throttled') \ ToSet(throttled) :
              c.kind = "set" /\ c.led \in DOMAIN j.rest
        /\ \A k \in jobs' \ (jobs \ {j}) : \A x \in DOMAIN k.rest : x \in DOMAIN j.rest
    BY <2>1, <2>2, SwitchNodeFacts, TypeFacts
  <2> QED
    BY <1>2, <1>6, <2>3, <2>4 DEF NextNode
<1>7. ASSUME PublishCommand
      PROVE  Left(l)'
  BY <1>2, <1>7, PublishCommandFacts DEF PublishCommand
<1>8. ASSUME Execute
      PROVE  Left(l)'
  <2> DEFINE c == Head(sent)
  <2>1. c \in ToSet(sent) /\ c.kind \in {"get", "set"}
    BY <1>8, CommandArrivesFacts DEF Execute, Command
  <2>2. led'[l] = led[l]
    BY <1>2, <1>8, <2>1, ExecuteFacts
  <2>3. \A m \in ToSet(uplink') : LedOf(m) = l => m.v = led'[l]
    BY <1>2, <1>8, <2>2, ExecuteFacts
  <2> QED
    BY <1>2, <1>8, <2>2, <2>3, CommandArrivesFacts DEF Execute
<1>9. ASSUME NEW n \in Node, SendData(n)
      PROVE  Left(l)'
  <2> DEFINE m == [node |-> n, color |-> NoColor, v |-> "off"]
  <2>1. ToSet(uplink') = ToSet(uplink) \cup {m}
    BY <1>9, SayFacts, TypeFacts DEF SendData, Value
  <2>2. LedOf(m) # l
    BY NoColorAssumption DEF LedOf, Led
  <2> QED
    BY <1>2, <1>9, <2>1, <2>2 DEF SendData
<1>10. ASSUME LoseMessage
       PROVE  Left(l)'
  BY <1>2, <1>10, LoseMessageFacts DEF LoseMessage
<1>11. ASSUME Receive
       PROVE  Left(l)'
  <2>1. Head(uplink) \in ToSet(uplink) /\ Head(uplink).node \in Node
    BY <1>11, ReceiveFacts DEF Message
  <2>2. \A c \in ToSet(throttled') \ ToSet(throttled) : c.kind = "get"
    BY <1>11, <2>1, AskFacts DEF Receive
  <2>3. buffer'[l] \in {"unset", led[l]}
    BY <1>2, <1>11, <2>1, ReceiveFacts
  <2> QED
    BY <1>2, <1>11, <2>2, <2>3, ReceiveFacts DEF Receive
<1>12. ASSUME Flush
       PROVE  Left(l)'
  BY <1>2, <1>12, FlushFacts, UnsetFacts DEF Flush
<1>13. ASSUME Crash
       PROVE  Left(l)'
  <2>1. ToSet(deltas') = {} /\ jobs' = {} /\ ToSet(throttled') = {}
    BY <1>13, ElementsOfEmpty DEF Crash
  <2> QED
    BY <1>2, <1>13, <2>1, CrashFacts, UnsetFacts DEF Crash
<1>14. ASSUME Restart \/ UNCHANGED vars
       PROVE  Left(l)'
  BY <1>2, <1>14 DEF Restart, vars
<1>15. ASSUME LoseCommand
       PROVE  Left(l)'
  BY <1>2, <1>15, LoseCommandFacts DEF LoseCommand
<1>16. ASSUME Disconnect
       PROVE  Left(l)'
  BY <1>2, <1>16, DisconnectFacts DEF Disconnect
<1> QED
  BY <1>3, <1>4, <1>5, <1>6, <1>7, <1>8, <1>9, <1>10, <1>11, <1>12, <1>13, <1>14,
     <1>15, <1>16
     DEF Next

\* Whatever takes one of the things on their way leaves another: a command
\* that is executed leaves a message, a message the buffer, the buffer a
\* request, a request an agreement or a delta, and a delta a command.
LEMMA FollowedStep ==
    ASSUME TypeOK, DownIsBlank, UnsetIsLeft, LedIsFollowed, [Next]_vars
    PROVE  LedIsFollowed'
<1> USE DEF meshVars, bufferVars, queueVars, stateVars, historyVars
<1> DEFINE Followed(l) == Queried(l) \/ Said(l) \/ Told(l) \/ Switched(l) \/ Agrees(l)
<1> SUFFICES ASSUME NEW l \in Led, up', NodeOf(l) \in asked', l \notin missed'
             PROVE  Followed(l)'
  BY DEF LedIsFollowed
<1>1. missed \subseteq missed'
  <2>1. CASE Receive \/ LoseMessage \/ LoseCommand \/ Disconnect
    BY <2>1, ReceiveFacts, LoseMessageFacts, LoseCommandFacts, DisconnectFacts
  <2>2. CASE ~(Receive \/ LoseMessage \/ LoseCommand \/ Disconnect)
    BY <2>2 DEF Next, vars, SetDesired, ApplyUpdate, OnDelta, NextNode, PublishCommand,
                Execute, SendData, Flush, Crash, Restart
  <2> QED
    BY <2>1, <2>2
<1>2. up /\ NodeOf(l) \in asked => Followed(l)
  BY <1>1 DEF LedIsFollowed
<1>3. led[l] \in Value /\ reported[l] \in State /\ desired[l] \in State
  BY TypeFacts
<1>4. ASSUME SetDesired
      PROVE  Followed(l)'
  <2>1. Followed(l) /\ up
    BY <1>2, <1>4 DEF SetDesired
  <2>2. /\ UNCHANGED <<throttled, sent, uplink, led, buffer, updates, jobs, reported>>
        /\ ToSet(deltas) \subseteq ToSet(deltas')
    BY <1>4, SetDesiredFacts, PublishFacts, TypeFacts DEF SetDesired
  <2>3. CASE Queried(l) \/ Said(l)
    BY <2>2, <2>3 DEF Queried, Said
  <2>4. CASE Told(l)
    BY <2>2, <2>4 DEF Told
  <2>5. CASE Switched(l)
    BY <2>2, <2>5 DEF Switched
  <2>6. CASE Agrees(l)
    <3>1. CASE desired'[l] \in {"unset", led[l]}
      BY <2>2, <2>6, <3>1 DEF Agrees
    <3>2. CASE desired'[l] \notin {"unset", led[l]}
      <4>1. \E doc \in ToSet(deltas') : l \in DOMAIN doc /\ doc[l] = desired'[l]
        <5>1. /\ desired' \in [Led -> State] /\ PublishDelta(desired', reported)
              /\ reported \in [Led -> State] /\ deltas \in Seq(Document)
          BY <1>4, SetDesiredFacts, TypeFacts
        <5>2. up /\ desired'[l] # "unset" /\ desired'[l] # reported[l]
          BY <2>1, <2>6, <3>2 DEF Agrees
        <5> QED
          BY <5>1, <5>2, PublishFacts
      <4> QED
        BY <2>2, <3>2, <4>1 DEF Switched
    <3> QED
      BY <3>1, <3>2
  <2> QED
    BY <2>1, <2>3, <2>4, <2>5, <2>6
<1>5. ASSUME NEW i \in DOMAIN updates, ApplyUpdate(i)
      PROVE  Followed(l)'
  <2> DEFINE u == updates[i]
  <2>1. Followed(l) /\ up
    BY <1>2, <1>5 DEF ApplyUpdate
  <2>2. /\ UNCHANGED <<throttled, sent, uplink, led, buffer, jobs, desired>>
        /\ ToSet(updates) = ToSet(updates') \cup {u} /\ u \in ToSet(updates)
        /\ reported' \in [Led -> State] /\ PublishDelta(desired, reported')
        /\ reported'[l] = IF l \in DOMAIN u THEN u[l] ELSE reported[l]
    BY <1>5, ApplyUpdateFacts DEF ApplyUpdate
  <2> HIDE DEF u
  <2>3. /\ ToSet(deltas) \subseteq ToSet(deltas')
        /\ desired[l] # "unset" /\ desired[l] # reported'[l] =>
              \E doc \in ToSet(deltas') : l \in DOMAIN doc /\ doc[l] = desired[l]
    <3>1. desired \in [Led -> State] /\ deltas \in Seq(Document)
      BY TypeFacts
    <3> QED
      BY <2>1, <2>2, <3>1, PublishFacts
  <2>4. CASE Queried(l) \/ Said(l)
    BY <2>2, <2>4 DEF Queried, Said
  <2>5. CASE Switched(l)
    BY <2>2, <2>3, <2>5 DEF Switched
  \* The request that would tell the shadow does so now.
  <2>6. CASE l \in DOMAIN u /\ u[l] = led[l]
    <3>1. reported'[l] = led[l]
      BY <2>2, <2>6
    <3>2. CASE desired[l] \in {"unset", led[l]}
      BY <2>2, <3>1, <3>2 DEF Agrees
    <3>3. CASE desired[l] \notin {"unset", led[l]}
      BY <2>2, <2>3, <3>1, <3>3 DEF Switched
    <3> QED
      BY <3>2, <3>3
  \* A request that is out of date undoes the agreement, and is undone.
  <2>7. CASE l \in DOMAIN u /\ u[l] # led[l] /\ Agrees(l)
    <3>1. desired[l] = led[l]
      BY <2>2, <2>7 DEF Agrees, UnsetIsLeft
    <3>2. desired[l] # "unset" /\ desired[l] # reported'[l]
      BY <1>3, <2>2, <2>7, <3>1 DEF Value
    <3> QED
      BY <2>2, <2>3, <3>1, <3>2 DEF Told
  <2>8. CASE l \notin DOMAIN u /\ Agrees(l)
    BY <2>2, <2>8 DEF Agrees
  <2>9. CASE Told(l) /\ ~(l \in DOMAIN u /\ u[l] = led[l])
    BY <2>2, <2>3, <2>9 DEF Told
  <2> QED
    BY <2>1, <2>4, <2>5, <2>6, <2>7, <2>8, <2>9
<1>6. ASSUME OnDelta
      PROVE  Followed(l)'
  <2> DEFINE doc == Head(deltas)
  <2>1. Followed(l)
    BY <1>2, <1>6 DEF OnDelta
  <2>2. /\ UNCHANGED <<sent, uplink, led, buffer, desired, reported>>
        /\ ToSet(deltas) = ToSet(deltas') \cup {doc}
        /\ ToSet(updates') = ToSet(updates) \cup {doc}
        /\ doc \in Document
    BY <1>6, OnDeltaFacts DEF OnDelta
  <2>3. PICK n \in NodesOf(doc) : SwitchNode(doc, n, jobs)
    BY <1>6, OnDeltaFacts
  <2> HIDE DEF doc
  <2>4. /\ ToSet(throttled) \subseteq ToSet(throttled') /\ jobs \subseteq jobs'
        /\ l \in DOMAIN doc =>
              \/ \E c \in ToSet(throttled') : c.kind = "set" /\ c.led = l /\ c.v = doc[l]
              \/ \E j \in jobs' : l \in DOMAIN j.rest /\ j.rest[l] = doc[l]
    BY <2>2, <2>3, SwitchNodeFacts, TypeFacts
  <2>5. CASE Queried(l) \/ Said(l) \/ Agrees(l)
    BY <2>2, <2>4, <2>5 DEF Queried, Said, Agrees
  <2>6. CASE Told(l)
    BY <2>2, <2>6 DEF Told
  <2>7. CASE Switched(l)
    BY <2>2, <2>4, <2>7 DEF Switched
  <2> QED
    BY <2>1, <2>5, <2>6, <2>7
<1>7. ASSUME NextNode
      PROVE  Followed(l)'
  <2>1. Followed(l) \/ ~up
    BY <1>2, <1>7 DEF NextNode
  <2>2. UNCHANGED <<up, sent, uplink, led, buffer, updates, deltas, desired, reported>>
    BY <1>7 DEF NextNode
  <2>3. PICK j \in jobs : /\ j.rest \in Document
                          /\ \E n \in NodesOf(j.rest) : SwitchNode(j.rest, n, jobs \ {j})
    BY <1>7, NextNodeFacts
  <2>4. PICK n \in NodesOf(j.rest) : SwitchNode(j.rest, n, jobs \ {j})
    BY <2>3
  <2>5. /\ ToSet(throttled) \subseteq ToSet(throttled') /\ jobs \ {j} \subseteq jobs'
        /\ l \in DOMAIN j.rest =>
              \/ \E c \in ToSet(throttled') : c.kind = "set" /\ c.led = l /\ c.v = j.rest[l]
              \/ \E k \in jobs' : l \in DOMAIN k.rest /\ k.rest[l] = j.rest[l]
    BY <2>3, <2>4, SwitchNodeFacts, TypeFacts
  <2>6. CASE Queried(l) \/ Said(l) \/ Agrees(l) \/ Told(l)
    BY <2>2, <2>5, <2>6 DEF Queried, Said, Agrees, Told
  <2>7. CASE Switched(l)
    BY <2>2, <2>5, <2>7 DEF Switched
  <2> QED
    BY <2>1, <2>2, <2>6, <2>7
<1>8. ASSUME PublishCommand
      PROVE  Followed(l)'
  <2>1. UNCHANGED <<up, asked, uplink, led, buffer, updates, deltas, desired, reported>>
    BY <1>8 DEF PublishCommand
  <2> QED
    BY <1>2, <1>8, <2>1, PublishCommandFacts
       DEF Queried, Said, Told, Switched, Agrees
<1>9. ASSUME Execute
      PROVE  Followed(l)'
  <2> DEFINE c == Head(sent)
  <2>1. /\ UNCHANGED <<up, asked, buffer, throttled, jobs, updates, deltas, desired, reported>>
        /\ ToSet(sent) = ToSet(sent') \cup {c}
        /\ c \in Command
    BY <1>9, CommandArrivesFacts DEF Execute
  <2>2. /\ ToSet(uplink) \subseteq ToSet(uplink')
        /\ l # c.led \/ c.kind = "get" => led'[l] = led[l]
        /\ c.kind = "set" => led'[c.led] = c.v
        /\ (c.kind = "get" \/ led'[c.led] # led[c.led]) =>
              \E m \in ToSet(uplink') : LedOf(m) = c.led /\ m.v = led'[c.led]
    BY <1>9, ExecuteFacts
  <2> HIDE DEF c
  <2>3. c.kind \in {"set", "get"}
    BY <2>1 DEF Command
  <2>4. CASE c.led = l /\ (c.kind = "get" \/ led'[l] # led[l])
    BY <2>2, <2>4 DEF Said
  <2>5. CASE c.led = l /\ c.kind = "set" /\ led'[l] = led[l]
    <3>1. c.v = led[l]
      BY <2>2, <2>5
    <3> QED
      BY <1>2, <2>1, <2>2, <2>5, <3>1 DEF Queried, Said, Told, Switched, Agrees
  <2>6. CASE c.led # l
    <3>1. led'[l] = led[l]
      BY <2>2, <2>6
    <3> QED
      BY <1>2, <2>1, <2>2, <2>6, <3>1 DEF Queried, Said, Told, Switched, Agrees
  <2> QED
    BY <2>3, <2>4, <2>5, <2>6
<1>10. ASSUME NEW n \in Node, SendData(n)
       PROVE  Followed(l)'
  <2>1. UNCHANGED <<led, sent, up, asked, buffer, throttled, jobs, updates, deltas,
                    desired, reported>>
    BY <1>10 DEF SendData
  <2>2. ToSet(uplink) \subseteq ToSet(uplink')
    BY <1>10, SayFacts, TypeFacts DEF SendData, Value
  <2> QED
    BY <1>2, <2>1, <2>2 DEF Queried, Said, Told, Switched, Agrees
<1>11. ASSUME LoseMessage
       PROVE  Followed(l)'
  <2> DEFINE m == Head(uplink)
  <2>1. UNCHANGED <<led, sent, up, asked, buffer, throttled, jobs, updates, deltas,
                    desired, reported>>
    BY <1>11 DEF LoseMessage
  <2>2. ToSet(uplink) = ToSet(uplink') \cup {m} /\ LedOf(m) # l
    BY <1>11, <2>1, LoseMessageFacts
  <2> HIDE DEF m
  <2> QED
    BY <1>2, <2>1, <2>2 DEF Queried, Said, Told, Switched, Agrees
<1>12. ASSUME Receive
       PROVE  Followed(l)'
  <2> DEFINE m == Head(uplink)
  <2>1. /\ UNCHANGED <<led, sent, up, jobs, updates, deltas, desired, reported>>
        /\ Ask(m.node) /\ up
    BY <1>12 DEF Receive
  <2>2. /\ m \in Message /\ m.node \in Node
        /\ ToSet(uplink) = ToSet(uplink') \cup {m}
        /\ buffer'[l] = IF LedOf(m) = l /\ buffer[l] = "unset" THEN m.v ELSE buffer[l]
        /\ LedOf(m) = l /\ m.node \in asked => buffer[l] \in {"unset", m.v}
    BY <1>12, ReceiveFacts DEF Message
  <2>3. /\ ToSet(throttled) \subseteq ToSet(throttled')
        /\ m.node \notin asked => \A k \in Color :
              \E c \in ToSet(throttled') : c.kind = "get" /\ c.led = <<m.node, k>>
        /\ asked' = asked \cup {m.node}
    BY <2>1, <2>2, AskFacts
  <2> HIDE DEF m
  <2>4. CASE NodeOf(l) \notin asked
    <3>1. NodeOf(l) = m.node /\ l = <<m.node, l[2]>> /\ l[2] \in Color
      BY <2>3, <2>4, LedFacts
    <3> QED
      BY <2>3, <2>4, <3>1 DEF Queried
  <2>5. CASE NodeOf(l) \in asked
    <3>1. Followed(l)
      BY <1>2, <2>1, <2>5
    <3>2. CASE Queried(l) \/ Switched(l) \/ Agrees(l)
      BY <2>1, <2>3, <3>2 DEF Queried, Switched, Agrees
    <3>3. CASE Told(l)
      <4>1. buffer[l] = led[l] => buffer'[l] = led[l]
        BY <1>3, <2>2 DEF Value
      <4> QED
        BY <2>1, <3>3, <4>1 DEF Told
    <3>4. CASE Said(l)
      <4>1. LedOf(m) = l /\ m.v = led[l] => buffer'[l] = led[l]
        BY <2>2, <2>5, MessageFacts
      <4> QED
        BY <2>1, <2>2, <3>4, <4>1 DEF Said, Told
    <3> QED
      BY <3>1, <3>2, <3>3, <3>4
  <2> QED
    BY <2>4, <2>5
<1>13. ASSUME Flush
       PROVE  Followed(l)'
  <2>1. UNCHANGED <<led, sent, up, asked, uplink, throttled, jobs, deltas, desired, reported>>
    BY <1>13 DEF Flush
  <2>2. PICK doc : /\ ToSet(updates') = ToSet(updates) \cup {doc}
                   /\ DOMAIN doc = {k \in Led : buffer[k] # "unset"}
                   /\ \A k \in DOMAIN doc : doc[k] = buffer[k]
    BY <1>13, FlushFacts
  <2>3. buffer[l] = led[l] => l \in DOMAIN doc /\ doc[l] = led[l]
    BY <1>3, <2>2 DEF Value
  <2> QED
    BY <1>2, <1>13, <2>1, <2>2, <2>3 DEF Queried, Said, Told, Switched, Agrees, Flush
<1>14. ASSUME Crash \/ Restart
       PROVE  FALSE
  BY <1>14 DEF Crash, Restart, DownIsBlank
<1>15. ASSUME UNCHANGED vars
       PROVE  Followed(l)'
  BY <1>2, <1>15 DEF vars, Queried, Said, Told, Switched, Agrees
\* What is lost was about another LED.
<1>16. ASSUME LoseCommand
       PROVE  Followed(l)'
  <2>1. UNCHANGED <<led, uplink, up, asked, buffer, throttled, jobs, updates, deltas,
                    desired, reported>>
    BY <1>16 DEF LoseCommand
  <2>2. PICK c \in Command : ToSet(sent) = ToSet(sent') \cup {c} /\ c.led # l
    BY <1>16, <2>1, LoseCommandFacts
  <2> QED
    BY <1>2, <2>1, <2>2 DEF Queried, Said, Told, Switched, Agrees
<1>17. ASSUME Disconnect
       PROVE  Followed(l)'
  <2>1. UNCHANGED <<led, uplink, sent, up, asked, buffer, throttled, jobs, updates,
                    desired, reported>>
    BY <1>17 DEF Disconnect
  <2>2. \A doc \in ToSet(deltas) : l \notin DOMAIN doc
    BY <1>17, <2>1, DisconnectFacts
  <2> QED
    BY <1>2, <2>1, <2>2 DEF Queried, Said, Told, Switched, Agrees
<1> QED
  BY <1>4, <1>5, <1>6, <1>7, <1>8, <1>9, <1>10, <1>11, <1>12, <1>13, <1>14, <1>15,
     <1>16, <1>17
     DEF Next

-----------------------------------------------------------------------------
(* Theorems.                                                               *)

LEMMA InitialState ==
    ASSUME Init
    PROVE  Inv
<1>1. TypeOK
  <2>1. reported \in [Led -> State] /\ asked \subseteq Node
    BY UnsetFacts DEF Init, State
  <2>2. budget \in [{"crash", "lost", "twice"} -> Nat]
    BY BoundsAssumption DEF Init
  <2>3. changes \in 0..MaxChanges
    BY BoundsAssumption DEF Init
  <2>4. /\ uplink \in Seq(Message) /\ sent \in Seq(Command) /\ throttled \in Seq(Command)
        /\ updates \in Seq(Document) /\ deltas \in Seq(Document)
    BY EmptySeq DEF Init
  <2> QED
    BY <2>1, <2>2, <2>3, <2>4, UnsetFacts DEF Init, TypeOK, State
<1>2. DownIsBlank
  BY DEF Init, DownIsBlank
<1>3. /\ ToSet(uplink) = {} /\ ToSet(sent) = {} /\ ToSet(throttled) = {}
      /\ ToSet(updates) = {} /\ ToSet(deltas) = {} /\ jobs = {}
      /\ \A l \in Led : buffer[l] = "unset" /\ desired[l] = "unset"
  BY ElementsOfEmpty, UnsetFacts DEF Init
<1>4. UnsetIsLeft
  BY <1>3 DEF UnsetIsLeft
<1>5. LedIsFollowed
  BY <1>3 DEF Init, LedIsFollowed, Agrees
<1>6. DeltaIsPending
  BY <1>3 DEF DeltaIsPending
<1>7. BufferIsFlushed
  BY <1>3 DEF BufferIsFlushed
<1> QED
  BY <1>1, <1>2, <1>4, <1>5, <1>6, <1>7 DEF Inv

\* The inductive invariant.
THEOREM Invariance == Spec => []Inv
<1>1. Init => Inv
  BY InitialState
<1>2. Inv /\ [Next]_vars => Inv'
  BY TypeStep, DownStep, BufferStep, UnsetStep, FollowedStep, PendingStep DEF Inv
<1> QED
  BY <1>1, <1>2, PTL DEF Spec

\* Every variable keeps its type: no step of the mesh, the process or the
\* shadow makes a message, a command or a document of anything else.
THEOREM GatewayTypes == Spec => []TypeOK
<1>1. Inv => TypeOK
  BY DEF Inv
<1> QED
  BY <1>1, Invariance, PTL

\* When nothing is on its way, the LED, what is reported of it and what is
\* desired agree.
LEMMA QuietAgrees ==
    ASSUME Inv, Quiet, NEW l \in Led, l \notin missed
    PROVE  Agrees(l)
<1>1. /\ ToSet(uplink) = {} /\ ToSet(sent) = {} /\ ToSet(throttled) = {}
      /\ ToSet(updates) = {} /\ ToSet(deltas) = {} /\ jobs = {}
  BY ElementsOfEmpty DEF Quiet
<1>2. up /\ NodeOf(l) \in asked
  BY LedFacts DEF Quiet
<1>3. buffer[l] # led[l]
  <2>1. buffer[l] = "unset"
    BY DEF Quiet, Inv, BufferIsFlushed
  <2> QED
    BY <2>1, TypeFacts DEF Inv, Value
<1> QED
  BY <1>1, <1>2, <1>3 DEF Inv, LedIsFollowed, Queried, Said, Told, Switched

\* At rest an LED shows what is desired, whatever crashed, came twice or came
\* in another order, unless a delta, a command or a report of it was lost, or a
\* report dropped, since the running process asked its node.
THEOREM RestsAsDesired == Spec => []RestIsDesired
<1>1. Inv => RestIsDesired
  BY QuietAgrees DEF RestIsDesired, Agrees
<1> QED
  BY <1>1, Invariance, PTL

\* At rest the shadow reports what the LED shows, with the same exception: a
\* lost command leaves an acknowledged delta behind, until the next start.
THEOREM RestsAsReported == Spec => []RestIsReported
<1>1. Inv => RestIsReported
  BY QuietAgrees DEF RestIsReported, Agrees
<1> QED
  BY <1>1, Invariance, PTL

\* At rest the shadow has no delta left, whatever messages and commands were
\* lost, unless a disconnect took the last delta it has published.
THEOREM RestsSettled == Spec => []RestIsSettled
<1>1. Inv => RestIsSettled
  BY LedFacts DEF Inv, DeltaIsPending, RestIsSettled, Quiet
<1> QED
  BY <1>1, Invariance, PTL

=============================================================================
