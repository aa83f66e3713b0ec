--------------------------- MODULE WirepasGateway ---------------------------
(***************************************************************************)
(* The process that bridges a Wirepas 5G mesh gateway and its IoT shadow:  *)
(* it buffers what the nodes send and flushes it to the shadow's reported  *)
(* state, and turns a delta of the shadow into commands that switch the    *)
(* LEDs of the nodes, acknowledging the delta at once.  None of the        *)
(* requests it sends is awaited, and a rejected one ends the process.      *)
(*                                                                         *)
(* The mesh, its nodes, the shadow service and the broker are outside the  *)
(* repository.  An LED is a pair of a node and a colour.  Of a node's      *)
(* payload only the LED states matter to the shadow's delta; temperature   *)
(* and button messages are messages without one.                           *)
(***************************************************************************)
EXTENDS Naturals, FiniteSets, SequencesExt

CONSTANTS
    Node, Color,
    NoColor,        \* of a message that carries no LED state
    Chatty,         \* bound: nodes also send data to a process that has asked
    Warm,           \* start with all nodes asked and their LEDs reported
    MaxChanges,     \* bound: changes of the desired state
    MaxQueue,       \* bound: messages waiting in one queue
    MaxCrashes,     \* bound: ends of the process
    MaxLost,        \* bound: messages or commands lost, and disconnects
    MaxTwice        \* bound: deltas and commands delivered a second time

ASSUME FiniteAssumption == IsFiniteSet(Color)

ASSUME BoundsAssumption ==
    /\ {MaxChanges, MaxCrashes, MaxLost, MaxTwice} \subseteq Nat
    /\ MaxQueue \in Nat \ {0, 1}
    /\ {Chatty, Warm} \subseteq BOOLEAN

Led == Node \X Color
NodeOf(l) == l[1]
Value == {"on", "off"}

ASSUME NoColorAssumption == NoColor \notin Color

\* Part of a shadow document: the states of some LEDs.
Document == UNION {[S -> Value] : S \in SUBSET Led}

VARIABLES
    led,        \* the LEDs of the nodes
    uplink,     \* messages of the nodes on their way to the process, in order
    sent,       \* commands published to the gateway, in order
    up,         \* the process is running
    asked,      \* ledState: nodes whose LED states have been queried
    buffered,   \* nodes: there is something to flush
    buffer,     \* nodes: the LED states in it
    throttled,  \* commands and queries the throttle holds back, in order
    jobs,       \* calls of onDesired that wait before their next node
    updates,    \* UpdateThingShadow requests on their way
    deltas,     \* delta events on their way
    reported,   \* the shadow's reported state
    desired,    \* the shadow's desired state
    changes,    \* changes of the desired state so far
    budget,     \* crashes, losses and second deliveries left
    missed,     \* history: LEDs of which this process has missed something
    unheard     \* history: deltas were lost since the last was published

meshVars   == <<led, uplink, sent>>
bufferVars == <<asked, buffered, buffer>>
queueVars  == <<throttled, jobs>>
stateVars  == <<reported, desired, changes>>
historyVars == <<missed, unheard>>
vars == <<meshVars, up, bufferVars, queueVars, updates, deltas, stateVars, budget,
          historyVars>>

\* From a node: the LED <<node, color>> was found to be, or has become, v.
Message == [node : Node, color : Color \cup {NoColor}, v : Value]
LedOf(m) == <<m.node, m.color>>
Command == [kind : {"set", "get"}, led : Led, v : Value]

TypeOK ==
    /\ led \in [Led -> Value]
    /\ uplink \in Seq(Message)
    /\ sent \in Seq(Command)
    /\ up \in BOOLEAN
    /\ asked \subseteq Node
    /\ buffered \in BOOLEAN
    /\ buffer \in [Led -> Value \cup {"unset"}]
    /\ throttled \in Seq(Command)
    /\ jobs \subseteq [rest : Document, wait : Nat]
    /\ updates \in Seq(Document)
    /\ deltas \in Seq(Document)
    /\ reported \in [Led -> Value \cup {"unset"}]
    /\ desired \in [Led -> Value \cup {"unset"}]
    /\ changes \in 0..MaxChanges
    /\ budget \in [{"crash", "lost", "twice"} -> Nat]
    /\ missed \subseteq Led
    /\ unheard \in BOOLEAN

Unset == [l \in Led |-> "unset"]

Init ==
    /\ led \in [Led -> Value]
    /\ uplink = <<>>
    /\ sent = <<>>
    /\ up = TRUE
    /\ asked = (IF Warm THEN Node ELSE {})
    /\ buffered = FALSE /\ buffer = Unset
    /\ throttled = <<>> /\ jobs = {}
    /\ updates = <<>> /\ deltas = <<>>
    /\ reported = (IF Warm THEN led ELSE Unset)
    /\ desired = Unset /\ changes = 0
    /\ budget = [crash |-> MaxCrashes, lost |-> MaxLost, twice |-> MaxTwice]
    /\ missed = {} /\ unheard = FALSE

Spend(fault) ==
    /\ budget[fault] > 0
    /\ budget' = [budget EXCEPT ![fault] = @ - 1]

\* Something about these LEDs is lost.  It matters to a process that has asked
\* their nodes already and will not ask again.
Miss(leds) == missed' = missed \cup {l \in leds \cap Led : NodeOf(l) \in asked}

ThrottleRoom == Len(throttled) < MaxQueue

\* Requests and events between the process and the shadow share one bound,
\* as do commands and messages between the process and the nodes: each of
\* them makes at most one of the other.
ShadowRoom == Len(updates) + Len(deltas) < MaxQueue
NodeRoom == Len(sent) + Len(uplink) < MaxQueue

-----------------------------------------------------------------------------
(* The shadow.                                                             *)

NodesOf(doc) == {NodeOf(l) : l \in DOMAIN doc}

Without(doc, n) == [l \in {l \in DOMAIN doc : NodeOf(l) # n} |-> doc[l]]

\* The part of the desired state that is not reported.
Difference(d, r) ==
    [l \in {l \in Led : d[l] # "unset" /\ d[l] # r[l]} |-> d[l]]

\* Each accepted update publishes the difference, if there is one; nobody
\* keeps it for a process that is not there (clean_session).
PublishDelta(d, r) ==
    deltas' = IF up /\ DOMAIN Difference(d, r) # {}
              THEN Append(deltas, Difference(d, r)) ELSE deltas

\* The service merges a document into a state.
Updated(state, doc) == [l \in Led |-> IF l \in DOMAIN doc THEN doc[l] ELSE state[l]]

\* onMessage, wirepasCtrl: desired states for all LEDs of some nodes.
SetDesired ==
    /\ changes < MaxChanges
    /\ ShadowRoom
    /\ changes' = changes + 1
    /\ \E S \in SUBSET Node \ {{}} : \E f \in [S \X Color -> Value] :
         desired' = Updated(desired, f)
    /\ PublishDelta(desired', reported)
    /\ unheard' = FALSE
    /\ UNCHANGED <<meshVars, up, bufferVars, queueVars, updates, reported, budget, missed>>

\* The requests were sent without waiting for each other: in any order.
ApplyUpdate(i) ==
    /\ i \in DOMAIN updates
    /\ reported' = Updated(reported, updates[i])
    /\ updates' = RemoveAt(updates, i)
    /\ PublishDelta(desired, reported')
    /\ unheard' = FALSE
    /\ UNCHANGED <<meshVars, up, bufferVars, queueVars, desired, changes, budget, missed>>

\* The connection is lost and made again (the event is only logged): deltas
\* that were on their way or are published meanwhile are lost with the clean
\* session, and nobody asks the shadow for its state.
Disconnect ==
    /\ up
    /\ deltas # <<>>
    /\ Spend("lost")
    /\ Miss(UNION {DOMAIN doc : doc \in ToSet(deltas)})
    /\ deltas' = <<>> /\ unheard' = TRUE
    /\ UNCHANGED <<meshVars, up, bufferVars, queueVars, updates, stateVars>>

-----------------------------------------------------------------------------
(* From the shadow to the nodes.                                           *)

\* updateColor for each colour of node n in the document.
Switches(doc, n) ==
    SetToSeq({[kind |-> "set", led |-> l, v |-> doc[l]] :
                l \in {l \in DOMAIN doc : NodeOf(l) = n}})

\* getColor for each colour.
Queries(n) ==
    SetToSeq({[kind |-> "get", led |-> <<n, c>>, v |-> "off"] : c \in Color})

\* Mutant: return in place of the next turn.
SwitchNode_First(doc, n, others) ==
    /\ throttled' = throttled \o Switches(doc, n)
    /\ jobs' = others

\* One turn of onDesired's loop over the nodes: the commands of node n are
\* handed to the throttle; the next node waits until they are published.
SwitchNode(doc, n, others) ==
    /\ throttled' = throttled \o Switches(doc, n)
    /\ LET rest == Without(doc, n) IN
         jobs' = others \cup
           (IF DOMAIN rest = {} THEN {} ELSE {[rest |-> rest, wait |-> Len(throttled')]})

\* subscribeToShadowDeltaUpdatedEvents with QoS.AtLeastOnce: the next delta,
\* which may come a second time.
DeltaArrives ==
    /\ deltas # <<>>
    /\ \/ deltas' = Tail(deltas) /\ UNCHANGED budget
       \/ /\ Spend("twice") /\ ShadowRoom
          /\ deltas' = Append(Tail(deltas), Head(deltas))

\* Mutant: the delta is not acknowledged.
OnDelta_Unacknowledged ==
    /\ up
    /\ ThrottleRoom
    /\ DeltaArrives
    /\ \E n \in NodesOf(Head(deltas)) : SwitchNode(Head(deltas), n, jobs)
    /\ UNCHANGED <<meshVars, up, bufferVars, updates, stateVars, historyVars>>

\* Its callback: onDesired runs up to its first await, then the delta is
\* acknowledged as it is.
OnDelta ==
    /\ up
    /\ ThrottleRoom
    /\ DeltaArrives
    /\ \E n \in NodesOf(Head(deltas)) : SwitchNode(Head(deltas), n, jobs)
    /\ updates' = Append(updates, Head(deltas))
    /\ UNCHANGED <<meshVars, up, bufferVars, stateVars, historyVars>>

\* The commands of a node are all published: the loop goes on.
NextNode ==
    /\ ThrottleRoom
    /\ \E j \in jobs :
         /\ j.wait = 0
         /\ \E n \in NodesOf(j.rest) : SwitchNode(j.rest, n, jobs \ {j})
    /\ UNCHANGED <<meshVars, up, bufferVars, updates, deltas, stateVars, budget, historyVars>>

\* The throttle releases its next command, and wirepasPublish sends it.
PublishCommand ==
    /\ throttled # <<>>
    /\ NodeRoom
    /\ sent' = Append(sent, Head(throttled))
    /\ throttled' = Tail(throttled)
    /\ jobs' = {[j EXCEPT !.wait = IF @ > 0 THEN @ - 1 ELSE 0] : j \in jobs}
    /\ UNCHANGED <<led, uplink, up, bufferVars, updates, deltas, stateVars, budget, historyVars>>

-----------------------------------------------------------------------------
(* The nodes.                                                              *)

Say(n, c, x) ==
    uplink' = Append(uplink, [node |-> n, color |-> c, v |-> x])

\* The QoS commands are published with: below 2 the broker may deliver
\* one again (the comment at publish.ts:27 has it as 2).
Qos == 1

CommandArrives ==
    /\ sent # <<>>
    /\ \/ sent' = Tail(sent) /\ UNCHANGED budget
       \/ Qos < 2 /\ Spend("twice") /\ sent' = Append(Tail(sent), Head(sent))

\* The gateway refuses a command, or the mesh loses it.  The process listens
\* for what nodes send (gw-event/#), not for the gateway's answers: it does
\* not know, and never sends a command again.
LoseCommand ==
    /\ sent # <<>>
    /\ Spend("lost")
    /\ Miss({Head(sent).led})
    /\ sent' = Tail(sent)
    /\ UNCHANGED <<led, uplink, up, bufferVars, queueVars, updates, deltas, stateVars, unheard>>

\* A node answers a query, and reports an LED that has changed.
Execute ==
    /\ CommandArrives
    /\ LET c == Head(sent) IN
         /\ led' = IF c.kind = "set" THEN [led EXCEPT ![c.led] = c.v] ELSE led
         /\ IF c.kind = "get" \/ led' # led
            THEN Say(NodeOf(c.led), c.led[2], led'[c.led])
            ELSE UNCHANGED uplink
    /\ UNCHANGED <<up, bufferVars, queueVars, updates, deltas, stateVars, historyVars>>

\* Temperature, buttons, diagnostics; only while it makes a difference: with
\* nothing else on its way, to a process that has not asked or has nothing
\* to flush.
SendData(n) ==
    /\ uplink = <<>> /\ NodeRoom
    /\ n \notin asked \/ (Chatty /\ ~buffered)
    /\ Say(n, NoColor, "off")
    /\ UNCHANGED <<led, sent, up, bufferVars, queueVars, updates, deltas, stateVars,
                   budget, historyVars>>

\* Lost in the mesh, or because the process is not there to receive it.
LoseMessage ==
    /\ uplink # <<>>
    /\ uplink' = Tail(uplink)
    /\ IF up
       THEN Spend("lost") /\ Miss({LedOf(Head(uplink))})
       ELSE UNCHANGED <<budget, missed>>
    /\ UNCHANGED <<led, sent, up, bufferVars, queueVars, updates, deltas, stateVars, unheard>>

-----------------------------------------------------------------------------
(* From the nodes to the shadow.                                           *)

\* merge({ new }, nodes[gwId]): what the buffer holds already is kept.
Merge(m) ==
    IF m.color # NoColor /\ buffer[LedOf(m)] = "unset"
    THEN [buffer EXCEPT ![LedOf(m)] = m.v] ELSE buffer

Drops(m) == m.color # NoColor /\ buffer[LedOf(m)] \notin {"unset", m.v}

\* Mutant: nodes are not queried.
Ask_Never(n) ==
    /\ asked' = asked \cup {n}
    /\ UNCHANGED throttled

\* Query the LED state of a node that has not been queried yet.
Ask(n) ==
    /\ throttled' = IF n \in asked THEN throttled ELSE throttled \o Queries(n)
    /\ asked' = asked \cup {n}

\* client.on('message').
Receive ==
    /\ up
    /\ uplink # <<>>
    /\ uplink' = Tail(uplink)
    /\ LET m == Head(uplink) IN
         /\ Ask(m.node)
         /\ buffered' = TRUE
         /\ buffer' = Merge(m)
         /\ Miss(IF Drops(m) THEN {LedOf(m)} ELSE {})
    /\ UNCHANGED <<led, sent, up, jobs, updates, deltas, stateVars, budget, unheard>>

\* Mutant: the buffer is emptied before it is sent.
Flush_Emptied ==
    /\ up
    /\ buffered
    /\ ShadowRoom
    /\ updates' = Append(updates, << >>)
    /\ buffered' = FALSE
    /\ buffer' = Unset
    /\ UNCHANGED <<meshVars, up, asked, queueVars, deltas, stateVars, budget, historyVars>>

\* Mutant: LEDs without a message are sent as well.
Flush_Whole ==
    /\ up
    /\ buffered
    /\ ShadowRoom
    /\ updates' = Append(updates, buffer)
    /\ buffered' = FALSE
    /\ buffer' = Unset
    /\ UNCHANGED <<meshVars, up, asked, queueVars, deltas, stateVars, budget, historyVars>>

\* setInterval: the buffer is sent, and emptied at once.
Flush ==
    /\ up
    /\ buffered
    /\ ShadowRoom
    /\ updates' = Append(updates,
                         [l \in {l \in Led : buffer[l] # "unset"} |-> buffer[l]])
    /\ buffered' = FALSE
    /\ buffer' = Unset
    /\ UNCHANGED <<meshVars, up, asked, queueVars, deltas, stateVars, budget, historyVars>>

-----------------------------------------------------------------------------
\* A request or a publication is rejected, or the process is killed.  Of
\* the requests on their way some may still arrive.  The next process asks
\* every node anew: nothing it has missed yet.
Crash ==
    /\ up
    /\ Spend("crash")
    /\ up' = FALSE
    /\ asked' = {} /\ buffered' = FALSE /\ buffer' = Unset
    /\ throttled' = <<>> /\ jobs' = {}
    /\ deltas' = <<>>
    /\ \E i \in 0..Len(updates) : updates' = SubSeq(updates, 1, i)
    /\ missed' = {} /\ unheard' = FALSE
    /\ UNCHANGED <<meshVars, stateVars>>

Restart ==
    /\ ~up
    /\ up' = TRUE
    /\ UNCHANGED <<meshVars, bufferVars, queueVars, updates, deltas, stateVars, budget, historyVars>>

Next ==
    \/ SetDesired
    \/ \E i \in DOMAIN updates : ApplyUpdate(i)
    \/ Disconnect
    \/ OnDelta \/ NextNode \/ PublishCommand
    \/ Execute \/ LoseCommand
    \/ \E n \in Node : SendData(n)
    \/ LoseMessage \/ Receive
    \/ Flush \/ Crash \/ Restart

Spec == Init /\ [][Next]_vars

\* Requests, the throttle and the broker make progress, a command that is not
\* lost is executed, nodes go on sending data, and somebody restarts the
\* process.
Fairness ==
    /\ WF_vars(ApplyUpdate(1))
    /\ WF_vars(OnDelta) /\ WF_vars(NextNode) /\ WF_vars(PublishCommand)
    /\ WF_vars(Execute)
    /\ \A n \in Node : SF_vars(SendData(n))
    /\ WF_vars(Receive) /\ WF_vars(Flush) /\ WF_vars(Restart)

FairSpec == Spec /\ Fairness

-----------------------------------------------------------------------------
\* Nothing is on its way or held back, and the process has asked every node.
Quiet ==
    /\ up /\ asked = Node /\ ~buffered
    /\ uplink = <<>> /\ sent = <<>> /\ throttled = <<>> /\ jobs = {}
    /\ updates = <<>> /\ deltas = <<>>

\* When everything has come to rest an LED shows what is desired, after
\* crashes and second deliveries too, unless the process running now, having
\* asked its node, has missed something: a delta, command or report of that
\* LED was lost, or merge dropped the report.  A restart heals it.
RestIsDesired ==
    Quiet => \A l \in Led :
        l \in missed \/ desired[l] = "unset" \/ led[l] = desired[l]

\* Then the shadow reports what the LED shows, with the same exception: a
\* delta is acknowledged before its commands are executed, or lost.
RestIsReported ==
    Quiet => \A l \in Led : l \in missed \/ reported[l] = led[l]

\* Whatever messages and commands were lost, and whatever a disconnect took,
\* the shadow at rest has no delta left once an update has been accepted since.
RestIsSettled ==
    Quiet => unheard \/ \A l \in Led : desired[l] = "unset" \/ reported[l] = desired[l]

\* Once the user stops changing the desired state, an LED comes to show it
\* unless the process that is running in the end has missed a delta, a command
\* or a report of that LED.
LedsFollowDesired ==
    \A l \in Led :
        <>[](l \in missed \/ desired[l] = "unset" \/ led[l] = desired[l])
=============================================================================
