----------------------------- MODULE NRPlusSink -----------------------------
(***************************************************************************)
(* The NR+ sink: the console lines of NR+ gateways travel one MQTT message *)
(* each through an IoT rule into a Kinesis stream of one shard; a lambda   *)
(* takes them from there in batches, sorts the lines of each gateway by    *)
(* their counter, puts messages of several lines together, and updates the *)
(* gateway's shadow.                                                       *)
(*                                                                         *)
(* The gateways, the rule, the stream and the shadow are outside the       *)
(* repository.  Of a line only this is kept: which line of which message   *)
(* it is; which lines carry the node and the value that are reported; and  *)
(* its counter, as far as the order of the text matters.                   *)
(***************************************************************************)
EXTENDS Integers, FiniteSets, SequencesExt

CONSTANTS
    Gateway, Node,
    Script,         \* per gateway, the messages it receives, in order
    Layout,         \* per kind of message: length, node, value (line numbers)
    Definitions,    \* the kinds the parser knows, in the order it tries them
    FirstCounter,   \* the counter before that of a gateway's first line
    BatchSize,      \* bound: records in a batch
    MaxOnWire,      \* bound: how far a line may overtake others to the stream
    MaxFaults       \* bound: lines lost or overtaken on the way to the stream,
                    \*   updates that fail, containers that are replaced

Kind == DOMAIN Layout
Section == {"pccStatus", "btn", "env"}

ASSUME ScriptAssumption ==
    \A g \in Gateway :
        Script[g] \in Seq([kind : Kind, node : Node, section : Section \cup {"none"}])

\* What a message shows is a matter of its kind.
ASSUME SectionAssumption ==
    \A g \in Gateway : \A m, k \in 1..Len(Script[g]) :
        Script[g][m].section = Script[g][k].section /\ Script[g][m].section # "none" =>
            Script[g][m].kind = Script[g][k].kind

ASSUME LayoutAssumption ==
    /\ Definitions \in Seq(Kind)
    /\ \A k \in Kind : /\ Layout[k].length \in Nat \ {0}
                       /\ {Layout[k].node, Layout[k].value} \subseteq 1..Layout[k].length

ASSUME BoundsAssumption ==
    /\ {BatchSize, MaxOnWire} \subseteq Nat \ {0}
    /\ {MaxFaults, FirstCounter} \subseteq Nat

LengthOf(g, m) == Layout[Script[g][m].kind].length

\* The lines of a gateway's console: line i is part `part` of message `of`.
Console == [g \in Gateway |->
    LET lines[m \in 0..Len(Script[g])] ==
            IF m = 0 THEN <<>>
            ELSE lines[m - 1] \o [p \in 1..LengthOf(g, m) |-> [of |-> m, part |-> p]]
    IN  lines[Len(Script[g])]]

\* Their counters are compared as text, which TextOrder does for four digits.
ASSUME CounterAssumption == \A g \in Gateway : FirstCounter + Len(Console[g]) < 10000

VARIABLES
    passed,     \* the lines that went to the stream, or were lost before it
    stream,     \* the records of the shard that were not yet handled
    batch,      \* the records of the current invocation
    phase,      \* of the invocation: idle, running, or failed (to be retried)
    buffer,     \* lines: what the container's parsers hold back
    updates,    \* UpdateThingShadow requests on their way
    shown,      \* the shadows: the message last shown for a node's section
    fed,        \* history: the lines given to parsers, in order
    since,      \* history: how many of them earlier containers were given
    parsed,     \* history: the messages that were found
    disturbed,  \* history: lines missing, late, or lost with their parser
    faults      \* the number of faults so far

parserVars == <<buffer, fed, since, parsed>>
vars == <<passed, stream, batch, phase, parserVars, updates, shown, disturbed,
          faults>>

\* Line i of gateway g, and a request that shows message `of` for a node.
Line == UNION {{g} \X (1..Len(Console[g])) : g \in Gateway}
Key == Gateway \X Node \X Section
Update == [gateway : Gateway, node : Node, of : Nat]
SectionOf(u) == Script[u.gateway][u.of].section

TypeOK ==
    /\ passed \subseteq Line
    /\ stream \in Seq(Line)
    /\ batch \in Seq(Line)
    /\ phase \in {"idle", "running", "failed"}
    /\ buffer \in [Gateway -> Seq(Nat)]
    /\ \A u \in updates : /\ u \in Update /\ u.of \in 1..Len(Script[u.gateway])
                          /\ SectionOf(u) \in Section
    /\ shown \in [Key -> Nat]
    /\ fed \in [Gateway -> Seq(Nat)]
    /\ \A g \in Gateway : since[g] \in 0..Len(fed[g])
    /\ parsed \in [Gateway -> SUBSET Nat]
    /\ disturbed \subseteq Gateway \X (Nat \X {"missing", "late"})
    /\ faults \in 0..MaxFaults

-----------------------------------------------------------------------------
(* The lines of a batch.                                                   *)

\* The order of counters as text: 1, 10, 100, 1000, 1001, ..., 101, ..., 11, ...
\* They are filled up to four digits; of those that are then equal the shorter
\* text comes first.
TextOrder(n) ==
    CASE n < 10               -> 5000 * n + 1
      [] n \in 10..99         -> 500 * n + 2
      [] n \in 100..999       -> 50 * n + 3
      [] OTHER                -> 5 * n + 4

ascending(i, j) == TextOrder(FirstCounter + i) < TextOrder(FirstCounter + j)

\* The lines of one gateway in a batch of records, as they are parsed.
LinesOf(records, g) ==
    LET mine == {l[2] : l \in {l \in ToSet(records) : l[1] = g}}
    IN  CHOOSE s \in [1..Cardinality(mine) -> mine] :
            \A i, j \in DOMAIN s : i < j => ascending(s[i], s[j])

-----------------------------------------------------------------------------
Known(g, m) == Contains(Definitions, Script[g][m].kind)

\* Messages with a line in the current batch.
InBatch(g, m) == \E l \in ToSet(batch) : l[1] = g /\ Console[g][l[2]].of = m

\* Bug: the parsers outlive the failed invocation.
NewParsersKeep ==
    /\ fed' = [g \in Gateway |-> SubSeq(fed[g], 1, Len(fed[g]) - Len(LinesOf(batch, g)))]
    /\ since' = [g \in Gateway |-> Len(fed'[g])]
    /\ parsed' = [g \in Gateway |-> {m \in parsed[g] : ~InBatch(g, m)}]
    /\ UNCHANGED <<buffer, disturbed>>

\* The parsers are replaced, and what they found in an unfinished batch is
\* gone with them, as are the lines of messages that were not complete.
NewParsers ==
    /\ buffer' = [g \in Gateway |-> <<>>]
    /\ fed' = [g \in Gateway |-> SubSeq(fed[g], 1, Len(fed[g]) - Len(LinesOf(batch, g)))]
    /\ since' = [g \in Gateway |-> Len(fed'[g])]
    /\ parsed' = [g \in Gateway |-> {m \in parsed[g] : ~InBatch(g, m)}]
    /\ disturbed' = disturbed \cup UNION {
          {<<g, <<i, "missing">>>> : i \in
              {i \in ToSet(fed'[g]) : LET m == Console[g][i].of
                                      IN  Known(g, m) /\ m \notin parsed'[g]}} : g \in Gateway}

Init ==
    /\ passed = {} /\ stream = <<>> /\ batch = <<>> /\ phase = "idle"
    /\ buffer = [g \in Gateway |-> <<>>]
    /\ fed = [g \in Gateway |-> <<>>]
    /\ since = [g \in Gateway |-> 0]
    /\ parsed = [g \in Gateway |-> {}]
    /\ updates = {}
    /\ shown = [k \in Key |-> 0]
    /\ disturbed = {}
    /\ faults = 0

Fault ==
    /\ faults < MaxFaults
    /\ faults' = faults + 1

-----------------------------------------------------------------------------
(* From the gateway to the stream.                                         *)

\* The lines before l that are still on their way.
Before(l) == {i \in 1..(l[2] - 1) : <<l[1], i>> \notin passed}

\* A line that was published and is on its way; a few may be at a time.
OnWire(l) == l \notin passed /\ Cardinality(Before(l)) < MaxOnWire

\* sinkRule: each line is put on its own, and may overtake another.
Put(l) ==
    /\ OnWire(l)
    /\ IF Before(l) = {} THEN UNCHANGED faults ELSE Fault
    /\ passed' = passed \cup {l}
    /\ stream' = Append(stream, l)
    /\ UNCHANGED <<batch, phase, parserVars, updates, shown, disturbed>>

\* sinkRule: a put that fails goes to the topic of errors, where nobody reads.
Lose(l) ==
    /\ OnWire(l)
    /\ Fault
    /\ passed' = passed \cup {l}
    /\ UNCHANGED <<stream, batch, phase, parserVars, updates, shown, disturbed>>

-----------------------------------------------------------------------------
(* The parser of one gateway's lines.                                      *)

KindOf(g, i) == Script[g][Console[g][i].of].kind

\* parseMessages: the lines that match the definition, line after line.
parseMessages(g, lines, kind) ==
    LET got[k \in 0..Len(lines)] ==
            IF k = 0 THEN <<>>
            ELSE LET result == got[k - 1]
                 IN  IF /\ KindOf(g, lines[k]) = kind
                        /\ Console[g][lines[k]].part = Len(result) + 1
                     THEN Append(result, lines[k]) ELSE result
    IN  got[Len(lines)]

Complete(g, lines, kind) ==
    Len(parseMessages(g, lines, kind)) = Layout[kind].length

\* Bug: the lines are not reset.
addForgetsReset(g, state, i) ==
    LET lines == Append(state.buffer, i)
        def == SelectInSeq(Definitions, LAMBDA k : Complete(g, lines, k))
    IN  [buffer |-> lines,
         found |-> IF def = 0 THEN state.found
                   ELSE Append(state.found, parseMessages(g, lines, Definitions[def]))]

\* StreamParser.add: the first definition that matches takes all lines.
add(g, state, i) ==
    LET lines == Append(state.buffer, i)
        def == SelectInSeq(Definitions, LAMBDA k : Complete(g, lines, k))
    IN  IF def = 0
        THEN [state EXCEPT !.buffer = lines]
        ELSE [buffer |-> <<>>,
              found |-> Append(state.found, parseMessages(g, lines, Definitions[def]))]

\* Bug: a payload that is not JSON is reported all the same.
updateNoCatch(g, found) ==
    LET kind == KindOf(g, found[1])
    IN  {[gateway |-> g,
          node |-> Script[g][Console[g][found[Layout[kind].node]].of].node,
          of |-> Console[g][found[Layout[kind].value]].of]}

\* The listener: what it reports of the lines of a message, and for whom.
updateNodeData(g, found) ==
    LET kind == KindOf(g, found[1])
        u == [gateway |-> g,
              node |-> Script[g][Console[g][found[Layout[kind].node]].of].node,
              of |-> Console[g][found[Layout[kind].value]].of]
    IN  IF SectionOf(u) = "none" THEN {} ELSE {u}

\* The lines of messages it knows that a parser missed when it got a later one.
Missing(g, f) ==
    UNION {{i \in 1..f[p] : /\ Known(g, Console[g][i].of)
                            /\ i \notin ToSet(SubSeq(f, 1, p))} : p \in 1..Len(f)}

\* One of them that comes after all is a second disturbance.
Disturbances(g, f) ==
    Missing(g, f) \X {"missing"} \cup {<<i, "late">> : i \in {i \in Missing(g, f) : Contains(f, i)}}

\* The message that was found, if all lines are of one.
WholeOf(g, found) ==
    {m \in 1..Len(Script[g]) : \A j \in 1..Len(found) : Console[g][found[j]].of = m}

\* Bug: a parser per invocation.
parserPerBatch(g) == [buffer |-> <<>>, found |-> <<>>]

\* parserInstance: lives as long as its container.
parserOf(g) == [buffer |-> buffer[g], found |-> <<>>]

-----------------------------------------------------------------------------
(* The lambda.                                                             *)

\* All lines, one after the other.
parse(g, lines) ==
    LET state[k \in 0..Len(lines)] ==
            IF k = 0 THEN parserOf(g) ELSE add(g, state[k - 1], lines[k])
    IN  state[Len(lines)]

\* handler: the lines of each gateway, sorted, go through its parser; the
\* updates are sent without awaiting them.
handler(records) ==
    LET lines == [g \in Gateway |-> LinesOf(records, g)]
        done == [g \in Gateway |-> parse(g, lines[g])]
        given == [g \in Gateway |-> fed[g] \o lines[g]]
    IN  /\ buffer' = [g \in Gateway |-> done[g].buffer]
        /\ updates' = updates \cup UNION {UNION {updateNodeData(g, found) : found \in ToSet(done[g].found)} :
                                 g \in Gateway}
        /\ fed' = given
        /\ UNCHANGED since
        /\ parsed' = [g \in Gateway |->
              parsed[g] \cup UNION {WholeOf(g, found) : found \in ToSet(done[g].found)}]
        /\ disturbed' = disturbed \cup
              UNION {{g} \X Disturbances(g, given[g]) : g \in Gateway}

\* The stream hands over its oldest records; a failed batch is handed over
\* again as it was.
Invoke ==
    /\ \/ /\ phase = "idle"
          /\ \E n \in 1..BatchSize :
                /\ n <= Len(stream)
                /\ batch' = SubSeq(stream, 1, n)
                /\ stream' = SubSeq(stream, n + 1, Len(stream))
                /\ handler(SubSeq(stream, 1, n))
       \/ /\ phase = "failed"
          /\ UNCHANGED <<batch, stream>>
          /\ handler(batch)
    /\ phase' = "running"
    /\ UNCHANGED <<passed, shown, faults>>

\* A request reaches the shadow service, in any order.
Apply(u) ==
    /\ updates' = updates \ {u}
    /\ shown' = [shown EXCEPT ![<<u.gateway, u.node, SectionOf(u)>>] = u.of]
    /\ UNCHANGED <<passed, stream, batch, phase, parserVars, disturbed, faults>>

\* A request is rejected: nobody catches it, the process ends and takes the
\* other requests and the parsers with it.
Fail(u) ==
    /\ Fault
    /\ updates' = {}
    /\ phase' = "failed"
    /\ NewParsers
    /\ UNCHANGED <<passed, stream, batch, shown>>

\* Bug: the invocation ends with the handler.
FinishWithHandler ==
    /\ phase = "running"
    /\ phase' = "idle"
    /\ batch' = <<>>
    /\ UNCHANGED <<passed, stream, parserVars, updates, shown, disturbed, faults>>

\* All requests are answered: only now the invocation ends, the handler does
\* not wait for them but Lambda waits for the event loop to be empty.
Finish ==
    /\ phase = "running" /\ updates = {}
    /\ phase' = "idle"
    /\ batch' = <<>>
    /\ UNCHANGED <<passed, stream, parserVars, updates, shown, disturbed, faults>>

\* The next batch finds another container, with parsers that hold nothing.
Recycle ==
    /\ phase = "idle"
    /\ \E g \in Gateway : Len(fed[g]) > since[g]
    /\ Fault
    /\ NewParsers
    /\ UNCHANGED <<passed, stream, batch, phase, updates, shown>>

Next ==
    \/ \E l \in Line : Put(l) \/ Lose(l)
    \/ Invoke
    \/ \E u \in updates : Apply(u) \/ Fail(u)
    \/ Finish
    \/ Recycle

Spec == Init /\ [][Next]_vars

-----------------------------------------------------------------------------
(* Properties.                                                             *)

\* Message m of gateway g stands whole and in order in f, from position p on.
WholeAt(g, f, p, m) ==
    /\ p + LengthOf(g, m) - 1 <= Len(f)
    /\ \A j \in 1..LengthOf(g, m) : Console[g][f[p + j - 1]] = [of |-> m, part |-> j]

\* The parser starts afresh after position r of f: it is new, or was given a
\* message that it knows as a whole.
FreshAfter(g, f, from, r) ==
    \/ r = from
    \/ \E k \in 1..Len(Script[g]) :
          LET q == r + 1 - LengthOf(g, k)
          IN  q > from /\ Known(g, k) /\ WholeAt(g, f, q, k)

\* Whatever the parser still holds of broken messages, it costs the next
\* message at most: of two messages that arrive whole, with only lines the
\* parser does not know in between, the second is found, and so is the first
\* one a new parser is given.
RecoversAtOnce ==
    \A g \in Gateway : \A m \in 1..Len(Script[g]), p \in 1..Len(fed[g]) :
        Known(g, m) /\ m \notin parsed[g] /\ WholeAt(g, fed[g], p, m) =>
            ~\E r \in since[g]..(p - 1) :
                /\ FreshAfter(g, fed[g], since[g], r)
                /\ \A j \in (r + 1)..(p - 1) : ~Known(g, Console[g][fed[g][j]].of)

\* A value never gives way to an older one of an earlier batch: only the
\* requests of one invocation overtake each other (parseSinkMessages.ts:18),
\* unless lines of the older message came late.
NoOldValueReturns ==
    [][\A k \in Key : shown'[k] < shown[k] =>
          \E i \in 1..Len(Console[k[1]]) :
             \/ Console[k[1]][i].of = shown[k] /\ <<k[1], i>> \in ToSet(batch)
             \/ Console[k[1]][i].of = shown'[k] /\ <<k[1], <<i, "late">>>> \in disturbed]_vars

\* What NodeReports promises.
Reports == INSTANCE NodeReports WITH
    begun <- [g \in Gateway |->
        Max({0} \cup {Console[g][l[2]].of : l \in {l \in passed : l[1] = g}})],
    disturbed <- {<<d[1], Console[d[1]][d[2][1]].of>> : d \in disturbed}

RefinesReports == Reports!Spec

\* Each message the parser knows and was given all lines of has been found,
\* unless a line up to its last one was missed when a later line was parsed or
\* went down with a parser.
FoundUnlessDisturbed ==
    \A g \in Gateway : \A m \in 1..Len(Script[g]) :
        Known(g, m) /\ m \notin parsed[g] =>
            \/ \E i \in 1..Len(Console[g]) : Console[g][i].of = m /\ ~Contains(fed[g], i)
            \/ \E d \in disturbed : d[1] = g /\ Console[g][d[2][1]].of <= m
=============================================================================
