---------------------------- MODULE NRPlusSinkProofs ----------------------------
(***************************************************************************)
(* The inductive invariant of NRPlusSink and what follows from it: that    *)
(* the parser recovers at once, that what was not disturbed is found, and  *)
(* that the sink implements NodeReports.                                   *)
(***************************************************************************)
EXTENDS NRPlusParserProofs

-----------------------------------------------------------------------------
(* The inductive invariant.                                                *)

\* The gateway published message m, or one after it.
PassedUpTo(g, m) == \E i \in Lines(g) : <<g, i>> \in passed /\ m <= Of(g, i)

Lost(g) == {i \in Lines(g) : \E d \in disturbed : d[1] = g /\ d[2][1] = i}

Fed(l) == Contains(fed[l[1]], l[2])

Ends(f, t) == Len(t) <= Len(f) /\ \A j \in 1..Len(t) : f[Len(f) - Len(t) + j] = t[j]

\* A line is on its way to a parser once.
StreamInv ==
    /\ \A l \in ToSet(stream) \cup ToSet(batch) : l \in passed
    /\ \A g \in Gateway : \A i \in Lines(g) : Fed(<<g, i>>) => <<g, i>> \in passed
    /\ Once(stream) /\ Once(batch)
    /\ \A l \in ToSet(stream) : l \notin ToSet(batch) /\ ~Fed(l)

\* The lines of a running batch are the last ones that parsers were given;
\* those of a failed one were taken back.
PhaseInv ==
    /\ phase = "idle" => batch = <<>>
    /\ phase # "running" => updates = {} /\ \A l \in ToSet(batch) : ~Fed(l)
    /\ phase # "failed" => \A g \in Gateway : Ends(fed[g], LinesOf(batch, g))

\* An update shows a value of a message that was published, for its node; or
\* for that of another one, if the earlier one or one before it was disturbed.
Justified(u) ==
    /\ PassedUpTo(u.gateway, u.of)
    /\ \/ u.node = Script[u.gateway][u.of].node
       \/ \E k \in Messages(u.gateway) :
             /\ u.node = Script[u.gateway][k].node /\ PassedUpTo(u.gateway, k)
             /\ \E i \in Lost(u.gateway) : Of(u.gateway, i) <= u.of /\ Of(u.gateway, i) <= k

UpdatesInv == \A u \in updates : Justified(u)

DisturbedInv ==
    /\ \A d \in disturbed : d[2][1] \in Lines(d[1]) /\ PassedUpTo(d[1], Of(d[1], d[2][1]))
    /\ \A g \in Gateway : \A i \in Missing(g, fed[g]) : i \in Lost(g)

ParsersInv ==
    \A g \in Gateway : ParserInv(g, fed[g], since[g], buffer[g], parsed[g], Lost(g))

IInv == TypeOK /\ StreamInv /\ PhaseInv /\ UpdatesInv /\ DisturbedInv /\ ParsersInv

-----------------------------------------------------------------------------
(* Types.                                                                  *)

LEMMA LinesAreNat ==
    ASSUME NEW g \in Gateway
    PROVE  \A f \in Seq(Lines(g)) : f \in Seq(Nat)
<1>1. Lines(g) \subseteq Nat
  BY DEF Lines
<1> QED
  BY <1>1, SeqMonotonic

LEMMA ParserTypes ==
    ASSUME NEW g \in Gateway, NEW f, NEW s, NEW b, NEW P, NEW lost,
           ParserInv(g, f, s, b, P, lost)
    PROVE  /\ f \in Seq(Lines(g)) /\ b \in Seq(Lines(g)) /\ f \in Seq(Nat) /\ b \in Seq(Nat)
           /\ s \in 0..Len(f) /\ P \in SUBSET Nat /\ Len(f) \in Nat /\ Once(f)
<1>1. /\ f \in Seq(Lines(g)) /\ b \in Seq(Lines(g)) /\ s \in Nat /\ s <= Base(f, b) /\ Once(f)
      /\ WholeFound(g, f, P)
  BY DEF ParserInv, Held
<1>2. Len(f) \in Nat /\ Len(b) \in Nat
  BY <1>1, LenProperties
<1>3. s \in 0..Len(f)
  BY <1>1, <1>2 DEF Base
<1>4. \A m \in P : m \in Nat
  BY <1>1 DEF WholeFound, Messages
<1> QED
  BY <1>1, <1>2, <1>3, <1>4, LinesAreNat

LEMMA PairOfLine ==
    ASSUME NEW l \in Line
    PROVE  /\ l[1] \in Gateway /\ l[2] \in Lines(l[1]) /\ l = <<l[1], l[2]>>
<1>1. PICK g \in Gateway : \E i \in Lines(g) : l = <<g, i>>
  BY LineMembers
<1> QED
  BY <1>1

\* What does not change a state but adds lines that were published.
LEMMA PassedGrows ==
    ASSUME NEW g, NEW m, passed \subseteq passed', PassedUpTo(g, m)
    PROVE  PassedUpTo(g, m)'
BY DEF PassedUpTo, Lines, Of

-----------------------------------------------------------------------------
(* Initially.                                                              *)

LEMMA NoLines ==
    ASSUME NEW g \in Gateway
    PROVE  LinesOf(<<>>, g) \in Seq(Lines(g)) /\ Len(LinesOf(<<>>, g)) = 0
<1>1. <<>> \in Seq(Line) /\ ToSet(<<>>) = {}
  BY EmptySeq, ElementsOfEmpty
<1> DEFINE t == LinesOf(<<>>, g)
<1>2. t \in Seq(Lines(g)) /\ \A i : (\E j \in 1..Len(t) : t[j] = i) <=> <<g, i>> \in ToSet(<<>>)
  BY <1>1, LinesOfBatch
<1> HIDE DEF t
<1>3. \A j \in 1..Len(t) : FALSE
  BY <1>1, <1>2
<1>4. Len(t) = 0
  BY <1>2, <1>3, LenProperties
<1> QED
  BY <1>2, <1>4 DEF t

LEMMA Initially == Init => IInv
<1> SUFFICES ASSUME Init
             PROVE  IInv
  OBVIOUS
<1>1. /\ passed = {} /\ stream = <<>> /\ batch = <<>> /\ phase = "idle" /\ updates = {}
      /\ disturbed = {} /\ faults = 0 /\ shown = [k \in Key |-> 0]
      /\ buffer = [g \in Gateway |-> <<>>] /\ fed = [g \in Gateway |-> <<>>]
      /\ since = [g \in Gateway |-> 0] /\ parsed = [g \in Gateway |-> {}]
  BY DEF Init
<1>2. ToSet(<<>>) = {} /\ <<>> \in Seq(Line) /\ <<>> \in Seq(Nat) /\ Len(<<>>) = 0
  BY ElementsOfEmpty, EmptySeq
<1>3. TypeOK
  BY <1>1, <1>2, BoundsAssumption DEF TypeOK
<1>4. \A g \in Gateway : fed[g] = <<>> /\ Lost(g) = {} /\ buffer[g] = <<>> /\ since[g] = 0 /\ parsed[g] = {}
  BY <1>1 DEF Lost
<1>5. StreamInv
  BY <1>1, <1>2, <1>4 DEF StreamInv, Fed, Once, Contains
<1>6. \A g \in Gateway : Ends(fed[g], LinesOf(batch, g))
  BY <1>1, <1>2, <1>4, NoLines DEF Ends
<1>7. PhaseInv
  BY <1>1, <1>2, <1>6 DEF PhaseInv
<1>8. \A g \in Gateway : Missing(g, fed[g]) = {}
  BY <1>2, <1>4 DEF Missing
<1>9. DisturbedInv
  BY <1>1, <1>8 DEF DisturbedInv
<1>10. ParsersInv
  BY <1>4, FirstParserHolds DEF ParsersInv
<1>11. UpdatesInv
  BY <1>1 DEF UpdatesInv
<1> QED
  BY <1>3, <1>5, <1>7, <1>9, <1>10, <1>11 DEF IInv

-----------------------------------------------------------------------------
(* The handler.                                                            *)

\* Records that parsers may be given.
Fresh(records) ==
    /\ records \in Seq(Line)
    /\ \A l \in ToSet(records) : l \in passed /\ ~Fed(l)

LEMMA HandlerOfGateway ==
    ASSUME IInv, NEW records, Fresh(records), handler(records), NEW g \in Gateway
    PROVE  /\ fed[g] \in Seq(Lines(g)) /\ LinesOf(records, g) \in Seq(Lines(g))
           /\ fed'[g] = fed[g] \o LinesOf(records, g)
           /\ since'[g] = since[g]
           /\ ParserInv(g, fed'[g], since'[g], buffer'[g], parsed'[g], Lost(g))
           /\ \A x \in ToSet(parse(g, LinesOf(records, g)).found) : FoundFacts(g, fed'[g], x)
           /\ OfBatch(g, Len(fed[g]), fed'[g], parse(g, LinesOf(records, g)))
           /\ buffer'[g] = parse(g, LinesOf(records, g)).buffer
<1> DEFINE lines == LinesOf(records, g)
           done == parse(g, lines)
<1>1. ParserInv(g, fed[g], since[g], buffer[g], parsed[g], Lost(g))
  BY DEF IInv, ParsersInv
<1>2. /\ lines \in Seq(Lines(g)) /\ Once(lines)
      /\ \A i : (\E j \in 1..Len(lines) : lines[j] = i) <=> <<g, i>> \in ToSet(records)
  BY LinesOfBatch DEF Fresh, Once
<1>3. /\ fed'[g] = fed[g] \o lines /\ since' = since
      /\ buffer'[g] = done.buffer
      /\ parsed'[g] = parsed[g] \cup UNION {WholeOf(g, found) : found \in ToSet(done.found)}
  BY DEF handler
<1> HIDE DEF lines
<1>4. \A j \in 1..Len(lines) : ~Contains(fed[g], lines[j])
  <2>1. ASSUME NEW j \in 1..Len(lines)
        PROVE  ~Contains(fed[g], lines[j])
    <3>1. <<g, lines[j]>> \in ToSet(records)
      BY <1>2
    <3>2. ~Fed(<<g, lines[j]>>)
      BY <3>1 DEF Fresh
    <3> QED
      BY <3>2 DEF Fed
  <2> QED
    BY <2>1
<1>5. /\ ParserInv(g, fed[g] \o lines, since[g], done.buffer,
                   parsed[g] \cup WholeOfAll(g, done.found), Lost(g))
      /\ \A x \in ToSet(done.found) : FoundFacts(g, fed[g] \o lines, x)
      /\ OfBatch(g, Len(fed[g]), fed[g] \o lines, done)
  BY <1>1, <1>2, <1>4, ParseKeepsParser
<1>6. parsed'[g] = parsed[g] \cup WholeOfAll(g, done.found)
  BY <1>3 DEF WholeOfAll
<1>7. fed[g] \in Seq(Lines(g))
  BY <1>1, ParserTypes
<1> HIDE DEF done
<1> QED
  BY <1>2, <1>3, <1>5, <1>6, <1>7 DEF lines, done

\* The lines that parsers were given afterwards.
LEMMA HandlerFed ==
    ASSUME IInv, NEW records, Fresh(records), handler(records), NEW g \in Gateway
    PROVE  /\ \A i : Contains(fed'[g], i) <=> Contains(fed[g], i) \/ <<g, i>> \in ToSet(records)
           /\ Ends(fed'[g], LinesOf(records, g))
<1> DEFINE f == fed[g]
           t == LinesOf(records, g)
<1>1. f \in Seq(Lines(g)) /\ t \in Seq(Lines(g)) /\ fed'[g] = f \o t
  BY HandlerOfGateway
<1>2. \A i : Contains(t, i) <=> <<g, i>> \in ToSet(records)
  <2>1. records \in Seq(Line)
    BY DEF Fresh
  <2>2. \A i : (\E j \in 1..Len(t) : t[j] = i) <=> <<g, i>> \in ToSet(records)
    BY <2>1, LinesOfBatch
  <2> HIDE DEF t
  <2> QED
    BY <2>2 DEF Contains
<1> HIDE DEF f, t
<1>3. /\ Len(f) \in Nat /\ Len(t) \in Nat /\ Len(f \o t) = Len(f) + Len(t)
      /\ \A p \in 1..(Len(f) + Len(t)) : (f \o t)[p] = IF p <= Len(f) THEN f[p] ELSE t[p - Len(f)]
  BY <1>1, LenProperties, ConcatProperties
<1>4. \A j \in 1..Len(t) : (f \o t)[Len(f) + j] = t[j]
  <2>1. ASSUME NEW j \in 1..Len(t)
        PROVE  (f \o t)[Len(f) + j] = t[j]
    <3>1. Len(f) + j \in 1..(Len(f) + Len(t)) /\ ~(Len(f) + j <= Len(f)) /\ (Len(f) + j) - Len(f) = j
      BY <1>3
    <3> QED
      BY <1>3, <3>1
  <2> QED
    BY <2>1
<1>5. Ends(f \o t, t)
  <2>1. Len(f \o t) - Len(t) = Len(f) /\ Len(t) <= Len(f \o t)
    BY <1>3
  <2> QED
    BY <1>4, <2>1 DEF Ends
<1>6. ASSUME NEW i
      PROVE  Contains(f \o t, i) <=> Contains(f, i) \/ Contains(t, i)
  <2>1. ASSUME NEW p \in 1..Len(f), f[p] = i
        PROVE  Contains(f \o t, i)
    <3>1. p \in 1..Len(f \o t) /\ p \in 1..(Len(f) + Len(t)) /\ p <= Len(f)
      BY <1>3
    <3> QED
      BY <1>3, <2>1, <3>1 DEF Contains
  <2>2. ASSUME NEW j \in 1..Len(t), t[j] = i
        PROVE  Contains(f \o t, i)
    <3>1. Len(f) + j \in 1..Len(f \o t)
      BY <1>3
    <3> QED
      BY <1>4, <2>2, <3>1 DEF Contains
  <2>3. ASSUME NEW p \in 1..Len(f \o t), (f \o t)[p] = i
        PROVE  Contains(f, i) \/ Contains(t, i)
    <3>1. CASE p <= Len(f)
      <4>1. p \in 1..Len(f) /\ f[p] = i
        BY <1>3, <2>3, <3>1
      <4> QED
        BY <4>1 DEF Contains
    <3>2. CASE ~(p <= Len(f))
      <4>1. p - Len(f) \in 1..Len(t) /\ t[p - Len(f)] = i
        BY <1>3, <2>3, <3>2
      <4> QED
        BY <4>1 DEF Contains
    <3> QED
      BY <3>1, <3>2
  <2> QED
    BY <2>1, <2>2, <2>3 DEF Contains
<1> QED
  BY <1>1, <1>2, <1>5, <1>6 DEF f, t

\* What the handler adds to the disturbed lines: those that were missed.
LEMMA HandlerDisturbs ==
    ASSUME IInv, NEW records, Fresh(records), handler(records)
    PROVE  /\ disturbed \subseteq disturbed'
           /\ \A d \in disturbed' \ disturbed :
                 /\ d \in Gateway \X (Nat \X {"missing", "late"})
                 /\ d[2][1] \in Missing(d[1], fed'[d[1]]) /\ d[2][1] \in Lines(d[1])
           /\ \A g \in Gateway : \A i \in Missing(g, fed'[g]) :
                 /\ i \in Lines(g) /\ <<g, <<i, "missing">>>> \in disturbed'
                 /\ Contains(fed'[g], i) => <<g, <<i, "late">>>> \in disturbed'
<1> DEFINE given == [g \in Gateway |-> fed[g] \o LinesOf(records, g)]
<1>1. disturbed' = disturbed \cup UNION {{g} \X Disturbances(g, given[g]) : g \in Gateway}
  BY DEF handler
<1>2. \A g \in Gateway : given[g] = fed'[g]
  BY DEF handler
<1>3. \A g \in Gateway : \A i \in Missing(g, fed'[g]) : i \in Lines(g)
  <2>1. ASSUME NEW g \in Gateway
        PROVE  fed'[g] \in Seq(Lines(g)) /\ Begins(fed'[g], fed'[g])
    <3>1. fed'[g] \in Seq(Lines(g))
      BY HandlerOfGateway, ParserTypes
    <3> QED
      BY <3>1, LenProperties DEF Begins
  <2> QED
    BY <2>1, MissingGrows
<1> HIDE DEF given
<1>4. ASSUME NEW g \in Gateway, NEW c
      PROVE  c \in Disturbances(g, fed'[g]) =>
                c \in Nat \X {"missing", "late"} /\ c[1] \in Missing(g, fed'[g])
  BY <1>3 DEF Disturbances, Lines
<1>5. ASSUME NEW d \in disturbed' \ disturbed
      PROVE  /\ d \in Gateway \X (Nat \X {"missing", "late"})
             /\ d[2][1] \in Missing(d[1], fed'[d[1]]) /\ d[2][1] \in Lines(d[1])
  <2>1. PICK g \in Gateway : d \in {g} \X Disturbances(g, given[g])
    BY <1>1
  <2>2. d[1] = g /\ d[2] \in Disturbances(g, fed'[g]) /\ d = <<d[1], d[2]>>
    BY <1>2, <2>1
  <2>3. d[2] \in Nat \X {"missing", "late"} /\ d[2][1] \in Missing(g, fed'[g])
    BY <1>4, <2>2
  <2> QED
    BY <1>3, <2>2, <2>3
<1>6. ASSUME NEW g \in Gateway, NEW i \in Missing(g, fed'[g])
      PROVE  <<g, <<i, "missing">>>> \in disturbed'
  <2>1. <<i, "missing">> \in Disturbances(g, given[g])
    BY <1>2 DEF Disturbances
  <2> QED
    BY <1>1, <2>1
<1>7. ASSUME NEW g \in Gateway, NEW i \in Missing(g, fed'[g]), Contains(fed'[g], i)
      PROVE  <<g, <<i, "late">>>> \in disturbed'
  <2>1. <<i, "late">> \in Disturbances(g, given[g])
    BY <1>2, <1>7 DEF Disturbances
  <2> QED
    BY <1>1, <2>1
<1> QED
  BY <1>1, <1>3, <1>5, <1>6, <1>7

LEMMA HandlerLost ==
    ASSUME IInv, NEW records, Fresh(records), handler(records), NEW g \in Gateway
    PROVE  /\ Lost(g) \subseteq Lost(g)' /\ Lost(g)' \subseteq Lines(g)
           /\ \A i \in Missing(g, fed'[g]) : i \in Lost(g)'
<1>1. /\ disturbed \subseteq disturbed'
      /\ \A i \in Missing(g, fed'[g]) : i \in Lines(g) /\ <<g, <<i, "missing">>>> \in disturbed'
  BY HandlerDisturbs
<1>2. \A i : i \in Lost(g)' <=> i \in Lines(g) /\ \E d \in disturbed' : d[1] = g /\ d[2][1] = i
  BY DEF Lost, Lines
<1>3. \A i : i \in Lost(g) <=> i \in Lines(g) /\ \E d \in disturbed : d[1] = g /\ d[2][1] = i
  BY DEF Lost
<1>4. ASSUME NEW i \in Missing(g, fed'[g])
      PROVE  i \in Lost(g)'
  <2>1. <<g, <<i, "missing">>>>[1] = g /\ <<g, <<i, "missing">>>>[2][1] = i
    OBVIOUS
  <2> QED
    BY <1>1, <1>2, <2>1
<1>5. Lost(g) \subseteq Lost(g)'
  BY <1>1, <1>2, <1>3
<1>6. Lost(g)' \subseteq Lines(g)
  BY <1>2
<1> QED
  BY <1>4, <1>5, <1>6

\* A line that was published, and what was published before it.
LEMMA PassedLine ==
    ASSUME NEW g \in Gateway, NEW i \in Lines(g), NEW j \in Lines(g), <<g, j>> \in passed, i <= j
    PROVE  PassedUpTo(g, Of(g, i))
<1>1. i \in Nat /\ j \in Nat /\ Of(g, i) \in Nat /\ Of(g, j) \in Nat
  BY LineTypes
<1>2. Of(g, i) <= Of(g, j)
  <2>1. CASE i = j
    BY <1>1, <2>1
  <2>2. CASE i < j
    BY <1>1, <2>2, LineOrder
  <2> QED
    BY <1>1, <2>1, <2>2
<1> QED
  BY <1>2 DEF PassedUpTo

\* The update of a message that was found.
LEMMA UpdateOfFound ==
    ASSUME IInv, NEW g \in Gateway, NEW f \in Seq(Lines(g)),
           NEW found, FoundFacts(g, f, found), NEW u \in updateNodeData(g, found)
    PROVE  /\ u \in Update /\ u.gateway = g /\ u.of \in Messages(g) /\ SectionOf(u) \in Section
           /\ \E i \in Lines(g) : Contains(f, i) /\ Of(g, i) = u.of
           /\ \/ u.node = Script[g][u.of].node
              \/ \E k \in Messages(g), i \in Lines(g), y \in Missing(g, f) :
                    /\ u.node = Script[g][k].node /\ Contains(f, i) /\ Of(g, i) = k
                    /\ Of(g, y) <= u.of /\ Of(g, y) <= k
<1> DEFINE kind == KindOf(g, found[1])
           a == found[Layout[kind].node]
           c == found[Layout[kind].value]
<1>1. /\ found \in Seq(Lines(g)) /\ Len(found) # 0 /\ Len(found) = Layout[kind].length
      /\ \A j \in 1..Len(found) : Contains(f, found[j])
      /\ Mixed(g, f, found)
  BY DEF FoundFacts
<1>2. Len(found) \in Nat /\ \A j \in 1..Len(found) : found[j] \in Lines(g)
  BY <1>1, LenProperties, ElementOfSeq
<1>3. kind \in Kind
  <2>1. found[1] \in Lines(g)
    BY <1>1, <1>2
  <2> QED
    BY <2>1, LengthOfKind
<1>4. Layout[kind].node \in 1..Len(found) /\ Layout[kind].value \in 1..Len(found)
  BY <1>1, <1>3, LayoutAssumption
<1>5. a \in Lines(g) /\ c \in Lines(g) /\ Contains(f, a) /\ Contains(f, c)
  BY <1>1, <1>2, <1>4
<1>6. Of(g, a) \in Messages(g) /\ Of(g, c) \in Messages(g)
  BY <1>5, LineFacts
<1>7. /\ u.gateway = g /\ u.node = Script[g][Of(g, a)].node /\ u.of = Of(g, c)
      /\ u = [gateway |-> u.gateway, node |-> u.node, of |-> u.of]
      /\ SectionOf(u) # "none"
  <2> DEFINE w == [gateway |-> g, node |-> Script[g][Of(g, a)].node, of |-> Of(g, c)]
  <2>1. updateNodeData(g, found) = IF SectionOf(w) = "none" THEN {} ELSE {w}
    BY DEF updateNodeData, Of
  <2>2. u = w /\ SectionOf(w) # "none"
    <3> HIDE DEF w
    <3> QED
      BY <2>1
  <2> HIDE DEF a, c
  <2>3. u.gateway = g /\ u.node = Script[g][Of(g, a)].node /\ u.of = Of(g, c)
    BY <2>2
  <2>4. u = [gateway |-> u.gateway, node |-> u.node, of |-> u.of]
    BY <2>2
  <2> QED
    BY <2>2, <2>3, <2>4
<1>8. Of(g, a) # Of(g, c) => \E y \in Missing(g, f) : Of(g, y) <= Of(g, a) /\ Of(g, y) <= Of(g, c)
  BY <1>1, <1>4 DEF Mixed
<1> HIDE DEF a, c, kind
<1>9. SectionOf(u) \in Section
  <2>1. Script[g][Of(g, c)].section \in Section \cup {"none"}
    BY <1>6, ScriptFacts
  <2> QED
    BY <1>7, <2>1 DEF SectionOf
<1>10. u \in Update
  <2>1. u.node \in Node /\ u.of \in Nat
    BY <1>6, <1>7, ScriptFacts DEF Messages
  <2> QED
    BY <1>7, <2>1 DEF Update
<1>11. \/ u.node = Script[g][u.of].node
       \/ \E k \in Messages(g), i \in Lines(g), y \in Missing(g, f) :
             /\ u.node = Script[g][k].node /\ Contains(f, i) /\ Of(g, i) = k
             /\ Of(g, y) <= u.of /\ Of(g, y) <= k
  <2>1. CASE Of(g, a) = Of(g, c)
    BY <1>7, <2>1
  <2>2. CASE Of(g, a) # Of(g, c)
    <3>1. PICK y \in Missing(g, f) : Of(g, y) <= Of(g, a) /\ Of(g, y) <= Of(g, c)
      BY <1>8, <2>2
    <3> QED
      BY <1>5, <1>6, <1>7, <3>1
  <2> QED
    BY <2>1, <2>2
<1> QED
  BY <1>5, <1>6, <1>7, <1>9, <1>10, <1>11

\* The updates of a batch.
LEMMA HandlerUpdates ==
    ASSUME IInv, NEW records, Fresh(records), handler(records), passed' = passed,
           NEW u \in updates'
    PROVE  /\ u \in Update /\ u.of \in 1..Len(Script[u.gateway]) /\ SectionOf(u) \in Section
           /\ Justified(u)'
<1>1. \A g \in Gateway : Lost(g) \subseteq Lost(g)'
  BY HandlerLost
<1>2. \A g, m : PassedUpTo(g, m) => PassedUpTo(g, m)'
  BY PassedGrows
<1>3. CASE u \in updates
  <2>1. u \in Update /\ u.of \in 1..Len(Script[u.gateway]) /\ SectionOf(u) \in Section /\ Justified(u)
    BY <1>3 DEF IInv, TypeOK, UpdatesInv
  <2>2. u.gateway \in Gateway
    BY <2>1 DEF Update
  <2>3. PassedUpTo(u.gateway, u.of)'
    BY <1>2, <2>1 DEF Justified
  <2>4. CASE u.node = Script[u.gateway][u.of].node
    BY <2>1, <2>3, <2>4 DEF Justified
  <2>5. ASSUME NEW k \in Messages(u.gateway), NEW i \in Lost(u.gateway),
               u.node = Script[u.gateway][k].node, PassedUpTo(u.gateway, k),
               Of(u.gateway, i) <= u.of, Of(u.gateway, i) <= k
        PROVE  Justified(u)'
    <3>1. i \in Lost(u.gateway)' /\ PassedUpTo(u.gateway, k)'
      BY <1>1, <1>2, <2>2, <2>5
    <3> QED
      BY <2>3, <2>5, <3>1 DEF Justified, Messages, Of
  <2> QED
    BY <2>1, <2>4, <2>5 DEF Justified
<1>4. CASE u \notin updates
  <2>1. PICK g \in Gateway : \E found \in ToSet(parse(g, LinesOf(records, g)).found) :
                                u \in updateNodeData(g, found)
    BY <1>4 DEF handler
  <2>2. PICK found \in ToSet(parse(g, LinesOf(records, g)).found) : u \in updateNodeData(g, found)
    BY <2>1
  <2>3. FoundFacts(g, fed'[g], found) /\ fed'[g] \in Seq(Lines(g))
    BY HandlerOfGateway, ParserTypes
  <2> DEFINE f == fed'[g]
  <2> HIDE DEF f
  <2>4. /\ u \in Update /\ u.gateway = g /\ u.of \in Messages(g) /\ SectionOf(u) \in Section
        /\ \E i \in Lines(g) : Contains(f, i) /\ Of(g, i) = u.of
        /\ \/ u.node = Script[g][u.of].node
           \/ \E k \in Messages(g), i \in Lines(g), y \in Missing(g, f) :
                 /\ u.node = Script[g][k].node /\ Contains(f, i) /\ Of(g, i) = k
                 /\ Of(g, y) <= u.of /\ Of(g, y) <= k
    <3>1. FoundFacts(g, f, found) /\ f \in Seq(Lines(g))
      BY <2>3 DEF f
    <3> QED
      BY <2>2, <3>1, UpdateOfFound
  <2>5. ASSUME NEW i \in Lines(g), Contains(f, i)
        PROVE  PassedUpTo(g, Of(g, i))'
    <3>1. Contains(fed[g], i) \/ <<g, i>> \in ToSet(records)
      BY <2>5, HandlerFed DEF f
    <3>2. <<g, i>> \in passed
      <4>1. CASE Contains(fed[g], i)
        <5>1. Fed(<<g, i>>)
          BY <4>1 DEF Fed
        <5> QED
          BY <5>1 DEF IInv, StreamInv
      <4>2. CASE <<g, i>> \in ToSet(records)
        BY <4>2 DEF Fresh
      <4> QED
        BY <3>1, <4>1, <4>2
    <3>3. i <= i
      BY LineTypes
    <3> QED
      BY <1>2, <3>2, <3>3, PassedLine
  <2>6. PassedUpTo(g, u.of)'
    <3>1. PICK i \in Lines(g) : Contains(f, i) /\ Of(g, i) = u.of
      BY <2>4
    <3>2. PassedUpTo(g, Of(g, i))'
      BY <2>5, <3>1
    <3> QED
      BY <3>1, <3>2
  <2>7. CASE u.node = Script[g][u.of].node
    BY <2>4, <2>6, <2>7 DEF Justified, Messages
  <2>8. ASSUME NEW k \in Messages(g), NEW i \in Lines(g), NEW y \in Missing(g, f),
               u.node = Script[g][k].node, Contains(f, i), Of(g, i) = k,
               Of(g, y) <= u.of, Of(g, y) <= k
        PROVE  Justified(u)'
    <3>1. y \in Lost(g)'
      BY <2>8, HandlerLost DEF f
    <3>2. PassedUpTo(g, k)'
      <4>1. PassedUpTo(g, Of(g, i))'
        BY <2>5, <2>8
      <4> QED
        BY <2>8, <4>1
    <3> QED
      BY <2>4, <2>6, <2>8, <3>1, <3>2 DEF Justified, Messages, Of
  <2> QED
    BY <2>4, <2>7, <2>8 DEF Messages
<1> QED
  BY <1>3, <1>4

\* The oldest records of the stream, and the others.
LEMMA StreamSplits ==
    ASSUME NEW S, NEW q \in Seq(S), Once(q), NEW n \in Nat, n <= Len(q)
    PROVE  LET a == SubSeq(q, 1, n)
               c == SubSeq(q, n + 1, Len(q))
           IN  /\ a \in Seq(S) /\ c \in Seq(S) /\ Once(a) /\ Once(c)
               /\ \A l \in ToSet(a) : l \in ToSet(q) /\ l \notin ToSet(c)
               /\ \A l \in ToSet(c) : l \in ToSet(q)
<1> DEFINE a == SubSeq(q, 1, n)
           c == SubSeq(q, n + 1, Len(q))
<1>1. Len(q) \in Nat /\ n + 1 \in Nat \ {0} /\ \A j \in 1..Len(q) : q[j] \in S
  BY LenProperties, ElementOfSeq
<1>2. a \in Seq(S) /\ Len(a) = n /\ \A p \in 1..n : a[p] = q[p]
  BY FirstLines
<1>3. /\ c \in Seq(S)
      /\ Len(c) = IF n + 1 <= Len(q) THEN Len(q) - (n + 1) + 1 ELSE 0
      /\ \A p \in 1..(Len(q) - (n + 1) + 1) : c[p] = q[(n + 1) + p - 1]
  <2>1. \A j \in (n + 1)..Len(q) : q[j] \in S
    BY <1>1
  <2>2. n + 1 \in Int /\ Len(q) \in Int
    BY <1>1
  <2> QED
    BY <1>1, <2>1, <2>2, SubSeqProperties
<1> HIDE DEF a, c
<1>4. Len(c) = Len(q) - n /\ \A p \in 1..Len(c) : c[p] = q[n + p]
  <2>1. Len(c) = Len(q) - n /\ Len(q) - (n + 1) + 1 = Len(q) - n
    BY <1>1, <1>3
  <2>2. ASSUME NEW p \in 1..Len(c)
        PROVE  c[p] = q[n + p]
    <3>1. (n + 1) + p - 1 = n + p
      BY <2>1
    <3>2. c[p] = q[(n + 1) + p - 1]
      BY <1>3, <2>1
    <3> QED
      BY <3>1, <3>2
  <2> QED
    BY <2>1, <2>2
<1>5. Once(a)
  <2>1. \A p \in 1..n : p \in 1..Len(q)
    BY <1>1
  <2> QED
    BY <1>2, <2>1 DEF Once
<1>6. Once(c)
  <2>1. ASSUME NEW x \in 1..Len(c), NEW y \in 1..Len(c), c[x] = c[y]
        PROVE  x = y
    <3>1. n + x \in 1..Len(q) /\ n + y \in 1..Len(q) /\ q[n + x] = q[n + y]
      BY <1>1, <1>4, <2>1
    <3>2. n + x = n + y
      BY <3>1 DEF Once
    <3> QED
      BY <3>2
  <2> QED
    BY <2>1 DEF Once
<1>7. /\ \A l : l \in ToSet(a) <=> \E p \in 1..n : a[p] = l
      /\ \A l : l \in ToSet(c) <=> \E p \in 1..Len(c) : c[p] = l
      /\ \A l : l \in ToSet(q) <=> \E p \in 1..Len(q) : q[p] = l
  BY <1>2, <1>3, ElementsOf
<1>8. ASSUME NEW l \in ToSet(a)
      PROVE  l \in ToSet(q) /\ l \notin ToSet(c)
  <2>1. PICK p \in 1..n : q[p] = l
    BY <1>2, <1>7
  <2>2. p \in 1..Len(q)
    BY <1>1
  <2>3. ASSUME NEW x \in 1..Len(c), c[x] = l
        PROVE  FALSE
    <3>1. n + x \in 1..Len(q) /\ q[n + x] = l /\ n + x # p
      BY <1>1, <1>4, <2>3
    <3> QED
      BY <2>1, <2>2, <3>1 DEF Once
  <2> QED
    BY <1>7, <2>1, <2>2, <2>3
<1>9. ASSUME NEW l \in ToSet(c)
      PROVE  l \in ToSet(q)
  <2>1. PICK x \in 1..Len(c) : q[n + x] = l
    BY <1>4, <1>7
  <2>2. n + x \in 1..Len(q)
    BY <1>1, <1>4
  <2> QED
    BY <1>7, <2>1, <2>2
<1> QED
  BY <1>2, <1>3, <1>5, <1>6, <1>8, <1>9 DEF a, c

\* What an invocation is given: records that no parser was given.
LEMMA InvokeRecords ==
    ASSUME IInv, Invoke
    PROVE  /\ Fresh(batch') /\ Once(batch') /\ handler(batch')
           /\ stream' \in Seq(Line) /\ Once(stream')
           /\ \A l \in ToSet(stream') : l \in ToSet(stream) /\ l \notin ToSet(batch')
           /\ phase' = "running" /\ UNCHANGED <<passed, shown, faults>>
<1>1. /\ stream \in Seq(Line) /\ batch \in Seq(Line)
      /\ \A l \in ToSet(stream) \cup ToSet(batch) : l \in passed
      /\ Once(stream) /\ Once(batch)
      /\ \A l \in ToSet(stream) : l \notin ToSet(batch) /\ ~Fed(l)
  BY DEF IInv, TypeOK, StreamInv
<1>2. phase' = "running" /\ UNCHANGED <<passed, shown, faults>>
  BY DEF Invoke
<1>3. ASSUME NEW n \in 1..BatchSize, n <= Len(stream),
             batch' = SubSeq(stream, 1, n), stream' = SubSeq(stream, n + 1, Len(stream)),
             handler(SubSeq(stream, 1, n))
      PROVE  /\ Fresh(batch') /\ Once(batch') /\ handler(batch')
             /\ stream' \in Seq(Line) /\ Once(stream')
             /\ \A l \in ToSet(stream') : l \in ToSet(stream) /\ l \notin ToSet(batch')
  <2>1. n \in Nat
    OBVIOUS
  <2>2. /\ batch' \in Seq(Line) /\ stream' \in Seq(Line) /\ Once(batch') /\ Once(stream')
        /\ \A l \in ToSet(batch') : l \in ToSet(stream) /\ l \notin ToSet(stream')
        /\ \A l \in ToSet(stream') : l \in ToSet(stream)
    BY <1>1, <1>3, <2>1, StreamSplits
  <2>3. Fresh(batch')
    BY <1>1, <2>2 DEF Fresh
  <2>4. handler(batch')
    BY <1>3
  <2> QED
    BY <2>2, <2>3, <2>4
<1>4. ASSUME phase = "failed", UNCHANGED <<batch, stream>>, handler(batch)
      PROVE  /\ Fresh(batch') /\ Once(batch') /\ handler(batch')
             /\ stream' \in Seq(Line) /\ Once(stream')
             /\ \A l \in ToSet(stream') : l \in ToSet(stream) /\ l \notin ToSet(batch')
  <2>1. \A l \in ToSet(batch) : ~Fed(l)
    BY <1>4 DEF IInv, PhaseInv
  <2>2. Fresh(batch)
    BY <1>1, <2>1 DEF Fresh
  <2>3. handler(batch')
    BY <1>4
  <2> QED
    BY <1>1, <1>4, <2>2, <2>3
<1> QED
  BY <1>2, <1>3, <1>4 DEF Invoke

LEMMA InvokeKeeps ==
    ASSUME IInv, Invoke
    PROVE  IInv'
<1>1. /\ Fresh(batch') /\ Once(batch') /\ handler(batch')
      /\ stream' \in Seq(Line) /\ Once(stream')
      /\ \A l \in ToSet(stream') : l \in ToSet(stream) /\ l \notin ToSet(batch')
      /\ phase' = "running" /\ passed' = passed /\ shown' = shown /\ faults' = faults
  BY InvokeRecords
<1> DEFINE records == batch'
<1>2. Fresh(records) /\ handler(records)
  BY <1>1
<1> HIDE DEF records
<1>3. ASSUME NEW g \in Gateway
      PROVE  /\ ParserInv(g, fed'[g], since'[g], buffer'[g], parsed'[g], Lost(g)')
             /\ \A i : Contains(fed'[g], i) <=> Contains(fed[g], i) \/ <<g, i>> \in ToSet(records)
             /\ Ends(fed'[g], LinesOf(records, g))
             /\ \A i \in Missing(g, fed'[g]) : i \in Lost(g)'
  <2>1. ParserInv(g, fed'[g], since'[g], buffer'[g], parsed'[g], Lost(g))
    BY <1>2, HandlerOfGateway
  <2>2. /\ Lost(g) \subseteq Lost(g)' /\ Lost(g)' \subseteq Lines(g)
        /\ \A i \in Missing(g, fed'[g]) : i \in Lost(g)'
    BY <1>2, HandlerLost
  <2>3. ParserInv(g, fed'[g], since'[g], buffer'[g], parsed'[g], Lost(g)')
    BY <2>1, <2>2, LostGrows
  <2> QED
    BY <1>2, <2>2, <2>3, HandlerFed
<1>4. ParsersInv'
  BY <1>3 DEF ParsersInv
<1>5. \A l \in Line : Fed(l)' <=> Fed(l) \/ l \in ToSet(records)
  <2>1. ASSUME NEW l \in Line
        PROVE  Fed(l)' <=> Fed(l) \/ l \in ToSet(records)
    <3>1. l[1] \in Gateway /\ l = <<l[1], l[2]>>
      BY PairOfLine
    <3>2. Contains(fed'[l[1]], l[2]) <=> Contains(fed[l[1]], l[2]) \/ <<l[1], l[2]>> \in ToSet(records)
      BY <1>3, <3>1
    <3> QED
      BY <3>1, <3>2 DEF Fed
  <2> QED
    BY <2>1
<1>6. ToSet(records) \subseteq Line /\ \A l \in ToSet(records) : l \in passed
  <2>1. records \in Seq(Line)
    BY <1>2 DEF Fresh
  <2> QED
    BY <1>2, <2>1, ElementsOf DEF Fresh
<1>7. StreamInv'
  <2>1. \A l \in ToSet(stream') : l \in Line /\ l \in passed /\ ~Fed(l) /\ l \notin ToSet(records)
    <3>1. ToSet(stream') \subseteq Line
      BY <1>1, ElementsOf
    <3> QED
      BY <1>1, <3>1 DEF IInv, StreamInv, records
  <2>2. \A l \in ToSet(stream') : ~Fed(l)'
    BY <1>5, <2>1
  <2>3. ASSUME NEW g \in Gateway, NEW i \in Lines(g), Fed(<<g, i>>)'
        PROVE  <<g, i>> \in passed
    <3>1. <<g, i>> \in Line
      BY LineMembers
    <3>2. Fed(<<g, i>>) \/ <<g, i>> \in ToSet(records)
      BY <1>5, <2>3, <3>1
    <3> QED
      BY <1>6, <3>2 DEF IInv, StreamInv
  <2> QED
    BY <1>1, <1>6, <2>1, <2>2, <2>3 DEF StreamInv, records, Lines
<1>8. PhaseInv'
  BY <1>1, <1>3 DEF PhaseInv, records
<1>9. UpdatesInv'
  BY <1>1, <1>2, HandlerUpdates DEF UpdatesInv
<1>10. \A d \in disturbed' : /\ d \in Gateway \X (Nat \X {"missing", "late"})
                             /\ d[2][1] \in Lines(d[1]) /\ PassedUpTo(d[1], Of(d[1], d[2][1]))'
  <2>1. ASSUME NEW d \in disturbed
        PROVE  /\ d \in Gateway \X (Nat \X {"missing", "late"})
               /\ d[2][1] \in Lines(d[1]) /\ PassedUpTo(d[1], Of(d[1], d[2][1]))'
    <3>1. /\ d \in Gateway \X (Nat \X {"missing", "late"})
          /\ d[2][1] \in Lines(d[1]) /\ PassedUpTo(d[1], Of(d[1], d[2][1]))
      BY DEF IInv, TypeOK, DisturbedInv
    <3> QED
      BY <1>1, <3>1, PassedGrows
  <2>2. ASSUME NEW d \in disturbed' \ disturbed
        PROVE  /\ d \in Gateway \X (Nat \X {"missing", "late"})
               /\ d[2][1] \in Lines(d[1]) /\ PassedUpTo(d[1], Of(d[1], d[2][1]))'
    <3> DEFINE g == d[1]
               y == d[2][1]
               f == fed'[g]
    <3>1. d \in Gateway \X (Nat \X {"missing", "late"}) /\ y \in Missing(g, f) /\ y \in Lines(g)
      BY <1>2, HandlerDisturbs
    <3>2. g \in Gateway
      BY <3>1
    <3>3. f \in Seq(Lines(g))
      BY <1>3, <3>2, ParserTypes
    <3> HIDE DEF f, g, y
    <3>4. PICK p \in 1..Len(f) : y \in 1..f[p]
      BY <3>1, <3>2, <3>3, MissingIff
    <3>5. f[p] \in Lines(g) /\ Contains(f, f[p])
      BY <3>3, ElementOfSeq DEF Contains
    <3>6. <<g, f[p]>> \in passed
      <4>1. PICK x \in Lines(g) : x = f[p] /\ Contains(f, x)
        BY <3>5
      <4>2. Fed(<<g, x>>)'
        BY <4>1 DEF Fed, f
      <4>3. <<g, x>> \in passed'
        BY <1>7, <3>2, <4>1, <4>2 DEF StreamInv, Lines
      <4> QED
        BY <1>1, <4>1, <4>3
    <3>7. y <= f[p]
      BY <3>4, <3>5, LineTypes
    <3>8. PassedUpTo(g, Of(g, y))
      BY <3>1, <3>2, <3>5, <3>6, <3>7, PassedLine
    <3>9. PassedUpTo(g, Of(g, y))'
      BY <1>1, <3>8, PassedGrows
    <3> QED
      BY <3>1, <3>9 DEF g, y
  <2> QED
    BY <2>1, <2>2
<1>11. DisturbedInv'
  BY <1>3, <1>10 DEF DisturbedInv, Lines, Of
<1>12. TypeOK'
  <2>1. batch' \in Seq(Line)
    BY <1>1 DEF Fresh
  <2>2. \A g \in Gateway : /\ buffer'[g] \in Seq(Nat) /\ fed'[g] \in Seq(Nat)
                           /\ since'[g] \in 0..Len(fed'[g]) /\ parsed'[g] \in SUBSET Nat
    BY <1>3, ParserTypes
  <2>3. /\ buffer' = [g \in Gateway |-> buffer'[g]] /\ fed' = [g \in Gateway |-> fed'[g]]
        /\ parsed' = [g \in Gateway |-> parsed'[g]]
    BY <1>2 DEF handler
  <2>4. /\ buffer' \in [Gateway -> Seq(Nat)] /\ fed' \in [Gateway -> Seq(Nat)]
        /\ parsed' \in [Gateway -> SUBSET Nat]
    BY <2>2, <2>3
  <2>5. \A u \in updates' : /\ u \in Update /\ u.of \in 1..Len(Script[u.gateway])
                            /\ SectionOf(u) \in Section
    BY <1>1, <1>2, HandlerUpdates
  <2>6. disturbed' \subseteq Gateway \X (Nat \X {"missing", "late"})
    BY <1>10
  <2>7. passed \subseteq Line /\ shown \in [Key -> Nat] /\ faults \in 0..MaxFaults
    BY DEF IInv, TypeOK
  <2> QED
    BY <1>1, <2>1, <2>2, <2>4, <2>5, <2>6, <2>7 DEF TypeOK, SectionOf
<1> QED
  BY <1>4, <1>7, <1>8, <1>9, <1>11, <1>12 DEF IInv

-----------------------------------------------------------------------------
(* New parsers.                                                            *)

\* The lines that the parsers of gateway g keep in mind: all but those of the
\* batch.
LEMMA NewParsersFed ==
    ASSUME IInv, phase # "failed", NewParsers, NEW g \in Gateway
    PROVE  /\ fed'[g] \in Seq(Lines(g)) /\ Begins(fed'[g], fed[g])
           /\ \A i : Contains(fed'[g], i) => Contains(fed[g], i)
           /\ \A i : <<g, i>> \in ToSet(batch) => ~Contains(fed'[g], i)
           /\ \A j \in (Len(fed'[g]) + 1)..Len(fed[g]) : <<g, fed[g][j]>> \in ToSet(batch)
<1> DEFINE f == fed[g]
           t == LinesOf(batch, g)
           f2 == SubSeq(f, 1, Len(f) - Len(t))
<1>1. fed'[g] = f2
  BY DEF NewParsers
<1>2. f \in Seq(Lines(g)) /\ Once(f)
  BY ParserTypes DEF IInv, ParsersInv
<1>3. /\ t \in Seq(Lines(g))
      /\ \A i : (\E j \in 1..Len(t) : t[j] = i) <=> <<g, i>> \in ToSet(batch)
  BY LinesOfBatch DEF IInv, TypeOK
<1>4. Ends(f, t)
  BY DEF IInv, PhaseInv
<1> HIDE DEF f, t
<1>5. /\ Len(f) \in Nat /\ Len(t) \in Nat /\ Len(t) <= Len(f)
      /\ \A j \in 1..Len(t) : f[Len(f) - Len(t) + j] = t[j]
  BY <1>2, <1>3, <1>4, LenProperties DEF Ends
<1>6. /\ f2 \in Seq(Lines(g)) /\ Len(f2) = Len(f) - Len(t)
      /\ \A p \in 1..Len(f2) : f2[p] = f[p]
      /\ Begins(f2, f)
  <2>1. Len(f) - Len(t) \in Nat /\ Len(f) - Len(t) <= Len(f)
    BY <1>5
  <2> QED
    BY <1>2, <2>1, FirstLines
<1> HIDE DEF f2
<1>7. ASSUME NEW i, Contains(f2, i)
      PROVE  Contains(f, i) /\ <<g, i>> \notin ToSet(batch)
  <2>1. PICK p \in 1..Len(f2) : f2[p] = i
    BY <1>7 DEF Contains
  <2>2. p \in 1..Len(f) /\ f[p] = i
    BY <1>5, <1>6, <2>1
  <2>3. ASSUME NEW j \in 1..Len(t), t[j] = i
        PROVE  FALSE
    <3>1. Len(f) - Len(t) + j \in 1..Len(f) /\ Len(f) - Len(t) + j # p
      BY <1>5, <1>6, <2>1
    <3>2. f[Len(f) - Len(t) + j] = i
      BY <1>5, <2>3
    <3> QED
      BY <1>2, <2>2, <3>1, <3>2 DEF Once
  <2> QED
    BY <1>3, <2>2, <2>3 DEF Contains
<1>8. ASSUME NEW j \in (Len(f2) + 1)..Len(f)
      PROVE  <<g, f[j]>> \in ToSet(batch)
  <2>1. j - Len(f2) \in 1..Len(t) /\ Len(f) - Len(t) + (j - Len(f2)) = j
    BY <1>5, <1>6
  <2>2. f[j] = t[j - Len(f2)]
    BY <1>5, <2>1
  <2> QED
    BY <1>3, <2>1, <2>2
<1> QED
  BY <1>1, <1>6, <1>7, <1>8 DEF f

\* The lines that are lost with the old parsers.
LEMMA NewParsersLost ==
    ASSUME IInv, phase # "failed", NewParsers
    PROVE  /\ disturbed \subseteq disturbed'
           /\ \A d \in disturbed' \ disturbed :
                 /\ d \in Gateway \X (Nat \X {"missing", "late"})
                 /\ d[2][1] \in Lines(d[1]) /\ Contains(fed'[d[1]], d[2][1])
           /\ \A g \in Gateway : \A i :
                 Contains(fed'[g], i) /\ Known(g, Of(g, i)) /\ Of(g, i) \notin parsed'[g] =>
                    <<g, <<i, "missing">>>> \in disturbed'
<1>1. PICK h, found : h = fed' /\ found = parsed'
  OBVIOUS
<1> DEFINE Gone(g) == {i \in ToSet(h[g]) : Known(g, Of(g, i)) /\ Of(g, i) \notin found[g]}
           New(g) == {<<g, <<i, "missing">>>> : i \in Gone(g)}
<1>2. disturbed' = disturbed \cup UNION {New(g) : g \in Gateway}
  BY <1>1 DEF NewParsers, Of
<1>3. \A g \in Gateway : \A i :
         /\ i \in ToSet(h[g]) <=> Contains(h[g], i)
         /\ Contains(h[g], i) => i \in Lines(g)
  <2>1. ASSUME NEW g \in Gateway, NEW i
        PROVE  /\ i \in ToSet(h[g]) <=> Contains(h[g], i)
               /\ Contains(h[g], i) => i \in Lines(g)
    <3>1. h[g] \in Seq(Lines(g))
      BY <1>1, NewParsersFed
    <3> QED
      BY <3>1, ElementsOf DEF Contains
  <2> QED
    BY <2>1
<1>4. \A g \in Gateway : \A i : i \in Gone(g) <=>
         i \in ToSet(h[g]) /\ Known(g, Of(g, i)) /\ Of(g, i) \notin found[g]
  OBVIOUS
<1>5. \A g \in Gateway : \A d : d \in New(g) <=> \E i \in Gone(g) : d = <<g, <<i, "missing">>>>
  OBVIOUS
<1> HIDE DEF Gone, New
<1>6. ASSUME NEW d \in disturbed' \ disturbed
      PROVE  /\ d \in Gateway \X (Nat \X {"missing", "late"})
             /\ d[2][1] \in Lines(d[1]) /\ Contains(h[d[1]], d[2][1])
  <2>1. PICK g \in Gateway : d \in New(g)
    BY <1>2
  <2>2. PICK i : i \in Gone(g) /\ d = <<g, <<i, "missing">>>>
    BY <1>5, <2>1
  <2>3. Contains(h[g], i)
    BY <1>3, <1>4, <2>2
  <2>4. i \in Lines(g)
    BY <1>3, <2>3
  <2>5. i \in Nat
    BY <2>4, LineTypes
  <2>6. d[1] = g /\ d[2] = <<i, "missing">> /\ d[2][1] = i
    BY <2>2
  <2>7. d \in Gateway \X (Nat \X {"missing", "late"})
    BY <2>2, <2>5
  <2> QED
    BY <2>3, <2>4, <2>6, <2>7
<1>7. ASSUME NEW g \in Gateway, NEW i, Contains(h[g], i), Known(g, Of(g, i)),
             Of(g, i) \notin found[g]
      PROVE  <<g, <<i, "missing">>>> \in disturbed'
  <2>1. i \in ToSet(h[g])
    BY <1>3, <1>7
  <2>2. i \in Gone(g)
    BY <1>4, <1>7, <2>1
  <2>3. <<g, <<i, "missing">>>> \in New(g)
    BY <1>5, <2>2
  <2> QED
    BY <1>2, <2>3
<1> QED
  BY <1>1, <1>2, <1>6, <1>7

\* What new parsers keep of the invariant, when the requests of the batch are
\* gone.
LEMMA NewParsersPreserve ==
    ASSUME IInv, phase # "failed", NewParsers,
           UNCHANGED <<passed, stream, batch, shown>>, updates' = {},
           phase' \in {"idle", "failed"}, phase' = "idle" => phase = "idle", faults' \in 0..MaxFaults
    PROVE  IInv'
<1>1. ASSUME NEW g \in Gateway
      PROVE  /\ fed'[g] \in Seq(Lines(g)) /\ Begins(fed'[g], fed[g])
             /\ \A i : Contains(fed'[g], i) => Contains(fed[g], i)
             /\ \A i : <<g, i>> \in ToSet(batch) => ~Contains(fed'[g], i)
             /\ \A j \in (Len(fed'[g]) + 1)..Len(fed[g]) : <<g, fed[g][j]>> \in ToSet(batch)
  BY NewParsersFed
<1>2. /\ disturbed \subseteq disturbed'
      /\ \A d \in disturbed' \ disturbed :
            /\ d \in Gateway \X (Nat \X {"missing", "late"})
            /\ d[2][1] \in Lines(d[1]) /\ Contains(fed'[d[1]], d[2][1])
      /\ \A g \in Gateway : \A i :
            Contains(fed'[g], i) /\ Known(g, Of(g, i)) /\ Of(g, i) \notin parsed'[g] =>
               <<g, <<i, "missing">>>> \in disturbed'
  BY NewParsersLost
<1>3. /\ buffer' = [g \in Gateway |-> <<>>]
      /\ fed' = [g \in Gateway |-> fed'[g]]
      /\ since' = [g \in Gateway |-> Len(fed'[g])]
      /\ parsed' = [g \in Gateway |-> {m \in parsed[g] : ~InBatch(g, m)}]
  BY DEF NewParsers
<1>4. ASSUME NEW g \in Gateway
      PROVE  /\ Lost(g) \subseteq Lost(g)' /\ Lost(g)' \subseteq Lines(g)
             /\ \A i : Contains(fed'[g], i) /\ Known(g, Of(g, i)) /\ Of(g, i) \notin parsed'[g] =>
                   i \in Lost(g)'
  <2>1. \A i : i \in Lost(g)' <=> i \in Lines(g) /\ \E d \in disturbed' : d[1] = g /\ d[2][1] = i
    BY DEF Lost, Lines
  <2>2. \A i : i \in Lost(g) <=> i \in Lines(g) /\ \E d \in disturbed : d[1] = g /\ d[2][1] = i
    BY DEF Lost
  <2>3. Lost(g) \subseteq Lost(g)' /\ Lost(g)' \subseteq Lines(g)
    BY <1>2, <2>1, <2>2
  <2>4. ASSUME NEW i, Contains(fed'[g], i), Known(g, Of(g, i)), Of(g, i) \notin parsed'[g]
        PROVE  i \in Lost(g)'
    <3>1. i \in Lines(g)
      BY <1>1, <2>4, ElementOfSeq DEF Contains
    <3>2. <<g, <<i, "missing">>>> \in disturbed'
      BY <1>2, <2>4
    <3>3. <<g, <<i, "missing">>>>[1] = g /\ <<g, <<i, "missing">>>>[2][1] = i
      OBVIOUS
    <3> QED
      BY <2>1, <3>1, <3>2, <3>3
  <2> QED
    BY <2>3, <2>4
<1>5. ASSUME NEW g \in Gateway
      PROVE  ParserInv(g, fed'[g], since'[g], buffer'[g], parsed'[g], Lost(g)')
  <2>1. ParserInv(g, fed[g], since[g], buffer[g], parsed[g], Lost(g))
    BY DEF IInv, ParsersInv
  <2>2. parsed'[g] \subseteq parsed[g] /\ \A m \in parsed'[g] : ~InBatch(g, m)
    BY <1>3
  <2>3. ASSUME NEW m \in parsed'[g], NEW j \in (Len(fed'[g]) + 1)..Len(fed[g])
        PROVE  Of(g, fed[g][j]) # m
    <3>1. <<g, fed[g][j]>> \in ToSet(batch)
      BY <1>1
    <3>2. InBatch(g, Of(g, fed[g][j]))
      BY <3>1 DEF InBatch, Of
    <3> QED
      BY <2>2, <3>2
  <2>4. ParserInv(g, fed'[g], Len(fed'[g]), <<>>, parsed'[g], Lost(g)')
    BY <1>1, <1>4, <2>1, <2>2, <2>3, NewParserHolds
  <2>5. since'[g] = Len(fed'[g]) /\ buffer'[g] = <<>>
    BY <1>3
  <2> QED
    BY <2>4, <2>5
<1>6. ParsersInv'
  BY <1>5 DEF ParsersInv
<1>7. \A l \in Line : Fed(l)' => Fed(l)
  BY <1>1, PairOfLine DEF Fed
<1>8. StreamInv'
  <2>1. \A l \in ToSet(stream) : l \in Line
    BY ElementsOf DEF IInv, TypeOK
  <2>2. \A g \in Gateway : \A i \in Lines(g) : <<g, i>> \in Line
    BY LineMembers
  <2>3. /\ \A l \in ToSet(stream) \cup ToSet(batch) : l \in passed
        /\ \A g \in Gateway : \A i \in Lines(g) : Fed(<<g, i>>) => <<g, i>> \in passed
        /\ Once(stream) /\ Once(batch)
        /\ \A l \in ToSet(stream) : l \notin ToSet(batch) /\ ~Fed(l)
    BY DEF IInv, StreamInv
  <2>4. \A l \in ToSet(stream) : ~Fed(l)'
    BY <1>7, <2>1, <2>3
  <2>5. \A g \in Gateway : \A i \in Lines(g) : Fed(<<g, i>>)' => <<g, i>> \in passed
    BY <1>7, <2>2, <2>3
  <2>6. /\ stream' = stream /\ batch' = batch /\ passed' = passed
    OBVIOUS
  <2> QED
    BY <2>3, <2>4, <2>5, <2>6 DEF StreamInv, Lines
<1>9. PhaseInv'
  <2>1. \A l \in ToSet(batch) : ~Fed(l)'
    <3>1. ASSUME NEW l \in ToSet(batch)
          PROVE  ~Fed(l)'
      <4>1. l \in Line
        BY ElementsOf DEF IInv, TypeOK
      <4>2. l[1] \in Gateway /\ l = <<l[1], l[2]>>
        BY <4>1, PairOfLine
      <4>3. ~Contains(fed'[l[1]], l[2])
        BY <1>1, <4>2
      <4> QED
        BY <4>3 DEF Fed
    <3> QED
      BY <3>1
  <2>2. ASSUME phase' = "idle"
        PROVE  batch' = <<>> /\ \A g \in Gateway : Ends(fed'[g], LinesOf(batch', g))
    <3>1. batch' = <<>>
      BY <2>2 DEF IInv, PhaseInv
    <3>2. \A g \in Gateway : Len(LinesOf(<<>>, g)) = 0 /\ Len(fed'[g]) \in Nat
      BY <1>1, NoLines, LenProperties
    <3>3. \A g \in Gateway : Ends(fed'[g], LinesOf(<<>>, g))
      BY <3>2 DEF Ends
    <3> QED
      BY <3>1, <3>3
  <2> QED
    BY <2>1, <2>2 DEF PhaseInv
<1>10. UpdatesInv'
  BY DEF UpdatesInv
<1>11. \A d \in disturbed' : /\ d \in Gateway \X (Nat \X {"missing", "late"})
                             /\ d[2][1] \in Lines(d[1]) /\ PassedUpTo(d[1], Of(d[1], d[2][1]))'
  <2>1. \A g, m : PassedUpTo(g, m) => PassedUpTo(g, m)'
    BY PassedGrows
  <2>2. ASSUME NEW d \in disturbed
        PROVE  /\ d \in Gateway \X (Nat \X {"missing", "late"})
               /\ d[2][1] \in Lines(d[1]) /\ PassedUpTo(d[1], Of(d[1], d[2][1]))'
    BY <2>1 DEF IInv, TypeOK, DisturbedInv
  <2>3. ASSUME NEW d \in disturbed' \ disturbed
        PROVE  /\ d \in Gateway \X (Nat \X {"missing", "late"})
               /\ d[2][1] \in Lines(d[1]) /\ PassedUpTo(d[1], Of(d[1], d[2][1]))'
    <3>1. /\ d \in Gateway \X (Nat \X {"missing", "late"}) /\ d[1] \in Gateway
          /\ d[2][1] \in Lines(d[1]) /\ Contains(fed'[d[1]], d[2][1])
      BY <1>2
    <3>2. Fed(<<d[1], d[2][1]>>)
      BY <1>1, <3>1 DEF Fed
    <3>3. <<d[1], d[2][1]>> \in passed
      BY <3>1, <3>2 DEF IInv, StreamInv
    <3>4. d[2][1] <= d[2][1]
      BY <3>1, LineTypes
    <3>5. PassedUpTo(d[1], Of(d[1], d[2][1]))
      BY <3>1, <3>3, <3>4, PassedLine
    <3> QED
      BY <2>1, <3>1, <3>5
  <2> QED
    BY <2>2, <2>3
<1>12. DisturbedInv'
  <2>1. ASSUME NEW g \in Gateway, NEW i \in Missing(g, fed'[g])
        PROVE  i \in Lost(g)'
    <3>1. fed[g] \in Seq(Lines(g))
      BY ParserTypes DEF IInv, ParsersInv
    <3>2. i \in Missing(g, fed[g])
      BY <1>1, <2>1, <3>1, MissingGrows
    <3>3. i \in Lost(g)
      BY <3>2 DEF IInv, DisturbedInv
    <3> QED
      BY <1>4, <3>3
  <2> QED
    BY <1>11, <2>1 DEF DisturbedInv, Lines, Of
<1>13. TypeOK'
  <2>1. \A g \in Gateway : /\ buffer'[g] \in Seq(Nat) /\ fed'[g] \in Seq(Nat)
                           /\ since'[g] \in 0..Len(fed'[g]) /\ parsed'[g] \in SUBSET Nat
    BY <1>5, ParserTypes
  <2>2. /\ buffer' = [g \in Gateway |-> buffer'[g]] /\ parsed' = [g \in Gateway |-> parsed'[g]]
    BY <1>3
  <2>3. /\ buffer' \in [Gateway -> Seq(Nat)] /\ fed' \in [Gateway -> Seq(Nat)]
        /\ parsed' \in [Gateway -> SUBSET Nat]
    BY <1>3, <2>1, <2>2
  <2>4. disturbed' \subseteq Gateway \X (Nat \X {"missing", "late"})
    BY <1>11
  <2>5. passed \subseteq Line /\ shown \in [Key -> Nat] /\ stream \in Seq(Line) /\ batch \in Seq(Line)
    BY DEF IInv, TypeOK
  <2>6. phase' \in {"idle", "running", "failed"}
    OBVIOUS
  <2> QED
    BY <2>1, <2>3, <2>4, <2>5, <2>6 DEF TypeOK
<1> QED
  BY <1>6, <1>8, <1>9, <1>10, <1>12, <1>13 DEF IInv

-----------------------------------------------------------------------------
(* The other actions.                                                      *)

LEMMA FaultTypes ==
    ASSUME IInv, Fault
    PROVE  faults' \in 0..MaxFaults
<1>1. faults \in 0..MaxFaults /\ MaxFaults \in Nat
  BY BoundsAssumption DEF IInv, TypeOK
<1> QED
  BY <1>1 DEF Fault

\* What stays as it is when no parser changes.
LEMMA ParsersStay ==
    ASSUME IInv, UNCHANGED <<parserVars, disturbed>>, passed \subseteq passed'
    PROVE  /\ ParsersInv' /\ DisturbedInv'
           /\ \A l : Fed(l)' <=> Fed(l)
           /\ \A u : Justified(u) => Justified(u)'
<1>1. buffer' = buffer /\ fed' = fed /\ since' = since /\ parsed' = parsed /\ disturbed' = disturbed
  BY DEF parserVars
<1>2. \A g : Lost(g)' = Lost(g)
  BY <1>1 DEF Lost, Lines
<1>3. \A g, m : PassedUpTo(g, m) => PassedUpTo(g, m)'
  BY PassedGrows
<1>4. ParsersInv'
  <2>1. ASSUME NEW g \in Gateway
        PROVE  ParserInv(g, fed'[g], since'[g], buffer'[g], parsed'[g], Lost(g)')
    <3>1. ParserInv(g, fed[g], since[g], buffer[g], parsed[g], Lost(g))
      BY DEF IInv, ParsersInv
    <3> QED
      BY <1>1, <1>2, <3>1
  <2> QED
    BY <2>1 DEF ParsersInv
<1>5. DisturbedInv'
  <2>1. /\ \A d \in disturbed : d[2][1] \in Lines(d[1]) /\ PassedUpTo(d[1], Of(d[1], d[2][1]))
        /\ \A g \in Gateway : \A i \in Missing(g, fed[g]) : i \in Lost(g)
    BY DEF IInv, DisturbedInv
  <2>2. \A d \in disturbed' : d[2][1] \in Lines(d[1]) /\ PassedUpTo(d[1], Of(d[1], d[2][1]))'
    BY <1>1, <1>3, <2>1
  <2>3. \A g \in Gateway : \A i \in Missing(g, fed'[g]) : i \in Lost(g)'
    BY <1>1, <1>2, <2>1
  <2> QED
    BY <2>2, <2>3 DEF DisturbedInv, Lines, Of
<1>6. \A l : Fed(l)' <=> Fed(l)
  BY <1>1 DEF Fed
<1>7. ASSUME NEW u, Justified(u)
      PROVE  Justified(u)'
  <2>1. PassedUpTo(u.gateway, u.of)'
    BY <1>3, <1>7 DEF Justified
  <2>2. CASE u.node = Script[u.gateway][u.of].node
    BY <2>1, <2>2 DEF Justified
  <2>3. ASSUME NEW k \in Messages(u.gateway), NEW i \in Lost(u.gateway),
               u.node = Script[u.gateway][k].node, PassedUpTo(u.gateway, k),
               Of(u.gateway, i) <= u.of, Of(u.gateway, i) <= k
        PROVE  Justified(u)'
    <3>1. i \in Lost(u.gateway)' /\ PassedUpTo(u.gateway, k)'
      BY <1>2, <1>3, <2>3
    <3> QED
      BY <2>1, <2>3, <3>1 DEF Justified, Messages, Of
  <2> QED
    BY <1>7, <2>2, <2>3 DEF Justified
<1> QED
  BY <1>4, <1>5, <1>6, <1>7

\* A line more went to the stream, or was lost.
LEMMA PublishKeeps ==
    ASSUME IInv, NEW l \in Line, l \notin passed, passed' = passed \cup {l},
           stream' = stream \/ stream' = Append(stream, l), faults' \in 0..MaxFaults,
           UNCHANGED <<batch, phase, parserVars, updates, shown, disturbed>>
    PROVE  IInv'
<1>1. /\ passed \subseteq Line /\ stream \in Seq(Line) /\ batch \in Seq(Line)
      /\ \A x \in ToSet(stream) \cup ToSet(batch) : x \in passed
      /\ \A g \in Gateway : \A i \in Lines(g) : Fed(<<g, i>>) => <<g, i>> \in passed
      /\ Once(stream) /\ Once(batch)
      /\ \A x \in ToSet(stream) : x \notin ToSet(batch) /\ ~Fed(x)
  BY DEF IInv, TypeOK, StreamInv
<1>2. /\ batch' = batch /\ phase' = phase /\ updates' = updates /\ shown' = shown
      /\ buffer' = buffer /\ fed' = fed /\ since' = since /\ parsed' = parsed
      /\ disturbed' = disturbed
  BY DEF parserVars
<1>3. /\ ParsersInv' /\ DisturbedInv'
      /\ \A x : Fed(x)' <=> Fed(x)
      /\ \A u : Justified(u) => Justified(u)'
  BY <1>2, ParsersStay DEF parserVars
<1>4. l \notin ToSet(stream) /\ l \notin ToSet(batch) /\ ~Fed(l)
  <2>1. ~Fed(l)
    BY <1>1, PairOfLine
  <2> QED
    BY <1>1, <2>1
<1>5. /\ stream' \in Seq(Line) /\ Once(stream')
      /\ \A x \in ToSet(stream') : x = l \/ x \in ToSet(stream)
  <2>1. CASE stream' = stream
    BY <1>1, <2>1
  <2>2. CASE stream' = Append(stream, l)
    <3>1. stream' \in Seq(Line) /\ ToSet(stream') = ToSet(stream) \cup {l}
      BY <1>1, <2>2, ElementsOfAppend
    <3>2. /\ Len(stream) \in Nat /\ Len(stream') = Len(stream) + 1
          /\ \A p \in 1..(Len(stream) + 1) :
                stream'[p] = IF p = Len(stream) + 1 THEN l ELSE stream[p]
      <4>1. Len(stream) \in Nat
        BY <1>1, LenProperties
      <4> QED
        BY <1>1, <2>2, <4>1, AppendProperties
    <3>3. \A p \in 1..Len(stream) : stream[p] # l
      BY <1>1, <1>4, ElementsOf
    <3>4. ASSUME NEW x \in 1..Len(stream'), NEW y \in 1..Len(stream'), stream'[x] = stream'[y]
          PROVE  x = y
      <4>1. CASE x \in 1..Len(stream) /\ y \in 1..Len(stream)
        <5>1. stream[x] = stream[y]
          BY <3>2, <3>4, <4>1
        <5> QED
          BY <1>1, <4>1, <5>1 DEF Once
      <4>2. CASE x \in 1..Len(stream) /\ y = Len(stream) + 1
        BY <3>2, <3>3, <3>4, <4>2
      <4>3. CASE x = Len(stream) + 1 /\ y \in 1..Len(stream)
        BY <3>2, <3>3, <3>4, <4>3
      <4> QED
        BY <3>2, <4>1, <4>2, <4>3
    <3>5. Once(stream')
      BY <3>4 DEF Once
    <3> QED
      BY <3>1, <3>5
  <2> QED
    BY <2>1, <2>2
<1>6. StreamInv'
  <2>1. \A x \in ToSet(stream') \cup ToSet(batch) : x \in passed'
    BY <1>1, <1>5
  <2>2. \A g \in Gateway : \A i \in Lines(g) : Fed(<<g, i>>)' => <<g, i>> \in passed'
    BY <1>1, <1>3
  <2>3. \A x \in ToSet(stream') : x \notin ToSet(batch) /\ ~Fed(x)'
    BY <1>1, <1>3, <1>4, <1>5
  <2> QED
    BY <1>1, <1>2, <1>5, <2>1, <2>2, <2>3 DEF StreamInv, Lines
<1>7. PhaseInv'
  <2>1. PhaseInv
    BY DEF IInv
  <2>2. /\ phase = "idle" => batch = <<>>
        /\ phase # "running" => updates = {} /\ \A x \in ToSet(batch) : ~Fed(x)
        /\ phase # "failed" => \A g \in Gateway : Ends(fed[g], LinesOf(batch, g))
    BY <2>1 DEF PhaseInv
  <2>3. \A x \in ToSet(batch) : ~Fed(x) => ~Fed(x)'
    BY <1>3
  <2> QED
    BY <1>2, <2>2, <2>3 DEF PhaseInv
<1>8. UpdatesInv'
  BY <1>2, <1>3 DEF IInv, UpdatesInv
<1>9. TypeOK'
  <2>1. passed' \subseteq Line
    BY <1>1
  <2> QED
    BY <1>2, <1>5, <2>1 DEF IInv, TypeOK, SectionOf
<1> QED
  BY <1>3, <1>6, <1>7, <1>8, <1>9 DEF IInv

LEMMA PutKeeps ==
    ASSUME IInv, NEW l \in Line, Put(l)
    PROVE  IInv'
<1>1. faults' \in 0..MaxFaults
  <2>1. CASE Before(l) = {}
    BY <2>1 DEF Put, IInv, TypeOK
  <2>2. CASE Before(l) # {}
    BY <2>2, FaultTypes DEF Put
  <2> QED
    BY <2>1, <2>2
<1> QED
  BY <1>1, PublishKeeps DEF Put, OnWire

LEMMA LoseKeeps ==
    ASSUME IInv, NEW l \in Line, Lose(l)
    PROVE  IInv'
<1>1. faults' \in 0..MaxFaults
  BY FaultTypes DEF Lose
<1> QED
  BY <1>1, PublishKeeps DEF Lose, OnWire

\* Fewer updates are on their way, or the invocation ends.
LEMMA AnswerKeeps ==
    ASSUME IInv, UNCHANGED <<passed, stream, parserVars, disturbed, faults>>,
           updates' \subseteq updates, shown' \in [Key -> Nat],
           \/ UNCHANGED <<batch, phase>>
           \/ phase' = "idle" /\ batch' = <<>> /\ updates = {}
    PROVE  IInv'
<1>1. /\ passed' = passed /\ stream' = stream /\ disturbed' = disturbed /\ faults' = faults
      /\ buffer' = buffer /\ fed' = fed /\ since' = since /\ parsed' = parsed
  BY DEF parserVars
<1>2. /\ ParsersInv' /\ DisturbedInv'
      /\ \A x : Fed(x)' <=> Fed(x)
      /\ \A u : Justified(u) => Justified(u)'
  BY <1>1, ParsersStay
<1>3. /\ batch' \in Seq(Line) /\ Once(batch')
      /\ \A x \in ToSet(batch') : x \in ToSet(batch)
      /\ phase' \in {"idle", "running", "failed"}
  <2>1. batch \in Seq(Line) /\ Once(batch) /\ phase \in {"idle", "running", "failed"}
    BY DEF IInv, TypeOK, StreamInv
  <2>2. CASE UNCHANGED <<batch, phase>>
    BY <2>1, <2>2
  <2>3. CASE phase' = "idle" /\ batch' = <<>>
    BY <2>3, EmptySeq, ElementsOfEmpty DEF Once
  <2> QED
    BY <2>2, <2>3
<1>4. StreamInv'
  <2>1. /\ \A x \in ToSet(stream) \cup ToSet(batch) : x \in passed
        /\ \A g \in Gateway : \A i \in Lines(g) : Fed(<<g, i>>) => <<g, i>> \in passed
        /\ Once(stream)
        /\ \A x \in ToSet(stream) : x \notin ToSet(batch) /\ ~Fed(x)
    BY DEF IInv, StreamInv
  <2>2. \A x \in ToSet(stream) \cup ToSet(batch') : x \in passed
    BY <1>3, <2>1
  <2>3. \A g \in Gateway : \A i \in Lines(g) : Fed(<<g, i>>)' => <<g, i>> \in passed
    BY <1>2, <2>1
  <2>4. \A x \in ToSet(stream) : x \notin ToSet(batch') /\ ~Fed(x)'
    BY <1>2, <1>3, <2>1
  <2> QED
    BY <1>1, <1>3, <2>1, <2>2, <2>3, <2>4 DEF StreamInv, Lines
<1>5. PhaseInv'
  <2>1. /\ phase = "idle" => batch = <<>>
        /\ phase # "running" => updates = {} /\ \A x \in ToSet(batch) : ~Fed(x)
        /\ phase # "failed" => \A g \in Gateway : Ends(fed[g], LinesOf(batch, g))
    BY DEF IInv, PhaseInv
  <2>2. \A x : ~Fed(x) => ~Fed(x)'
    BY <1>2
  <2>3. CASE UNCHANGED <<batch, phase>>
    BY <1>1, <2>1, <2>2, <2>3 DEF PhaseInv
  <2>4. CASE phase' = "idle" /\ batch' = <<>> /\ updates = {}
    <3>1. ASSUME NEW g \in Gateway
          PROVE  Ends(fed[g], LinesOf(<<>>, g))
      <4>1. Len(LinesOf(<<>>, g)) = 0
        BY NoLines
      <4>2. Len(fed[g]) \in Nat
        BY ParserTypes DEF IInv, ParsersInv
      <4> QED
        BY <4>1, <4>2 DEF Ends
    <3> QED
      BY <1>1, <2>4, <3>1, ElementsOfEmpty DEF PhaseInv
  <2> QED
    BY <2>3, <2>4
<1>6. UpdatesInv'
  BY <1>2 DEF IInv, UpdatesInv
<1>7. TypeOK'
  BY <1>1, <1>3 DEF IInv, TypeOK, SectionOf
<1> QED
  BY <1>2, <1>4, <1>5, <1>6, <1>7 DEF IInv

LEMMA ApplyKeeps ==
    ASSUME IInv, NEW u \in updates, Apply(u)
    PROVE  IInv'
<1>1. u.of \in Nat /\ shown \in [Key -> Nat]
  BY DEF IInv, TypeOK, Update
<1>2. shown' \in [Key -> Nat]
  BY <1>1 DEF Apply
<1> QED
  BY <1>2, AnswerKeeps DEF Apply

LEMMA FinishKeeps ==
    ASSUME IInv, Finish
    PROVE  IInv'
<1>1. shown' \in [Key -> Nat]
  BY DEF Finish, IInv, TypeOK
<1> QED
  BY <1>1, AnswerKeeps DEF Finish

LEMMA FailKeeps ==
    ASSUME IInv, NEW u \in updates, Fail(u)
    PROVE  IInv'
<1>1. phase = "running"
  BY DEF IInv, PhaseInv
<1>2. faults' \in 0..MaxFaults
  BY FaultTypes DEF Fail
<1> QED
  BY <1>1, <1>2, NewParsersPreserve DEF Fail

LEMMA RecycleKeeps ==
    ASSUME IInv, Recycle
    PROVE  IInv'
<1>1. phase = "idle" /\ updates = {}
  BY DEF Recycle, IInv, PhaseInv
<1>2. faults' \in 0..MaxFaults
  BY FaultTypes DEF Recycle
<1> QED
  BY <1>1, <1>2, NewParsersPreserve DEF Recycle

LEMMA StutterKeeps ==
    ASSUME IInv, UNCHANGED vars
    PROVE  IInv'
<1>1. shown' \in [Key -> Nat]
  BY DEF vars, IInv, TypeOK
<1> QED
  BY <1>1, AnswerKeeps DEF vars

\* The invariant holds in every state.
THEOREM Invariance == Spec => []IInv
<1>1. IInv /\ [Next]_vars => IInv'
  <2> SUFFICES ASSUME IInv, [Next]_vars
               PROVE  IInv'
    OBVIOUS
  <2>1. ASSUME NEW l \in Line, Put(l)
        PROVE  IInv'
    BY <2>1, PutKeeps
  <2>2. ASSUME NEW l \in Line, Lose(l)
        PROVE  IInv'
    BY <2>2, LoseKeeps
  <2>3. ASSUME NEW u \in updates, Apply(u)
        PROVE  IInv'
    BY <2>3, ApplyKeeps
  <2>4. ASSUME NEW u \in updates, Fail(u)
        PROVE  IInv'
    BY <2>4, FailKeeps
  <2> QED
    BY <2>1, <2>2, <2>3, <2>4, InvokeKeeps, FinishKeeps, RecycleKeeps, StutterKeeps DEF Next
<1> QED
  BY Initially, <1>1, PTL DEF Spec

-----------------------------------------------------------------------------
(* What the properties of NRPlusSink say follows from the invariant.       *)

\* The state of the sink is of its type in every state.
THEOREM SinkTypes == Spec => []TypeOK
<1>1. IInv => TypeOK
  BY DEF IInv
<1> QED
  BY <1>1, Invariance, PTL

\* StreamParser.add: a broken message that the parser still holds costs the
\* next message at most.
THEOREM RecoversAlways == Spec => []RecoversAtOnce
<1>1. IInv => RecoversAtOnce
  <2> SUFFICES ASSUME IInv
               PROVE  RecoversAtOnce
    OBVIOUS
  <2>1. \A g \in Gateway : Recovers(g, fed[g], since[g], parsed[g])
    BY DEF IInv, ParsersInv, ParserInv
  <2> QED
    BY <2>1 DEF Recovers, RecoversAtOnce
<1> QED
  BY <1>1, Invariance, PTL

\* parserInstance, parseSinkMessages: a message whose lines all came to the
\* parsers is found, unless a line up to its last was missed or lost before.
THEOREM UndisturbedAreFound == Spec => []FoundUnlessDisturbed
<1>1. IInv => FoundUnlessDisturbed
  <2> SUFFICES ASSUME IInv, NEW g \in Gateway, NEW m \in 1..Len(Script[g]),
                      Known(g, m), m \notin parsed[g],
                      \A i \in 1..Len(Console[g]) : Console[g][i].of = m => Contains(fed[g], i)
               PROVE  \E d \in disturbed : d[1] = g /\ Console[g][d[2][1]].of <= m
    BY DEF FoundUnlessDisturbed
  <2>1. InOrder(g, fed[g], buffer[g], parsed[g], Lost(g))
    BY DEF IInv, ParsersInv, ParserInv
  <2>2. m \in Messages(g) /\ \A i \in Lines(g) : Of(g, i) = m => Contains(fed[g], i)
    BY DEF Messages, Lines, Of
  <2>3. ~Clean(g, fed[g], Lost(g), m)
    BY <2>1, <2>2 DEF InOrder
  <2>4. PICK i \in Lost(g) \cup Missing(g, fed[g]) : Of(g, i) <= m
    BY <2>3 DEF Clean
  <2>5. i \in Lost(g)
    BY <2>4 DEF IInv, DisturbedInv
  <2>6. PICK d \in disturbed : d[1] = g /\ d[2][1] = i
    BY <2>5 DEF Lost
  <2> QED
    BY <2>4, <2>6 DEF Of
<1> QED
  BY <1>1, Invariance, PTL

-----------------------------------------------------------------------------
(* NoOldValueReturns: which messages were shown or are about to be, and    *)
(* what the parsers can still find.                                        *)

ValuePart(g, i) == Layout[KindOf(g, i)].value
IsValue(g, i) == Part(g, i) = ValuePart(g, i)

\* The messages whose values are shown or on their way.
Reported(g) ==
    {shown[k] : k \in {k \in Key : k[1] = g}} \cup {u.of : u \in {u \in updates : u.gateway = g}}

NotOlder(g, y, i, late) == i <= y \/ <<g, <<y, "late">>>> \in late

\* A line that was reported in the present batch, in an attempt that may have
\* failed, has the other lines of its message in the batch as well.
InPlace(g, i, records, f) ==
    IF <<g, i>> \in ToSet(records)
    THEN \E x \in [ValuePart(g, i)..Layout[KindOf(g, i)].length -> Lines(g)] :
            Completed(g, LinesOf(records, g), i, x)
    ELSE Contains(f, i)

\* The parser does not hold an older value.
BufferNotOlder(g, i, b, late) ==
    LET r == parseMessages(g, b, KindOf(g, i))
    IN  ValuePart(g, i) <= Len(r) => NotOlder(g, r[ValuePart(g, i)], i, late)

\* Nor does an update show one, but for those of the batch.
UpdatesNotOlder(g, i, us, records, late) ==
    <<g, i>> \notin ToSet(records) =>
        \A u \in us : \A y \in Lines(g) :
            /\ u.gateway = g /\ u.of = Of(g, y) /\ IsValue(g, y)
            /\ KindOf(g, y) = KindOf(g, i) /\ <<g, y>> \notin ToSet(records)
            => NotOlder(g, y, i, late)

ReportedInv(g, i) ==
    /\ IsDefined(KindOf(g, i)) /\ InPlace(g, i, batch, fed[g])
    /\ BufferNotOlder(g, i, buffer[g], disturbed)
    /\ UpdatesNotOlder(g, i, updates, batch, disturbed)

ShownInv ==
    \A k \in Key : shown[k] # 0 =>
        shown[k] \in Messages(k[1]) /\ Script[k[1]][shown[k]].section = k[3]

LateInv ==
    \A g \in Gateway : \A i \in Missing(g, fed[g]) :
        Contains(fed[g], i) => <<g, <<i, "late">>>> \in disturbed

NInv ==
    /\ ShownInv /\ LateInv
    /\ \A g \in Gateway : \A i \in Lines(g) :
          IsValue(g, i) /\ Of(g, i) \in Reported(g) => ReportedInv(g, i)

\* Of two lines that were given one came first.
LEMMA EarlierTotal ==
    ASSUME NEW S, NEW f \in Seq(S), NEW x, NEW y, Contains(f, x), Contains(f, y), x # y
    PROVE  Earlier(f, x, y) \/ Earlier(f, y, x)
<1>1. PICK p \in 1..Len(f), q \in 1..Len(f) : f[p] = x /\ f[q] = y
  BY DEF Contains
<1>2. Len(f) \in Nat
  BY LenProperties
<1>3. p < q \/ q < p
  BY <1>1, <1>2
<1> QED
  BY <1>1, <1>3 DEF Earlier

LEMMA EarlierContains ==
    ASSUME NEW f, NEW x, NEW y, Earlier(f, x, y)
    PROVE  Contains(f, x) /\ Contains(f, y)
BY DEF Earlier, Contains

\* An older line that comes after a later one is late.
LEMMA EarlierIsOlder ==
    ASSUME NEW g \in Gateway, NEW f \in Seq(Lines(g)), Once(f),
           NEW i \in Lines(g), NEW y \in Lines(g), Earlier(f, i, y), IsDefined(KindOf(g, y)),
           NEW late, \A m \in Missing(g, f) : Contains(f, m) => <<g, <<m, "late">>>> \in late
    PROVE  i <= y \/ <<g, <<y, "late">>>> \in late
<1> SUFFICES ASSUME ~(i <= y)
             PROVE  <<g, <<y, "late">>>> \in late
  OBVIOUS
<1>1. i \in Nat /\ y \in Nat
  BY LineTypes
<1>2. PICK p \in 1..Len(f), q \in 1..Len(f) : p < q /\ f[p] = i /\ f[q] = y
  BY DEF Earlier
<1>3. Len(f) \in Nat
  BY LenProperties
<1>4. \A o \in 1..p : f[o] # y
  <2>1. ASSUME NEW o \in 1..p, f[o] = y
        PROVE  FALSE
    <3>1. o \in 1..Len(f) /\ o # q
      BY <1>2, <1>3
    <3> QED
      BY <1>2, <2>1, <3>1 DEF Once
  <2> QED
    BY <2>1
<1>5. Known(g, Of(g, y)) /\ y < f[p]
  BY <1>1, <1>2, KnownIff
<1>6. y \in Missing(g, f)
  BY <1>4, <1>5, MissedByEarlier
<1>7. Contains(f, y)
  BY <1>2 DEF Contains
<1> QED
  BY <1>6, <1>7

\* The lines of the batch are the last ones that parsers were given.
LEMMA EndsOrder ==
    ASSUME NEW S, NEW h \in Seq(S), Once(h), NEW t \in Seq(S), Ends(h, t)
    PROVE  /\ \A x, y : Earlier(t, x, y) => Earlier(h, x, y)
           /\ \A x, y : Earlier(h, x, y) /\ Contains(t, x) => Earlier(t, x, y)
           /\ \A x, y : Contains(h, x) /\ ~Contains(t, x) /\ Contains(t, y) => Earlier(h, x, y)
           /\ \A q \in (Len(h) - Len(t) + 1)..Len(h) : Contains(t, h[q])
           /\ \A x : Contains(t, x) => Contains(h, x)
<1> DEFINE n == Len(h) - Len(t)
<1>1. Len(h) \in Nat /\ Len(t) \in Nat /\ Len(t) <= Len(h) /\ \A j \in 1..Len(t) : h[n + j] = t[j]
  BY LenProperties DEF Ends
<1>2. n \in Nat /\ n + Len(t) = Len(h)
  BY <1>1
<1> HIDE DEF n
<1>3. ASSUME NEW q \in (n + 1)..Len(h)
      PROVE  q - n \in 1..Len(t) /\ h[q] = t[q - n]
  <2>1. q - n \in 1..Len(t) /\ n + (q - n) = q
    BY <1>1, <1>2
  <2> QED
    BY <1>1, <2>1
<1>4. \A j \in 1..Len(t) : n + j \in 1..Len(h)
  BY <1>1, <1>2
<1>5. ASSUME NEW x, NEW y, Earlier(t, x, y)
      PROVE  Earlier(h, x, y)
  <2>1. PICK p \in 1..Len(t), q \in 1..Len(t) : p < q /\ t[p] = x /\ t[q] = y
    BY <1>5 DEF Earlier
  <2>2. n + p < n + q
    BY <1>2, <2>1
  <2> QED
    BY <1>1, <1>4, <2>1, <2>2 DEF Earlier
<1>6. ASSUME NEW x, NEW y, Earlier(h, x, y), Contains(t, x)
      PROVE  Earlier(t, x, y)
  <2>1. PICK p \in 1..Len(h), q \in 1..Len(h) : p < q /\ h[p] = x /\ h[q] = y
    BY <1>6 DEF Earlier
  <2>2. PICK j \in 1..Len(t) : t[j] = x
    BY <1>6 DEF Contains
  <2>3. p = n + j
    BY <1>1, <1>4, <2>1, <2>2 DEF Once
  <2>4. q \in (n + 1)..Len(h)
    BY <1>1, <1>2, <2>1, <2>3
  <2>5. q - n \in 1..Len(t) /\ t[q - n] = y
    BY <1>3, <2>1, <2>4
  <2>6. j < q - n
    BY <1>2, <2>1, <2>3
  <2> QED
    BY <2>2, <2>5, <2>6 DEF Earlier
<1>7. ASSUME NEW x, NEW y, Contains(h, x), ~Contains(t, x), Contains(t, y)
      PROVE  Earlier(h, x, y)
  <2>1. PICK p \in 1..Len(h) : h[p] = x
    BY <1>7 DEF Contains
  <2>2. PICK j \in 1..Len(t) : t[j] = y
    BY <1>7 DEF Contains
  <2>3. p \notin (n + 1)..Len(h)
    BY <1>3, <1>7, <2>1 DEF Contains
  <2>4. p < n + j /\ n + j \in 1..Len(h) /\ h[n + j] = y
    BY <1>1, <1>2, <1>4, <2>2, <2>3
  <2> QED
    BY <2>1, <2>4 DEF Earlier
<1>8. ASSUME NEW x, Contains(t, x)
      PROVE  Contains(h, x)
  <2>1. PICK j \in 1..Len(t) : t[j] = x
    BY <1>8 DEF Contains
  <2> QED
    BY <1>1, <1>4, <2>1 DEF Contains
<1> QED
  BY <1>3, <1>5, <1>6, <1>7, <1>8 DEF Contains, n

\* What an invocation does, as far as one gateway is concerned.
LEMMA InvokeOfGateway ==
    ASSUME IInv, IInv', Invoke, NEW g \in Gateway
    PROVE  LET t == LinesOf(batch', g)
               h == fed'[g]
               b == buffer'[g]
               founds == parse(g, t).found
           IN  /\ t \in Seq(Lines(g)) /\ h \in Seq(Lines(g)) /\ Once(h) /\ Ends(h, t)
               /\ \A i : Contains(t, i) <=> <<g, i>> \in ToSet(batch')
               /\ \A i : Contains(t, i) => ~Contains(fed[g], i)
               /\ \A i : Contains(h, i) <=> Contains(fed[g], i) \/ Contains(t, i)
               /\ Len(h) - Len(t) = Len(fed[g]) /\ Base(h, b) \in Nat
               /\ \A kind \in Kind : IsDefined(kind) =>
                     /\ parseMessages(g, b, kind) \in Seq(Lines(g))
                     /\ Matched(g, h, b, kind) /\ Incomplete(g, b, kind)
                     /\ FromBatch(g, Len(fed[g]), h, kind, parseMessages(g, b, kind))
               /\ \A x \in ToSet(founds) :
                     /\ FoundFacts(g, h, x)
                     /\ FromBatch(g, Len(fed[g]), h, KindOf(g, x[1]), x)
                     /\ \A j \in 1..Len(x) : \E q \in 1..Base(h, b) : h[q] = x[j]
               /\ \A i \in Missing(g, h) : Contains(h, i) => <<g, <<i, "late">>>> \in disturbed'
<1> DEFINE t == LinesOf(batch', g)
           h == fed'[g]
           b == buffer'[g]
           founds == parse(g, t).found
<1>1. Fresh(batch') /\ handler(batch')
  BY InvokeRecords
<1>2. PICK records : records = batch'
  OBVIOUS
<1>3. Fresh(records) /\ handler(records) /\ t = LinesOf(records, g)
  BY <1>1, <1>2
<1>4. /\ fed[g] \in Seq(Lines(g)) /\ t \in Seq(Lines(g)) /\ h = fed[g] \o t
      /\ ParserInv(g, h, since'[g], b, parsed'[g], Lost(g))
      /\ \A x \in ToSet(founds) : FoundFacts(g, h, x)
      /\ OfBatch(g, Len(fed[g]), h, parse(g, t)) /\ b = parse(g, t).buffer
  BY <1>3, HandlerOfGateway
<1>5. /\ \A i : Contains(h, i) <=> Contains(fed[g], i) \/ <<g, i>> \in ToSet(records)
      /\ Ends(h, t)
  BY <1>3, HandlerFed
<1>6. \A i : Contains(t, i) <=> <<g, i>> \in ToSet(records)
  <2>1. \A i : (\E j \in 1..Len(t) : t[j] = i) <=> <<g, i>> \in ToSet(records)
    BY <1>3, LinesOfBatch DEF Fresh
  <2> HIDE DEF t
  <2> QED
    BY <2>1 DEF Contains
<1>7. \A i : Contains(t, i) => ~Contains(fed[g], i)
  <2>1. ASSUME NEW i, Contains(t, i)
        PROVE  ~Contains(fed[g], i)
    <3>1. ~Fed(<<g, i>>)
      BY <1>3, <1>6, <2>1 DEF Fresh
    <3> QED
      BY <3>1 DEF Fed
  <2> QED
    BY <2>1
<1>8. \A i \in Missing(g, h) : Contains(h, i) => <<g, <<i, "late">>>> \in disturbed'
  BY <1>3, HandlerDisturbs
<1> HIDE DEF t, h, b, founds
<1>9. /\ h \in Seq(Lines(g)) /\ b \in Seq(Lines(g)) /\ Once(h)
      /\ Held(g, h, since'[g], b)
      /\ \A kind \in Kind : IsDefined(kind) => Matched(g, h, b, kind) /\ Incomplete(g, b, kind)
  BY <1>4, ParserTypes DEF ParserInv
<1>10. Len(h) - Len(t) = Len(fed[g])
  <2>1. Len(h) = Len(fed[g]) + Len(t) /\ Len(fed[g]) \in Nat /\ Len(t) \in Nat
    BY <1>4, ConcatProperties, LenProperties
  <2> QED
    BY <2>1
<1>11. Base(h, b) \in Nat
  <2>1. /\ since'[g] \in Nat /\ since'[g] <= Base(h, b)
    BY <1>9 DEF Held
  <2>2. Len(h) \in Nat /\ Len(b) \in Nat
    BY <1>9, LenProperties
  <2> QED
    BY <2>1, <2>2 DEF Base
<1>12. \A kind \in Kind : parseMessages(g, b, kind) \in Seq(Lines(g))
  BY <1>9, ParseType
<1>13. /\ \A kind \in Kind : IsDefined(kind) =>
             FromBatch(g, Len(fed[g]), h, kind, parseMessages(g, b, kind))
       /\ \A x \in ToSet(founds) :
             /\ FromBatch(g, Len(fed[g]), h, KindOf(g, x[1]), x)
             /\ \A j \in 1..Len(x) : \E q \in 1..Base(h, b) : h[q] = x[j]
  BY <1>4 DEF OfBatch, founds
<1>14. \A i : <<g, i>> \in ToSet(batch') <=> <<g, i>> \in ToSet(records)
  BY <1>2
<1> QED
  BY <1>4, <1>5, <1>6, <1>7, <1>8, <1>9, <1>10, <1>11, <1>12, <1>13, <1>14 DEF t, h, b, founds

\* An update of the invocation shows a value that was found.
LEMMA InvokeUpdates ==
    ASSUME IInv, IInv', Invoke, NEW u \in updates',
           NEW i \in Lines(u.gateway), Of(u.gateway, i) = u.of, IsValue(u.gateway, i)
    PROVE  /\ u.gateway \in Gateway
           /\ \E x \in ToSet(parse(u.gateway, LinesOf(batch', u.gateway)).found) :
                 /\ KindOf(u.gateway, x[1]) = KindOf(u.gateway, i)
                 /\ ValuePart(u.gateway, i) \in 1..Len(x) /\ x[ValuePart(u.gateway, i)] = i
<1>1. updates = {} /\ handler(batch')
  <2>1. phase # "running"
    BY DEF Invoke
  <2> QED
    BY <2>1, InvokeRecords DEF IInv, PhaseInv
<1>2. PICK g \in Gateway : \E x \in ToSet(parse(g, LinesOf(batch', g)).found) : u \in updateNodeData(g, x)
  BY <1>1 DEF handler
<1>3. PICK x \in ToSet(parse(g, LinesOf(batch', g)).found) : u \in updateNodeData(g, x)
  BY <1>2
<1> DEFINE kind == KindOf(g, x[1])
           c == x[Layout[kind].value]
<1>4. u.gateway = g /\ u.of = Of(g, c)
  <2> DEFINE w == [gateway |-> g, node |-> Script[g][Of(g, x[Layout[kind].node])].node, of |-> Of(g, c)]
  <2>1. updateNodeData(g, x) = IF SectionOf(w) = "none" THEN {} ELSE {w}
    BY DEF updateNodeData, Of
  <2>2. u = w
    <3> HIDE DEF w
    <3> QED
      BY <1>3, <2>1
  <2> QED
    BY <2>2
<1>5. FoundFacts(g, fed'[g], x)
  BY InvokeOfGateway
<1>6. /\ x \in Seq(Lines(g)) /\ Len(x) # 0 /\ Len(x) = Layout[kind].length
      /\ \A j \in 1..Len(x) : KindOf(g, x[j]) = kind /\ Part(g, x[j]) = j
  BY <1>5 DEF FoundFacts
<1> HIDE DEF c, kind
<1>7. Len(x) \in Nat /\ \A j \in 1..Len(x) : x[j] \in Lines(g)
  BY <1>6, LenProperties, ElementOfSeq
<1>8. kind \in Kind
  <2>1. x[1] \in Lines(g)
    BY <1>6, <1>7
  <2> QED
    BY <2>1, LengthOfKind DEF kind
<1>9. Layout[kind].value \in 1..Len(x)
  BY <1>6, <1>8, LayoutAssumption
<1>10. c \in Lines(g) /\ KindOf(g, c) = kind /\ Part(g, c) = Layout[kind].value
  BY <1>6, <1>7, <1>9 DEF c
<1>11. KindOf(g, i) = kind
  BY <1>4, <1>10 DEF KindOf, Of
<1>12. i = c
  BY <1>4, <1>10, <1>11, LineUnique DEF IsValue, ValuePart
<1> QED
  BY <1>3, <1>4, <1>9, <1>11, <1>12 DEF ValuePart, c, kind

\* A value that was reported before: it does not come in a new batch, and a
\* batch that is tried again is the same.
LEMMA InvokeKeepsPlaces ==
    ASSUME IInv, IInv', Invoke, NEW g \in Gateway, NEW i \in Lines(g), InPlace(g, i, batch, fed[g])
    PROVE  /\ InPlace(g, i, batch', fed'[g])
           /\ <<g, i>> \notin ToSet(batch') => Contains(fed[g], i)
<1>1. Fresh(batch') /\ (phase = "failed" => batch' = batch) /\ (phase # "failed" => batch = <<>>)
  BY InvokeRecords DEF Invoke, IInv, PhaseInv
<1>2. ToSet(<<>>) = {}
  BY ElementsOfEmpty
<1>3. \A y : Contains(fed[g], y) => Contains(fed'[g], y)
  BY InvokeOfGateway
<1>4. CASE <<g, i>> \in ToSet(batch)
  <2>1. batch' = batch
    BY <1>1, <1>2, <1>4
  <2> QED
    BY <1>4, <2>1 DEF InPlace
<1>5. CASE <<g, i>> \notin ToSet(batch)
  <2>1. Contains(fed[g], i)
    BY <1>5 DEF InPlace
  <2>2. Fed(<<g, i>>)
    BY <2>1 DEF Fed
  <2>3. <<g, i>> \notin ToSet(batch')
    BY <1>1, <2>2 DEF Fresh
  <2> QED
    BY <1>3, <2>1, <2>3 DEF InPlace
<1> QED
  BY <1>4, <1>5

\* A value that was found.
LEMMA InvokeFindsPlaces ==
    ASSUME IInv, IInv', Invoke, NEW g \in Gateway, NEW i \in Lines(g),
           NEW x \in ToSet(parse(g, LinesOf(batch', g)).found),
           KindOf(g, x[1]) = KindOf(g, i), ValuePart(g, i) \in 1..Len(x), x[ValuePart(g, i)] = i
    PROVE  /\ IsDefined(KindOf(g, i)) /\ InPlace(g, i, batch', fed'[g])
<1> DEFINE t == LinesOf(batch', g)
           h == fed'[g]
           v == ValuePart(g, i)
           l == Layout[KindOf(g, i)].length
           z == [j \in v..l |-> x[j]]
<1>1. /\ t \in Seq(Lines(g)) /\ h \in Seq(Lines(g)) /\ Once(h) /\ Ends(h, t)
      /\ \A y : Contains(t, y) <=> <<g, y>> \in ToSet(batch')
      /\ FoundFacts(g, h, x)
  BY InvokeOfGateway
<1>2. /\ x \in Seq(Lines(g)) /\ Len(x) = l /\ Rising(h, x) /\ IsDefined(KindOf(g, i))
      /\ \A j \in 1..Len(x) : /\ Contains(h, x[j]) /\ KindOf(g, x[j]) = KindOf(g, i)
                              /\ Part(g, x[j]) = j
  BY <1>1 DEF FoundFacts
<1> HIDE DEF t, h
<1>3. CASE <<g, i>> \notin ToSet(batch')
  BY <1>2, <1>3 DEF InPlace, h
<1>4. CASE <<g, i>> \in ToSet(batch')
  <2>1. \A a, c : Earlier(h, a, c) /\ Contains(t, a) => Earlier(t, a, c)
    BY <1>1, EndsOrder
  <2>2. Contains(t, i)
    BY <1>1, <1>4
  <2> HIDE DEF v, l
  <2>3. /\ v \in 1..l /\ l \in Nat /\ x[v] = i /\ Part(g, i) = v
        /\ \A j \in 1..l : x[j] \in Lines(g)
    BY <1>2, LenProperties, ElementOfSeq DEF v
  <2>4. ASSUME NEW j \in v..l
        PROVE  /\ z[j] = x[j] /\ x[j] \in Lines(g) /\ Contains(t, x[j]) /\ j \in 1..l
               /\ KindOf(g, x[j]) = KindOf(g, i) /\ Part(g, x[j]) = j
    <3>1. j \in 1..l
      BY <2>3
    <3>2. Contains(t, x[j])
      <4>1. CASE j = v
        BY <2>2, <2>3, <4>1
      <4>2. CASE j # v
        <5>1. Earlier(h, x[v], x[j])
          BY <1>2, <2>3, <3>1, <4>2 DEF Rising
        <5>2. Earlier(t, i, x[j])
          BY <2>1, <2>2, <2>3, <5>1
        <5> QED
          BY <5>2, EarlierContains
      <4> QED
        BY <4>1, <4>2
    <3> QED
      BY <1>2, <2>3, <3>1, <3>2
  <2>5. \A j, k \in v..l : j < k => Earlier(t, z[j], z[k])
    <3>1. ASSUME NEW j \in v..l, NEW k \in v..l, j < k
          PROVE  Earlier(t, z[j], z[k])
      <4>1. Earlier(h, x[j], x[k])
        BY <1>2, <2>4, <3>1 DEF Rising
      <4> QED
        BY <2>1, <2>4, <4>1
    <3> QED
      BY <3>1
  <2>6. z \in [v..l -> Lines(g)]
    BY <2>4
  <2>7. v \in v..l /\ z[v] = i
    BY <2>3, <2>4
  <2> HIDE DEF z
  <2>8. Completed(g, t, i, z)
    BY <2>3, <2>4, <2>5, <2>7 DEF Completed, l
  <2>9. \E y \in [ValuePart(g, i)..Layout[KindOf(g, i)].length -> Lines(g)] :
            Completed(g, LinesOf(batch', g), i, y)
    BY <2>6, <2>8 DEF t, v, l
  <2> QED
    BY <1>2, <1>4, <2>9 DEF InPlace
<1> QED
  BY <1>2, <1>3, <1>4

\* What the parser holds now came later.
LEMMA InvokeBuffer ==
    ASSUME IInv, IInv', Invoke, NEW g \in Gateway, NEW i \in Lines(g),
           IsValue(g, i), IsDefined(KindOf(g, i)),
           \/ /\ InPlace(g, i, batch, fed[g]) /\ InPlace(g, i, batch', fed'[g])
              /\ BufferNotOlder(g, i, buffer[g], disturbed)
           \/ \E x \in ToSet(parse(g, LinesOf(batch', g)).found) :
                 ValuePart(g, i) \in 1..Len(x) /\ x[ValuePart(g, i)] = i
    PROVE  BufferNotOlder(g, i, buffer'[g], disturbed')
<1> DEFINE t == LinesOf(batch', g)
           h == fed'[g]
           n == Len(fed[g])
           v == ValuePart(g, i)
           kind == KindOf(g, i)
           r == parseMessages(g, buffer'[g], kind)
           y == r[v]
<1>1. kind \in Kind /\ v \in Nat \ {0} /\ v = Part(g, i)
  <2>1. kind \in Kind
    BY LengthOfKind
  <2> QED
    BY <2>1, LineTypes DEF IsValue
<1>2. /\ t \in Seq(Lines(g)) /\ h \in Seq(Lines(g)) /\ Once(h) /\ Ends(h, t)
      /\ \A m : Contains(t, m) <=> <<g, m>> \in ToSet(batch')
      /\ \A m : Contains(t, m) => ~Contains(fed[g], m)
      /\ \A m : Contains(h, m) <=> Contains(fed[g], m) \/ Contains(t, m)
      /\ Len(h) - Len(t) = n /\ Base(h, buffer'[g]) \in Nat
      /\ r \in Seq(Lines(g)) /\ Matched(g, h, buffer'[g], kind) /\ Incomplete(g, buffer'[g], kind)
      /\ FromBatch(g, n, h, kind, r)
      /\ \A m \in Missing(g, h) : Contains(h, m) => <<g, <<m, "late">>>> \in disturbed'
  BY <1>1, InvokeOfGateway
<1>3. ASSUME NEW x \in ToSet(parse(g, LinesOf(batch', g)).found), NEW j \in 1..Len(x)
      PROVE  \E q \in 1..Base(h, buffer'[g]) : h[q] = x[j]
  BY <1>3, InvokeOfGateway
<1>4. BufferNotOlder(g, i, buffer'[g], disturbed') <=>
         (v <= Len(r) => i <= y \/ <<g, <<y, "late">>>> \in disturbed')
  BY DEF BufferNotOlder, NotOlder
<1>5. BufferNotOlder(g, i, buffer[g], disturbed) =>
         LET old == parseMessages(g, buffer[g], kind)
         IN  v <= Len(old) => i <= old[v] \/ <<g, <<old[v], "late">>>> \in disturbed
  BY DEF BufferNotOlder, NotOlder
<1>6. disturbed \subseteq disturbed'
  BY InvokeRecords, HandlerDisturbs
<1> SUFFICES ASSUME v <= Len(r)
             PROVE  i <= y \/ <<g, <<y, "late">>>> \in disturbed'
  BY <1>4
<1>7. /\ Picked(g, h, buffer'[g], kind, r) /\ Rising(h, r) /\ Greedy(g, h, kind, r)
      /\ Len(r) < Layout[kind].length /\ Len(r) \in Nat
  BY <1>2, LenProperties DEF Matched, Incomplete
<1> HIDE DEF t, h, n, v, kind, r
<1>8. v \in 1..Len(r)
  BY <1>1, <1>7
<1>9. y \in Lines(g) /\ KindOf(g, y) = kind /\ Contains(h, y)
  BY <1>2, <1>7, <1>8, PickedContained, ElementOfSeq DEF Picked
<1>10. Earlier(h, i, y) => i <= y \/ <<g, <<y, "late">>>> \in disturbed'
  BY <1>2, <1>9, EarlierIsOlder DEF kind
<1>11. ASSUME NEW x \in ToSet(parse(g, LinesOf(batch', g)).found),
              ValuePart(g, i) \in 1..Len(x), x[ValuePart(g, i)] = i
       PROVE  Earlier(h, i, y)
  <2>1. PICK q \in 1..Base(h, buffer'[g]) : h[q] = i
    BY <1>3, <1>11
  <2>2. PICK p \in (Base(h, buffer'[g]) + 1)..Len(h) : h[p] = y
    BY <1>7, <1>8 DEF Picked
  <2>3. Len(h) \in Nat
    BY <1>2, LenProperties
  <2>4. q \in 1..Len(h) /\ p \in 1..Len(h) /\ q < p
    BY <1>2, <2>3
  <2> QED
    BY <2>1, <2>2, <2>4 DEF Earlier
<1>12. ASSUME InPlace(g, i, batch, fed[g]), InPlace(g, i, batch', fed'[g]),
              BufferNotOlder(g, i, buffer[g], disturbed)
       PROVE  i <= y \/ <<g, <<y, "late">>>> \in disturbed'
  <2>1. CASE <<g, i>> \in ToSet(batch')
    <3>1. PICK x : Completed(g, t, i, x)
      BY <1>12, <2>1 DEF InPlace, t
    <3>2. Completed(g, h, i, x)
      <4>1. /\ \A a, c : Earlier(t, a, c) => Earlier(h, a, c)
            /\ \A a : Contains(t, a) => Contains(h, a)
        BY <1>2, EndsOrder
      <4> QED
        BY <3>1, <4>1 DEF Completed
    <3>3. y # i /\ ~Earlier(h, y, i)
      BY <1>1, <1>2, <1>7, <1>8, <3>2, NotCompleted DEF kind
    <3>4. Contains(h, i)
      BY <1>2, <2>1
    <3> QED
      BY <1>2, <1>9, <1>10, <3>3, <3>4, EarlierTotal
  <2>2. CASE <<g, i>> \notin ToSet(batch')
    <3>1. Contains(fed[g], i)
      BY <1>12, <2>2, InvokeKeepsPlaces
    <3>2. CASE \E q \in (n + 1)..Len(h) : h[q] = y
      <4>1. Contains(t, y)
        BY <1>2, <3>2, EndsOrder
      <4>2. Contains(h, i) /\ ~Contains(t, i)
        BY <1>2, <2>2, <3>1
      <4>3. Earlier(h, i, y)
        BY <1>2, <4>1, <4>2, EndsOrder
      <4> QED
        BY <1>10, <4>3
    <3>3. CASE LET old == parseMessages(g, buffer[g], kind) IN v <= Len(old) /\ old[v] = y
      BY <1>5, <1>6, <1>12, <3>3
    <3> QED
      BY <1>2, <1>8, <3>2, <3>3 DEF FromBatch
  <2> QED
    BY <2>1, <2>2
<1> QED
  BY <1>10, <1>11, <1>12

\* An update of a value that came in an earlier batch shows what the parser
\* held; there was no later one.
LEMMA InvokeUpdatesNotOlder ==
    ASSUME IInv, IInv', Invoke, NEW g \in Gateway, NEW i \in Lines(g), IsDefined(KindOf(g, i)),
           \/ BufferNotOlder(g, i, buffer[g], disturbed)
           \/ \E x \in ToSet(parse(g, LinesOf(batch', g)).found) :
                 /\ KindOf(g, x[1]) = KindOf(g, i)
                 /\ ValuePart(g, i) \in 1..Len(x) /\ x[ValuePart(g, i)] = i
    PROVE  UpdatesNotOlder(g, i, updates', batch', disturbed')
<1> DEFINE t == LinesOf(batch', g)
           h == fed'[g]
           n == Len(fed[g])
           kind == KindOf(g, i)
           v == ValuePart(g, i)
           old == parseMessages(g, buffer[g], kind)
<1>1. disturbed \subseteq disturbed'
  BY InvokeRecords, HandlerDisturbs
<1>2. BufferNotOlder(g, i, buffer[g], disturbed) =>
         (v <= Len(old) => i <= old[v] \/ <<g, <<old[v], "late">>>> \in disturbed)
  BY DEF BufferNotOlder, NotOlder
<1>3. ASSUME NEW x \in ToSet(parse(g, LinesOf(batch', g)).found), NEW y,
             KindOf(g, x[1]) = kind, v \in 1..Len(x), x[v] = y, <<g, y>> \notin ToSet(batch')
      PROVE  v <= Len(old) /\ old[v] = y
  <2>1. /\ t \in Seq(Lines(g)) /\ h \in Seq(Lines(g)) /\ Once(h) /\ Ends(h, t)
        /\ \A m : Contains(t, m) <=> <<g, m>> \in ToSet(batch')
        /\ Len(h) - Len(t) = n /\ FromBatch(g, n, h, KindOf(g, x[1]), x)
    BY <1>3, InvokeOfGateway
  <2> HIDE DEF t, h, n, v, kind
  <2>2. ~\E q \in (n + 1)..Len(h) : h[q] = y
    BY <1>3, <2>1, EndsOrder
  <2> QED
    BY <1>3, <2>1, <2>2 DEF FromBatch
<1>4. ASSUME NEW u \in updates', NEW y \in Lines(g), u.gateway = g, u.of = Of(g, y), IsValue(g, y),
             KindOf(g, y) = kind, <<g, y>> \notin ToSet(batch'), <<g, i>> \notin ToSet(batch')
      PROVE  i <= y \/ <<g, <<y, "late">>>> \in disturbed'
  <2>1. PICK x \in ToSet(parse(g, LinesOf(batch', g)).found) :
              KindOf(g, x[1]) = KindOf(g, y) /\ ValuePart(g, y) \in 1..Len(x) /\ x[ValuePart(g, y)] = y
    BY <1>4, InvokeUpdates
  <2>2. ValuePart(g, y) = v
    BY <1>4 DEF ValuePart
  <2>3. v <= Len(old) /\ old[v] = y
    BY <1>3, <1>4, <2>1, <2>2
  <2>4. CASE BufferNotOlder(g, i, buffer[g], disturbed)
    BY <1>1, <1>2, <2>3, <2>4
  <2>5. ASSUME NEW z \in ToSet(parse(g, LinesOf(batch', g)).found), KindOf(g, z[1]) = kind,
               v \in 1..Len(z), z[v] = i
        PROVE  i <= y \/ <<g, <<y, "late">>>> \in disturbed'
    <3>1. old[v] = i
      BY <1>3, <1>4, <2>5
    <3>2. i <= i
      BY LineTypes
    <3> QED
      BY <2>3, <3>1, <3>2
  <2> QED
    BY <2>4, <2>5
<1> QED
  BY <1>4 DEF UpdatesNotOlder, NotOlder

LEMMA InvokeKeepsReported ==
    ASSUME IInv, IInv', NInv, Invoke
    PROVE  NInv'
<1>1. updates = {} /\ shown' = shown
  BY DEF Invoke, IInv, PhaseInv
<1>2. ShownInv'
  BY <1>1 DEF NInv, ShownInv, Key, Messages
<1>3. LateInv'
  <2>1. \A g \in Gateway : \A i \in Missing(g, fed'[g]) :
            Contains(fed'[g], i) => <<g, <<i, "late">>>> \in disturbed'
    BY InvokeOfGateway
  <2> QED
    BY <2>1 DEF LateInv
<1>4. ASSUME NEW g \in Gateway, NEW i \in Lines(g), IsValue(g, i), Of(g, i) \in Reported(g)'
      PROVE  ReportedInv(g, i)'
  <2>1. CASE Of(g, i) \in Reported(g)
    <3>1. /\ IsDefined(KindOf(g, i)) /\ InPlace(g, i, batch, fed[g])
          /\ BufferNotOlder(g, i, buffer[g], disturbed)
      BY <1>4, <2>1 DEF NInv, ReportedInv
    <3>2. InPlace(g, i, batch', fed'[g])
      BY <3>1, InvokeKeepsPlaces
    <3>3. BufferNotOlder(g, i, buffer'[g], disturbed')
      BY <1>4, <3>1, <3>2, InvokeBuffer
    <3>4. UpdatesNotOlder(g, i, updates', batch', disturbed')
      BY <3>1, InvokeUpdatesNotOlder
    <3> QED
      BY <3>1, <3>2, <3>3, <3>4 DEF ReportedInv
  <2>2. ASSUME NEW u \in updates', u.gateway = g, u.of = Of(g, i)
        PROVE  ReportedInv(g, i)'
    <3>1. PICK x \in ToSet(parse(g, LinesOf(batch', g)).found) :
                 /\ KindOf(g, x[1]) = KindOf(g, i)
                 /\ ValuePart(g, i) \in 1..Len(x) /\ x[ValuePart(g, i)] = i
      BY <1>4, <2>2, InvokeUpdates
    <3>2. IsDefined(KindOf(g, i)) /\ InPlace(g, i, batch', fed'[g])
      BY <3>1, InvokeFindsPlaces
    <3>3. BufferNotOlder(g, i, buffer'[g], disturbed')
      BY <1>4, <3>1, <3>2, InvokeBuffer
    <3>4. UpdatesNotOlder(g, i, updates', batch', disturbed')
      BY <3>1, <3>2, InvokeUpdatesNotOlder
    <3> QED
      BY <3>2, <3>3, <3>4 DEF ReportedInv
  <2>3. \/ Of(g, i) \in Reported(g)
        \/ \E u \in updates' : u.gateway = g /\ u.of = Of(g, i)
    BY <1>1, <1>4 DEF Reported, Key, Of
  <2> QED
    BY <2>1, <2>2, <2>3
<1> QED
  BY <1>2, <1>3, <1>4 DEF NInv, Lines, Of, IsValue, Part, ValuePart, KindOf

\* What is on the wire, an answer and the end of an invocation report nothing
\* new and leave the parsers alone.
LEMMA OthersKeepReported ==
    ASSUME IInv, NInv, UNCHANGED <<parserVars, disturbed>>, updates' \subseteq updates,
           batch' = batch \/ (phase = "running" /\ batch' = <<>> /\ updates' = {}),
           \A k \in Key : shown'[k] = shown[k] \/
               \E u \in updates : /\ shown'[k] = u.of /\ u.gateway = k[1] /\ SectionOf(u) = k[3]
    PROVE  NInv'
<1>1. ShownInv'
  <2>1. ASSUME NEW k \in Key, shown'[k] # 0
        PROVE  shown'[k] \in Messages(k[1]) /\ Script[k[1]][shown'[k]].section = k[3]
    <3>1. CASE shown'[k] = shown[k]
      BY <2>1, <3>1 DEF NInv, ShownInv
    <3>2. ASSUME NEW u \in updates, shown'[k] = u.of, u.gateway = k[1], SectionOf(u) = k[3]
          PROVE  shown'[k] \in Messages(k[1]) /\ Script[k[1]][shown'[k]].section = k[3]
      BY <3>2 DEF IInv, TypeOK, Messages, SectionOf
    <3> QED
      BY <3>1, <3>2
  <2> QED
    BY <2>1 DEF ShownInv, Key, Messages
<1>2. /\ fed' = fed /\ buffer' = buffer /\ disturbed' = disturbed
  BY DEF parserVars
<1>3. LateInv'
  <2>1. LateInv
    BY DEF NInv
  <2> QED
    BY <1>2, <2>1 DEF LateInv
<1>4. ASSUME NEW g \in Gateway, NEW i \in Lines(g), IsValue(g, i), Of(g, i) \in Reported(g)'
      PROVE  ReportedInv(g, i)'
  <2>1. Of(g, i) \in Reported(g)
    <3>1. CASE \E u \in updates' : u.gateway = g /\ u.of = Of(g, i)
      BY <3>1 DEF Reported
    <3>2. ASSUME NEW k \in Key, k[1] = g, Of(g, i) = shown'[k]
          PROVE  Of(g, i) \in Reported(g)
      BY <3>2 DEF Reported
    <3>3. \/ \E u \in updates' : u.gateway = g /\ u.of = Of(g, i)
          \/ \E k \in Key : k[1] = g /\ Of(g, i) = shown'[k]
      BY <1>4 DEF Reported, Key, Of
    <3> QED
      BY <3>1, <3>2, <3>3
  <2>2. /\ IsDefined(KindOf(g, i)) /\ InPlace(g, i, batch, fed[g])
        /\ BufferNotOlder(g, i, buffer[g], disturbed)
        /\ UpdatesNotOlder(g, i, updates, batch, disturbed)
    BY <1>4, <2>1 DEF NInv, ReportedInv
  <2>3. BufferNotOlder(g, i, buffer'[g], disturbed')
    <3>1. BufferNotOlder(g, i, buffer[g], disturbed)
      BY <2>2
    <3> QED
      BY <1>2, <3>1 DEF BufferNotOlder, NotOlder
  <2>4. CASE batch' = batch
    <3>1. InPlace(g, i, batch', fed'[g])
      <4>1. InPlace(g, i, batch, fed[g])
        BY <2>2
      <4>2. CASE <<g, i>> \in ToSet(batch)
        BY <2>4, <4>1, <4>2 DEF InPlace
      <4>3. CASE <<g, i>> \notin ToSet(batch)
        BY <1>2, <2>4, <4>1, <4>3 DEF InPlace
      <4> QED
        BY <4>2, <4>3
    <3>2. UpdatesNotOlder(g, i, updates', batch', disturbed')
      <4>1. UpdatesNotOlder(g, i, updates, batch, disturbed)
        BY <2>2
      <4> QED
        BY <1>2, <2>4, <4>1
        DEF UpdatesNotOlder, NotOlder
    <3> QED
      BY <2>2, <2>3, <3>1, <3>2 DEF ReportedInv
  <2>5. CASE phase = "running" /\ batch' = <<>> /\ updates' = {}
    <3>1. Contains(fed[g], i)
      <4>1. CASE <<g, i>> \in ToSet(batch)
        <5> DEFINE t == LinesOf(batch, g)
        <5>1. PICK x : Completed(g, t, i, x)
          BY <2>2, <4>1 DEF InPlace
        <5>2. Part(g, i) \in Part(g, i)..Layout[KindOf(g, i)].length
          BY LineTypes, LengthOfKind
        <5>3. Contains(t, i)
          BY <5>1, <5>2 DEF Completed
        <5>4. t \in Seq(Lines(g))
          BY LinesOfBatch DEF IInv, TypeOK
        <5>5. fed[g] \in Seq(Lines(g)) /\ Once(fed[g]) /\ Ends(fed[g], t)
          BY <2>5, ParserTypes DEF IInv, ParsersInv, PhaseInv
        <5> QED
          BY <5>3, <5>4, <5>5, EndsOrder
      <4>2. CASE <<g, i>> \notin ToSet(batch)
        BY <2>2, <4>2 DEF InPlace
      <4> QED
        BY <4>1, <4>2
    <3>2. <<g, i>> \notin ToSet(batch')
      BY <2>5, ElementsOfEmpty
    <3>3. InPlace(g, i, batch', fed'[g])
      BY <1>2, <3>1, <3>2 DEF InPlace
    <3>4. UpdatesNotOlder(g, i, updates', batch', disturbed')
      BY <2>5 DEF UpdatesNotOlder
    <3> QED
      BY <2>2, <2>3, <3>3, <3>4 DEF ReportedInv
  <2> QED
    BY <2>4, <2>5
<1> QED
  BY <1>1, <1>3, <1>4 DEF NInv, Lines, Of, IsValue, Part, ValuePart, KindOf

\* A new parser holds nothing.
LEMMA NewParsersKeepReported ==
    ASSUME IInv, NInv, phase # "failed", NewParsers, updates' = {}, UNCHANGED <<batch, shown>>
    PROVE  NInv'
<1>1. ShownInv'
  BY DEF NInv, ShownInv, Key, Messages
<1>2. disturbed \subseteq disturbed'
  BY NewParsersLost
<1>3. LateInv'
  <2>1. ASSUME NEW g \in Gateway, NEW i \in Missing(g, fed'[g]), Contains(fed'[g], i)
        PROVE  <<g, <<i, "late">>>> \in disturbed'
    <3>1. fed[g] \in Seq(Lines(g))
      BY ParserTypes DEF IInv, ParsersInv
    <3>2. i \in Missing(g, fed[g]) /\ Contains(fed[g], i)
      BY <2>1, <3>1, NewParsersFed, MissingGrows
    <3> QED
      BY <1>2, <3>2 DEF NInv, LateInv
  <2> QED
    BY <2>1 DEF LateInv
<1>4. ASSUME NEW g \in Gateway, NEW i \in Lines(g), IsValue(g, i), Of(g, i) \in Reported(g)'
      PROVE  ReportedInv(g, i)'
  <2>1. Of(g, i) \in Reported(g)
    BY <1>4 DEF Reported, Key, Of
  <2>2. IsDefined(KindOf(g, i)) /\ InPlace(g, i, batch, fed[g])
    BY <1>4, <2>1 DEF NInv, ReportedInv
  <2>3. InPlace(g, i, batch', fed'[g])
    <3>1. CASE <<g, i>> \in ToSet(batch)
      <4>1. InPlace(g, i, batch, fed[g]) /\ batch' = batch
        BY <2>2
      <4> QED
        BY <3>1, <4>1 DEF InPlace
    <3>2. CASE <<g, i>> \notin ToSet(batch)
      <4>1. Contains(fed[g], i)
        BY <2>2, <3>2 DEF InPlace
      <4>2. PICK q \in 1..Len(fed[g]) : fed[g][q] = i
        BY <4>1 DEF Contains
      <4>3. /\ fed'[g] \in Seq(Lines(g)) /\ Begins(fed'[g], fed[g])
            /\ \A j \in (Len(fed'[g]) + 1)..Len(fed[g]) : <<g, fed[g][j]>> \in ToSet(batch)
        BY NewParsersFed
      <4>4. Len(fed'[g]) \in Nat
        BY <4>3, LenProperties
      <4>5. q \in 1..Len(fed'[g])
        BY <3>2, <4>2, <4>3, <4>4
      <4>6. Contains(fed'[g], i)
        BY <4>2, <4>3, <4>5 DEF Begins, Contains
      <4> QED
        BY <3>2, <4>6 DEF InPlace
    <3> QED
      BY <3>1, <3>2
  <2>4. BufferNotOlder(g, i, buffer'[g], disturbed')
    <3>1. buffer'[g] = <<>>
      BY DEF NewParsers
    <3>2. Len(parseMessages(g, buffer'[g], KindOf(g, i))) = 0
      BY <3>1, ParseEmpty
    <3>3. ~(ValuePart(g, i) <= Len(parseMessages(g, buffer'[g], KindOf(g, i))))
      BY <1>4, <3>2, LineTypes DEF IsValue
    <3> QED
      BY <3>3 DEF BufferNotOlder
  <2>5. UpdatesNotOlder(g, i, updates', batch', disturbed')
    BY DEF UpdatesNotOlder
  <2> QED
    BY <2>2, <2>3, <2>4, <2>5 DEF ReportedInv
<1> QED
  BY <1>1, <1>3, <1>4 DEF NInv, Lines, Of, IsValue, Part, ValuePart, KindOf

LEMMA NothingReported == Init => NInv
<1> SUFFICES ASSUME Init
             PROVE  NInv
  OBVIOUS
<1>1. ShownInv
  BY DEF Init, ShownInv
<1>2. LateInv
  <2>1. ASSUME NEW g \in Gateway, NEW i \in Missing(g, fed[g]), Contains(fed[g], i)
        PROVE  FALSE
    BY <2>1 DEF Init, Contains
  <2> QED
    BY <2>1 DEF LateInv
<1>3. ASSUME NEW g \in Gateway, NEW i \in Lines(g), Of(g, i) \in Reported(g)
      PROVE  FALSE
  <2>1. Of(g, i) = 0
    BY <1>3 DEF Init, Reported
  <2>2. Of(g, i) \in Messages(g)
    BY LineFacts
  <2> QED
    BY <2>1, <2>2 DEF Messages
<1> QED
  BY <1>1, <1>2, <1>3 DEF NInv

LEMMA ReportedInvariance == Spec => []NInv
<1>1. IInv /\ IInv' /\ NInv /\ [Next]_vars => NInv'
  <2> SUFFICES ASSUME IInv, IInv', NInv, [Next]_vars
               PROVE  NInv'
    OBVIOUS
  <2>1. CASE Invoke
    BY <2>1, InvokeKeepsReported
  <2>2. ASSUME NEW u \in updates, Apply(u)
        PROVE  NInv'
    <3>1. /\ UNCHANGED <<parserVars, disturbed>> /\ updates' \subseteq updates /\ batch' = batch
          /\ shown' = [shown EXCEPT ![<<u.gateway, u.node, SectionOf(u)>>] = u.of]
      BY <2>2 DEF Apply
    <3>2. u.gateway \in Gateway /\ shown \in [Key -> Nat]
      BY DEF IInv, TypeOK, Update
    <3>3. ASSUME NEW k \in Key
          PROVE  \/ shown'[k] = shown[k]
                 \/ shown'[k] = u.of /\ u.gateway = k[1] /\ SectionOf(u) = k[3]
      BY <3>1, <3>2
    <3> QED
      BY <3>1, <3>3, OthersKeepReported
  <2>3. ASSUME NEW u \in updates, Fail(u)
        PROVE  NInv'
    <3>1. phase # "failed"
      BY DEF IInv, PhaseInv
    <3> QED
      BY <2>3, <3>1, NewParsersKeepReported DEF Fail
  <2>4. CASE Recycle
    <3>1. phase = "idle" /\ updates' = {}
      BY <2>4 DEF Recycle, IInv, PhaseInv
    <3> QED
      BY <2>4, <3>1, NewParsersKeepReported DEF Recycle
  <2>5. CASE Finish
    BY <2>5, OthersKeepReported DEF Finish
  <2>6. ASSUME NEW l \in Line, Put(l) \/ Lose(l)
        PROVE  NInv'
    BY <2>6, OthersKeepReported DEF Put, Lose
  <2>7. CASE UNCHANGED vars
    BY <2>7, OthersKeepReported DEF vars
  <2> QED
    BY <2>1, <2>2, <2>3, <2>4, <2>5, <2>6, <2>7 DEF Next
<1> QED
  BY NothingReported, Invariance, <1>1, PTL DEF Spec

\* updateNodeData, parseSinkMessages.ts:18: the handler does not await the
\* requests, but Lambda does before the next batch; so what a shadow shows
\* gives way to an older value only within a batch, or if lines came late.
THEOREM NoOldValueComesBack == Spec => NoOldValueReturns
<1>1. ASSUME IInv, NInv, [Next]_vars, NEW k \in Key, shown'[k] < shown[k]
      PROVE  \E i \in 1..Len(Console[k[1]]) :
                \/ Console[k[1]][i].of = shown[k] /\ <<k[1], i>> \in ToSet(batch)
                \/ Console[k[1]][i].of = shown'[k] /\ <<k[1], <<i, "late">>>> \in disturbed
  <2>1. shown[k] \in Nat
    BY <1>1 DEF IInv, TypeOK
  <2>2. shown' # shown
    BY <1>1, <2>1
  <2>3. PICK u \in updates : Apply(u)
    BY <1>1, <2>2 DEF Next, vars, Put, Lose, Invoke, Fail, Finish, Recycle
  <2> DEFINE g == u.gateway
             m == shown[k]
  <2>4. g \in Gateway /\ u.of \in Messages(g) /\ SectionOf(u) \in Section
    BY <1>1 DEF IInv, TypeOK, Update, Messages
  <2>5. k = <<g, u.node, SectionOf(u)>> /\ shown'[k] = u.of
    BY <1>1, <2>1, <2>3 DEF Apply, IInv, TypeOK
  <2>6. u.of \in Nat /\ m # 0 /\ u.of < m
    BY <1>1, <2>1, <2>4, <2>5 DEF Messages
  <2>7. m \in Messages(g) /\ Script[g][m].section = SectionOf(u)
    BY <1>1, <2>5, <2>6 DEF NInv, ShownInv
  <2>8. Script[g][m].kind = Script[g][u.of].kind
    BY <2>4, <2>7, SectionAssumption DEF SectionOf, Messages, Section
  <2> DEFINE v == Layout[Script[g][m].kind].value
  <2>9. PICK i \in Lines(g) : Of(g, i) = m /\ Part(g, i) = v
    BY <2>4, <2>7, ScriptFacts, LineOfPart
  <2>10. PICK y \in Lines(g) : Of(g, y) = u.of /\ Part(g, y) = v
    BY <2>4, <2>8, ScriptFacts, LineOfPart
  <2>11. KindOf(g, i) = KindOf(g, y) /\ IsValue(g, i) /\ IsValue(g, y)
    BY <2>8, <2>9, <2>10 DEF KindOf, IsValue, ValuePart, Of
  <2> HIDE DEF v
  <2>12. ReportedInv(g, i) /\ ReportedInv(g, y)
    <3>1. m \in Reported(g)
      BY <1>1, <2>5 DEF Reported
    <3>2. u.of \in Reported(g)
      BY DEF Reported
    <3> QED
      BY <1>1, <2>4, <2>9, <2>10, <2>11, <3>1, <3>2 DEF NInv
  <2> HIDE DEF m, g
  <2>13. ~(i <= y)
    <3>1. i \in Nat /\ y \in Nat
      BY <2>4, LineTypes
    <3>2. ~(i < y)
      BY <2>1, <2>4, <2>6, <2>9, <2>10, LineOrder DEF m
    <3>3. i # y
      BY <2>1, <2>6, <2>9, <2>10 DEF m
    <3> QED
      BY <3>1, <3>2, <3>3
  <2>14. CASE <<g, i>> \in ToSet(batch)
    BY <2>5, <2>9, <2>14 DEF Lines, Of, m
  <2>15. CASE <<g, i>> \notin ToSet(batch)
    <3>1. <<g, <<y, "late">>>> \in disturbed
      <4>1. CASE <<g, y>> \in ToSet(batch)
        <5> DEFINE t == LinesOf(batch, g)
        <5>1. phase # "failed"
          BY <1>1 DEF IInv, PhaseInv
        <5>2. fed[g] \in Seq(Lines(g)) /\ Once(fed[g]) /\ Ends(fed[g], t)
          BY <1>1, <2>4, <5>1, ParserTypes DEF IInv, ParsersInv, PhaseInv
        <5>3. /\ t \in Seq(Lines(g))
              /\ \A j : (\E q \in 1..Len(t) : t[q] = j) <=> <<g, j>> \in ToSet(batch)
          BY <1>1, <2>4, LinesOfBatch DEF IInv, TypeOK
        <5> HIDE DEF t
        <5>4. Contains(t, y) /\ ~Contains(t, i)
          BY <2>15, <4>1, <5>3 DEF Contains
        <5>5. Contains(fed[g], i) /\ IsDefined(KindOf(g, y))
          BY <2>12, <2>15 DEF ReportedInv, InPlace
        <5>6. Earlier(fed[g], i, y)
          BY <5>2, <5>3, <5>4, <5>5, EndsOrder
        <5>7. \A j \in Missing(g, fed[g]) : Contains(fed[g], j) => <<g, <<j, "late">>>> \in disturbed
          BY <1>1, <2>4 DEF NInv, LateInv
        <5> QED
          BY <2>4, <2>13, <5>2, <5>5, <5>6, <5>7, EarlierIsOlder
      <4>2. CASE <<g, y>> \notin ToSet(batch)
        <5>1. UpdatesNotOlder(g, i, updates, batch, disturbed)
          BY <2>12 DEF ReportedInv
        <5>2. NotOlder(g, y, i, disturbed)
          BY <2>10, <2>11, <2>15, <4>2, <5>1 DEF UpdatesNotOlder, g
        <5> QED
          BY <2>13, <5>2 DEF NotOlder
      <4> QED
        BY <4>1, <4>2
    <3> QED
      BY <2>5, <2>10, <3>1 DEF Lines, Of
  <2> QED
    BY <2>14, <2>15
<1>2. IInv /\ NInv /\ [Next]_vars =>
        [\A k \in Key : shown'[k] < shown[k] =>
          \E i \in 1..Len(Console[k[1]]) :
             \/ Console[k[1]][i].of = shown[k] /\ <<k[1], i>> \in ToSet(batch)
             \/ Console[k[1]][i].of = shown'[k] /\ <<k[1], <<i, "late">>>> \in disturbed]_vars
  BY <1>1
<1> QED
  BY <1>2, Invariance, ReportedInvariance, PTL DEF Spec, NoOldValueReturns

-----------------------------------------------------------------------------
(* NRPlusSink implements NodeReports.                                      *)

BegunOf(g, lines) == Max({0} \cup {Console[g][l[2]].of : l \in {l \in lines : l[1] = g}})
Begun == [g \in Gateway |-> BegunOf(g, passed)]
DisturbedMessages == {<<d[1], Console[d[1]][d[2][1]].of>> : d \in disturbed}

\* The actions of NodeReports, in these terms.
LEMMA ReportsActions ==
    /\ Reports!Init <=>
          Begun = [g \in Gateway |-> 0] /\ shown = [k \in Key |-> 0] /\ DisturbedMessages = {}
    /\ \A g : Reports!Begin(g) <=>
          /\ \E n \in 1..Len(Script[g]) : n > Begun[g] /\ Begun' = [Begun EXCEPT ![g] = n]
          /\ UNCHANGED <<shown, DisturbedMessages>>
    /\ Reports!Disturb <=>
          /\ DisturbedMessages \subseteq DisturbedMessages'
          /\ \A d \in DisturbedMessages' \ DisturbedMessages :
                d[1] \in Gateway /\ d[2] \in 1..Begun[d[1]]
          /\ UNCHANGED <<Begun, shown>>
    /\ \A g, m, n : Reports!Show(g, m, n) <=>
          /\ Script[g][m].section \in Section
          /\ shown' = [shown EXCEPT ![<<g, n, Script[g][m].section>>] = m]
          /\ UNCHANGED <<Begun, DisturbedMessages>>
    /\ \A g : Reports!Report(g) <=>
          \E m \in 1..Begun[g] : Reports!Show(g, m, Script[g][m].node)
    /\ \A g : Reports!Misreport(g) <=> \E m, k \in 1..Begun[g] :
          /\ \E d \in 1..Begun[g] : d <= m /\ d <= k /\ <<g, d>> \in DisturbedMessages
          /\ Reports!Show(g, m, Script[g][k].node)
    /\ UNCHANGED Reports!vars <=> UNCHANGED <<Begun, shown, DisturbedMessages>>
<1>1. Reports!Init <=>
         Begun = [g \in Gateway |-> 0] /\ shown = [k \in Key |-> 0] /\ DisturbedMessages = {}
  BY DEF Reports!Init, Reports!Key, Key, Begun, BegunOf, DisturbedMessages
<1>2. \A g : Reports!Begin(g) <=>
         /\ \E n \in 1..Len(Script[g]) : n > Begun[g] /\ Begun' = [Begun EXCEPT ![g] = n]
         /\ UNCHANGED <<shown, DisturbedMessages>>
  BY DEF Reports!Begin, Begun, BegunOf, DisturbedMessages
<1>3. Reports!Disturb <=>
         /\ DisturbedMessages \subseteq DisturbedMessages'
         /\ \A d \in DisturbedMessages' \ DisturbedMessages :
               d[1] \in Gateway /\ d[2] \in 1..Begun[d[1]]
         /\ UNCHANGED <<Begun, shown>>
  BY DEF Reports!Disturb, Begun, BegunOf, DisturbedMessages
<1>4. \A g, m, n : Reports!Show(g, m, n) <=>
         /\ Script[g][m].section \in Section
         /\ shown' = [shown EXCEPT ![<<g, n, Script[g][m].section>>] = m]
         /\ UNCHANGED <<Begun, DisturbedMessages>>
  BY DEF Reports!Show, Reports!HasValue, Begun, BegunOf, DisturbedMessages
<1>5. \A g : Reports!Report(g) <=>
         \E m \in 1..Begun[g] : Reports!Show(g, m, Script[g][m].node)
  BY DEF Reports!Report, Begun, BegunOf
<1>6. \A g : Reports!Misreport(g) <=> \E m, k \in 1..Begun[g] :
         /\ \E d \in 1..Begun[g] : d <= m /\ d <= k /\ <<g, d>> \in DisturbedMessages
         /\ Reports!Show(g, m, Script[g][k].node)
  BY DEF Reports!Misreport, Begun, BegunOf, DisturbedMessages
<1>7. UNCHANGED Reports!vars <=> UNCHANGED <<Begun, shown, DisturbedMessages>>
  BY DEF Reports!vars, Begun, BegunOf, DisturbedMessages
<1> QED
  BY <1>1, <1>2, <1>3, <1>4, <1>5, <1>6, <1>7

\* A gateway has begun to publish a message if it published a line of it or of
\* one after it.
LEMMA BegunUpTo ==
    ASSUME NEW g \in Gateway, NEW lines \in SUBSET Line
    PROVE  /\ BegunOf(g, lines) \in 0..Len(Script[g])
           /\ \A m \in Messages(g) :
                 (\E i \in Lines(g) : <<g, i>> \in lines /\ m <= Of(g, i)) <=> m \in 1..BegunOf(g, lines)
<1> DEFINE S == {0} \cup {Console[g][l[2]].of : l \in {l \in lines : l[1] = g}}
<1>1. \A x : x \in S <=> x = 0 \/ \E i \in Lines(g) : <<g, i>> \in lines /\ x = Of(g, i)
  <2>1. ASSUME NEW x \in S, x # 0
        PROVE  \E i \in Lines(g) : <<g, i>> \in lines /\ x = Of(g, i)
    <3>1. PICK l \in lines : l[1] = g /\ x = Console[g][l[2]].of
      BY <2>1
    <3>2. l[2] \in Lines(g) /\ <<g, l[2]>> \in lines
      BY <3>1, PairOfLine
    <3> QED
      BY <3>1, <3>2 DEF Of
  <2>2. ASSUME NEW i \in Lines(g), <<g, i>> \in lines
        PROVE  Of(g, i) \in S
    <3>1. <<g, i>>[1] = g /\ <<g, i>>[2] = i
      OBVIOUS
    <3> QED
      BY <2>2, <3>1 DEF Of
  <2>3. 0 \in S
    OBVIOUS
  <2> HIDE DEF S
  <2> QED
    BY <2>1, <2>2, <2>3
<1>2. BegunOf(g, lines) = Max(S)
  BY DEF BegunOf
<1> HIDE DEF S
<1>3. Len(Script[g]) \in Nat /\ \A i \in Lines(g) : Of(g, i) \in 1..Len(Script[g])
  BY LineFacts DEF Messages
<1>4. S \in SUBSET (0..Len(Script[g])) /\ S # {}
  <2>1. 0 \in S
    BY <1>1
  <2>2. ASSUME NEW x \in S
        PROVE  x \in 0..Len(Script[g])
    <3>1. CASE x = 0
      BY <1>3, <3>1
    <3>2. ASSUME NEW i \in Lines(g), x = Of(g, i)
          PROVE  x \in 0..Len(Script[g])
      <4>1. Of(g, i) \in 1..Len(Script[g])
        BY <1>3
      <4> QED
        BY <1>3, <3>2, <4>1
    <3> QED
      BY <1>1, <3>1, <3>2
  <2> QED
    BY <2>1, <2>2
<1>5. Max(S) \in S /\ \A x \in S : Max(S) >= x
  BY <1>3, <1>4, MaxOfNumbers
<1>6. Max(S) \in 0..Len(Script[g])
  BY <1>4, <1>5
<1>7. ASSUME NEW m \in Messages(g)
      PROVE  (\E i \in Lines(g) : <<g, i>> \in lines /\ m <= Of(g, i)) <=> m \in 1..Max(S)
  <2>1. m \in Nat \ {0}
    BY <1>3, <1>7 DEF Messages
  <2>2. ASSUME NEW i \in Lines(g), <<g, i>> \in lines, m <= Of(g, i)
        PROVE  m \in 1..Max(S)
    <3>1. Of(g, i) \in S /\ Of(g, i) \in Nat
      BY <1>1, <1>3, <2>2
    <3>2. Max(S) >= Of(g, i)
      BY <1>5, <3>1
    <3> QED
      BY <1>6, <2>1, <2>2, <3>1, <3>2
  <2>3. ASSUME m \in 1..Max(S)
        PROVE  \E i \in Lines(g) : <<g, i>> \in lines /\ m <= Of(g, i)
    <3>1. Max(S) # 0 /\ m <= Max(S)
      BY <1>6, <2>3
    <3>2. PICK i \in Lines(g) : <<g, i>> \in lines /\ Max(S) = Of(g, i)
      BY <1>1, <1>5, <3>1
    <3> QED
      BY <3>1, <3>2
  <2> QED
    BY <2>2, <2>3
<1> QED
  BY <1>2, <1>6, <1>7

LEMMA BegunTypes ==
    ASSUME IInv, NEW g \in Gateway
    PROVE  /\ Begun[g] \in 0..Len(Script[g])
           /\ \A m \in Messages(g) : PassedUpTo(g, m) <=> m \in 1..Begun[g]
<1>1. passed \in SUBSET Line
  BY DEF IInv, TypeOK
<1>2. Begun[g] = BegunOf(g, passed)
  BY DEF Begun
<1> QED
  BY <1>1, <1>2, BegunUpTo DEF PassedUpTo

LEMMA DisturbedIs ==
    /\ \A x : x \in DisturbedMessages <=> \E d \in disturbed : x = <<d[1], Of(d[1], d[2][1])>>
    /\ \A x : x \in DisturbedMessages' <=> \E d \in disturbed' : x = <<d[1], Of(d[1], d[2][1])>>
BY DEF DisturbedMessages, Of

\* What is published and what was disturbed decide the state of NodeReports.
LEMMA BegunStays ==
    ASSUME passed' = passed
    PROVE  Begun' = Begun
BY DEF Begun, BegunOf

LEMMA DisturbedStays ==
    ASSUME disturbed' = disturbed
    PROVE  DisturbedMessages' = DisturbedMessages
BY DEF DisturbedMessages

\* A line more is published: its message has begun, or had before.
LEMMA PublishImplements ==
    ASSUME IInv, NEW l \in Line, passed' = passed \cup {l}, shown' = shown, disturbed' = disturbed
    PROVE  [Reports!Next]_Reports!vars
<1>1. DisturbedMessages' = DisturbedMessages
  BY DisturbedStays
<1>2. passed \in SUBSET Line /\ passed' \in SUBSET Line
  BY DEF IInv, TypeOK
<1>3. PICK g \in Gateway : \E i \in Lines(g) : l = <<g, i>>
  BY PairOfLine
<1>4. PICK a, b : a = Begun /\ b = Begun'
  OBVIOUS
<1>5. /\ a = [h \in Gateway |-> BegunOf(h, passed)]
      /\ b = [h \in Gateway |-> BegunOf(h, passed')]
  BY <1>4 DEF Begun
<1>6. \A h \in Gateway : h # g => b[h] = a[h]
  <2>1. ASSUME NEW h \in Gateway, h # g
        PROVE  b[h] = a[h]
    <3>1. {x \in passed' : x[1] = h} = {x \in passed : x[1] = h}
      BY <1>3, <2>1
    <3> QED
      BY <1>5, <3>1 DEF BegunOf
  <2> QED
    BY <2>1
<1>7. a[g] \in 0..Len(Script[g]) /\ b[g] \in 0..Len(Script[g]) /\ a[g] <= b[g] /\ Len(Script[g]) \in Nat
  <2>1. /\ a[g] \in 0..Len(Script[g]) /\ b[g] \in 0..Len(Script[g])
        /\ \A m \in Messages(g) :
              (\E j \in Lines(g) : <<g, j>> \in passed /\ m <= Of(g, j)) <=> m \in 1..a[g]
        /\ \A m \in Messages(g) :
              (\E j \in Lines(g) : <<g, j>> \in passed' /\ m <= Of(g, j)) <=> m \in 1..b[g]
    BY <1>2, <1>5, BegunUpTo
  <2>2. Len(Script[g]) \in Nat
    BY LineFacts
  <2>3. CASE a[g] = 0
    BY <2>1, <2>2, <2>3
  <2>4. CASE a[g] # 0
    <3>1. a[g] \in Messages(g) /\ a[g] \in 1..a[g]
      BY <2>1, <2>2, <2>4 DEF Messages
    <3>2. PICK j \in Lines(g) : <<g, j>> \in passed /\ a[g] <= Of(g, j)
      BY <2>1, <3>1
    <3>3. <<g, j>> \in passed'
      BY <3>2
    <3>4. a[g] \in 1..b[g]
      BY <2>1, <3>1, <3>2, <3>3
    <3> QED
      BY <2>1, <2>2, <3>4
  <2> QED
    BY <2>3, <2>4
<1>8. CASE b[g] = a[g]
  <2>1. \A h \in Gateway : b[h] = a[h]
    BY <1>6, <1>8
  <2>2. b = a
    BY <1>5, <2>1
  <2> QED
    BY <1>1, <1>4, <2>2, ReportsActions
<1>9. CASE b[g] # a[g]
  <2>1. b[g] \in 1..Len(Script[g]) /\ b[g] > a[g]
    BY <1>7, <1>9
  <2>2. b = [a EXCEPT ![g] = b[g]]
    BY <1>5, <1>6
  <2>3. Reports!Begin(g)
    BY <1>1, <1>4, <2>1, <2>2, ReportsActions
  <2> QED
    BY <2>3 DEF Reports!Next
<1> QED
  BY <1>8, <1>9

\* More lines are disturbed, of messages that have begun.
LEMMA DisturbImplements ==
    ASSUME IInv, IInv', passed' = passed, shown' = shown, disturbed \subseteq disturbed'
    PROVE  [Reports!Next]_Reports!vars
<1>1. Begun' = Begun
  BY BegunStays
<1>2. DisturbedMessages \subseteq DisturbedMessages'
  BY DisturbedIs
<1>3. ASSUME NEW x \in DisturbedMessages'
      PROVE  x[1] \in Gateway /\ x[2] \in 1..Begun[x[1]]
  <2>1. PICK d \in disturbed' : x = <<d[1], Of(d[1], d[2][1])>>
    BY DisturbedIs
  <2>2. d[1] \in Gateway /\ d[2][1] \in Lines(d[1]) /\ PassedUpTo(d[1], Of(d[1], d[2][1]))'
    <3>1. TypeOK' /\ DisturbedInv'
      BY DEF IInv
    <3> QED
      BY <3>1 DEF TypeOK, DisturbedInv, Lines, Of
  <2>3. PassedUpTo(d[1], Of(d[1], d[2][1]))
    BY <2>2 DEF PassedUpTo, Lines, Of
  <2>4. Of(d[1], d[2][1]) \in Messages(d[1])
    BY <2>2, LineFacts
  <2>5. Of(d[1], d[2][1]) \in 1..Begun[d[1]]
    BY <2>2, <2>3, <2>4, BegunTypes
  <2> QED
    BY <2>1, <2>2, <2>5
<1>4. Reports!Disturb
  BY <1>1, <1>2, <1>3, ReportsActions
<1> QED
  BY <1>4 DEF Reports!Next

\* A request shows a value: for its node, or for another one.
LEMMA ApplyImplements ==
    ASSUME IInv, NEW u \in updates, Apply(u)
    PROVE  [Reports!Next]_Reports!vars
<1> DEFINE g == u.gateway
           m == u.of
<1>1. u \in Update /\ m \in Messages(g) /\ SectionOf(u) \in Section /\ Justified(u)
  BY DEF IInv, TypeOK, UpdatesInv, Messages
<1>2. g \in Gateway /\ Script[g][m].section \in Section
  BY <1>1 DEF Update, SectionOf
<1>3. /\ Begun' = Begun /\ DisturbedMessages' = DisturbedMessages
      /\ shown' = [shown EXCEPT ![<<g, u.node, Script[g][m].section>>] = m]
  BY BegunStays, DisturbedStays DEF Apply, SectionOf
<1>4. \A k \in Messages(g) : PassedUpTo(g, k) => k \in 1..Begun[g]
  BY <1>2, BegunTypes
<1>5. PassedUpTo(g, m)
  BY <1>1 DEF Justified
<1>6. m \in 1..Begun[g]
  BY <1>1, <1>4, <1>5
<1>7. CASE u.node = Script[g][m].node
  <2>1. Reports!Show(g, m, Script[g][m].node)
    BY <1>2, <1>3, <1>7, ReportsActions
  <2>2. Reports!Report(g)
    BY <1>6, <2>1, ReportsActions
  <2> QED
    BY <1>2, <2>2 DEF Reports!Next
<1>8. ASSUME NEW k \in Messages(g), u.node = Script[g][k].node, PassedUpTo(g, k),
             NEW i \in Lost(g), Of(g, i) <= m, Of(g, i) <= k
      PROVE  [Reports!Next]_Reports!vars
  <2>1. k \in 1..Begun[g]
    BY <1>4, <1>8
  <2>2. PICK d \in disturbed : d[1] = g /\ d[2][1] = i
    BY DEF Lost
  <2>3. <<g, Of(g, i)>> \in DisturbedMessages
    BY <2>2, DisturbedIs
  <2>4. Of(g, i) \in 1..Begun[g]
    <3>1. i \in Lines(g)
      BY DEF Lost
    <3>2. Of(g, i) \in Nat \ {0} /\ Begun[g] \in Nat
      <4>1. Begun[g] \in 0..Len(Script[g])
        BY <1>2, BegunTypes
      <4> QED
        BY <1>2, <3>1, <4>1, LineFacts DEF Messages
    <3> QED
      BY <1>6, <1>8, <3>2
  <2>5. Reports!Show(g, m, Script[g][k].node)
    BY <1>2, <1>3, <1>8, ReportsActions
  <2>6. Reports!Misreport(g)
    BY <1>6, <1>8, <2>1, <2>3, <2>4, <2>5, ReportsActions
  <2> QED
    BY <1>2, <2>6 DEF Reports!Next
<1> QED
  BY <1>1, <1>7, <1>8 DEF Justified

LEMMA NothingImplements ==
    ASSUME passed' = passed, shown' = shown, disturbed' = disturbed
    PROVE  [Reports!Next]_Reports!vars
BY BegunStays, DisturbedStays, ReportsActions

LEMMA InitImplements == Init => Reports!Init
<1> SUFFICES ASSUME Init
             PROVE  Reports!Init
  OBVIOUS
<1>1. passed = {} /\ disturbed = {} /\ shown = [k \in Key |-> 0]
  BY DEF Init
<1>2. DisturbedMessages = {}
  BY <1>1 DEF DisturbedMessages
<1>3. ASSUME NEW g \in Gateway
      PROVE  Begun[g] = 0
  <2>1. IInv
    BY Initially
  <2>2. Begun[g] \in 0..Len(Script[g]) /\ Len(Script[g]) \in Nat
    BY <2>1, BegunTypes, LineFacts
  <2>3. ASSUME Begun[g] # 0
        PROVE  FALSE
    <3>1. Begun[g] \in Messages(g) /\ Begun[g] \in 1..Begun[g]
      BY <2>2, <2>3 DEF Messages
    <3>2. PassedUpTo(g, Begun[g])
      BY <2>1, <3>1, BegunTypes
    <3> QED
      BY <1>1, <3>2 DEF PassedUpTo
  <2> QED
    BY <2>3
<1>4. Begun = [g \in Gateway |-> 0]
  BY <1>3 DEF Begun
<1> QED
  BY <1>1, <1>2, <1>4, ReportsActions

\* What the handler reports, and what it reports for the wrong node, is what
\* NodeReports allows.
THEOREM Implementation == Spec => RefinesReports
<1>1. IInv /\ IInv' /\ [Next]_vars => [Reports!Next]_Reports!vars
  <2> SUFFICES ASSUME IInv, IInv', [Next]_vars
               PROVE  [Reports!Next]_Reports!vars
    OBVIOUS
  <2>1. ASSUME NEW l \in Line, Put(l) \/ Lose(l)
        PROVE  [Reports!Next]_Reports!vars
    BY <2>1, PublishImplements DEF Put, Lose
  <2>2. ASSUME NEW u \in updates, Apply(u)
        PROVE  [Reports!Next]_Reports!vars
    BY <2>2, ApplyImplements
  <2>3. ASSUME NEW u \in updates, Fail(u)
        PROVE  [Reports!Next]_Reports!vars
    BY <2>3, DisturbImplements DEF Fail, NewParsers
  <2>4. CASE Invoke
    <3>1. passed' = passed /\ shown' = shown
      BY <2>4 DEF Invoke
    <3>2. disturbed \subseteq disturbed'
      BY <2>4 DEF Invoke, handler
    <3> QED
      BY <3>1, <3>2, DisturbImplements
  <2>5. CASE Finish
    BY <2>5, NothingImplements DEF Finish
  <2>6. CASE Recycle
    BY <2>6, DisturbImplements DEF Recycle, NewParsers
  <2>7. CASE UNCHANGED vars
    BY <2>7, NothingImplements DEF vars
  <2> QED
    BY <2>1, <2>2, <2>3, <2>4, <2>5, <2>6, <2>7 DEF Next
<1> QED
  BY <1>1, InitImplements, Invariance, PTL DEF Spec, RefinesReports, Reports!Spec

=============================================================================
