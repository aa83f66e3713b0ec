------------------------- MODULE NRPlusParserProofs -------------------------
(***************************************************************************)
(* Lemmas about the lines of NRPlusSink: the console of a gateway, the     *)
(* order of the lines of a batch, and what the parser holds and finds.     *)
(* NRPlusSinkProofs builds on them.                                        *)
(***************************************************************************)
EXTENDS NRPlusSink, LibraryLemmas

Lines(g) == 1..Len(Console[g])
Messages(g) == 1..Len(Script[g])
Of(g, i) == Console[g][i].of
Part(g, i) == Console[g][i].part
ConsoleLine == [of : Nat, part : Nat]

LEMMA ScriptFacts ==
    ASSUME NEW g \in Gateway, NEW m \in Messages(g)
    PROVE  /\ Script[g][m].kind \in Kind /\ Script[g][m].node \in Node
           /\ Script[g][m].section \in Section \cup {"none"}
           /\ LengthOf(g, m) \in Nat \ {0}
           /\ Layout[Script[g][m].kind].node \in 1..LengthOf(g, m)
           /\ Layout[Script[g][m].kind].value \in 1..LengthOf(g, m)
<1>1. Script[g] \in Seq([kind : Kind, node : Node, section : Section \cup {"none"}])
  BY ScriptAssumption
<1>2. Script[g][m] \in [kind : Kind, node : Node, section : Section \cup {"none"}]
  BY <1>1, ElementOfSeq DEF Messages
<1> QED
  BY <1>2, LayoutAssumption DEF LengthOf

-----------------------------------------------------------------------------
(* The console.                                                            *)

\* The lines of the first n messages: they are in order, none is missing, and
\* the last one ends message n.
Published(g, n, lines) ==
    /\ lines \in Seq(ConsoleLine)
    /\ n = 0 => Len(lines) = 0
    /\ n # 0 => /\ Len(lines) # 0
                /\ lines[1].of = 1 /\ lines[1].part = 1
                /\ lines[Len(lines)].of = n /\ lines[Len(lines)].part = LengthOf(g, n)
    /\ \A i \in 1..Len(lines) :
          /\ lines[i].of \in 1..n /\ lines[i].part \in 1..LengthOf(g, lines[i].of)
          /\ lines[i].part < LengthOf(g, lines[i].of) =>
                /\ i < Len(lines)
                /\ lines[i + 1].of = lines[i].of /\ lines[i + 1].part = lines[i].part + 1
          /\ lines[i].part = LengthOf(g, lines[i].of) /\ i < Len(lines) =>
                lines[i + 1].of = lines[i].of + 1 /\ lines[i + 1].part = 1
    /\ \A m \in 1..n : \E i \in 1..Len(lines) : lines[i].of = m /\ lines[i].part = 1

\* One message more.
LEMMA OwnLines ==
    ASSUME NEW n \in Nat, NEW l \in Nat,
           NEW own, own = [p \in 1..l |-> [of |-> n, part |-> p]]
    PROVE  /\ own \in Seq(ConsoleLine) /\ Len(own) = l
           /\ \A p \in 1..l : own[p].of = n /\ own[p].part = p
<1>1. \A p \in 1..l : p \in Nat
  OBVIOUS
<1>2. own \in [1..l -> ConsoleLine]
  BY <1>1 DEF ConsoleLine
<1>3. \A p \in 1..l : own[p].of = n /\ own[p].part = p
  OBVIOUS
<1>4. own \in Seq(ConsoleLine)
  BY ONLY <1>2, SeqDef, l \in Nat
<1>5. DOMAIN own = 1..l
  BY <1>2
<1>6. Len(own) = l
  BY ONLY <1>4, <1>5, LenProperties, l \in Nat
<1> QED
  BY <1>3, <1>4, <1>6

LEMMA PublishedNext ==
    ASSUME NEW g \in Gateway, NEW n \in Messages(g), NEW lines, Published(g, n - 1, lines),
           NEW l, l = LengthOf(g, n),
           NEW own \in Seq(ConsoleLine), Len(own) = l,
           \A p \in 1..l : own[p].of = n /\ own[p].part = p
    PROVE  Published(g, n, lines \o own)
<1> DEFINE new == lines \o own
           k == Len(lines)
<1>1. n \in Nat \ {0} /\ l \in Nat \ {0} /\ lines \in Seq(ConsoleLine) /\ k \in Nat
  BY ScriptFacts, LenProperties DEF Messages, Published
<1>2. /\ new \in Seq(ConsoleLine) /\ Len(new) = k + l
      /\ \A i \in 1..(k + l) : new[i] = IF i <= k THEN lines[i] ELSE own[i - k]
  BY ONLY <1>1, ConcatProperties, own \in Seq(ConsoleLine), Len(own) = l
<1>3. \A i \in 1..k :
         /\ lines[i].of \in 1..(n - 1) /\ lines[i].part \in 1..LengthOf(g, lines[i].of)
         /\ lines[i].part < LengthOf(g, lines[i].of) =>
               /\ i < k
               /\ lines[i + 1].of = lines[i].of /\ lines[i + 1].part = lines[i].part + 1
         /\ lines[i].part = LengthOf(g, lines[i].of) /\ i < k =>
               lines[i + 1].of = lines[i].of + 1 /\ lines[i + 1].part = 1
  BY DEF Published
<1>4. /\ k # 0 => n - 1 # 0 /\ lines[k].of = n - 1 /\ lines[k].part = LengthOf(g, n - 1)
      /\ n - 1 # 0 => k # 0 /\ lines[1].of = 1 /\ lines[1].part = 1
  BY DEF Published
<1>5. \A m \in 1..(n - 1) : \E i \in 1..k : lines[i].of = m /\ lines[i].part = 1
  BY DEF Published
<1> HIDE DEF new, k
<1>6. \A i \in 1..k : new[i] = lines[i]
  BY <1>1, <1>2
<1>7. \A p \in 1..l : new[k + p].of = n /\ new[k + p].part = p
  <2>1. ASSUME NEW p \in 1..l
        PROVE  new[k + p] = own[p]
    <3>1. k + p \in 1..(k + l) /\ ~(k + p <= k) /\ (k + p) - k = p
      BY <1>1
    <3>2. new[k + p] = IF k + p <= k THEN lines[k + p] ELSE own[(k + p) - k]
      BY <1>2, <3>1
    <3> QED
      BY <3>1, <3>2
  <2> QED
    BY <2>1
<1>8. /\ Len(new) # 0
      /\ new[1].of = 1 /\ new[1].part = 1
      /\ new[Len(new)].of = n /\ new[Len(new)].part = LengthOf(g, n)
  <2>1. l \in 1..l /\ 1 \in 1..l /\ Len(new) = k + l
    BY <1>1, <1>2
  <2>2. Len(new) # 0 /\ new[Len(new)].of = n /\ new[Len(new)].part = l
    BY <1>1, <1>7, <2>1
  <2>3. CASE k = 0
    <3>1. new[1].of = n /\ new[1].part = 1 /\ n = 1
      <4>1. k + 1 = 1
        BY <2>3
      <4> QED
        BY <1>1, <1>4, <1>7, <2>1, <2>3, <4>1
    <3> QED
      BY <2>2, <3>1
  <2>4. CASE k # 0
    <3>1. new[1] = lines[1]
      BY <1>1, <1>6, <2>4
    <3> QED
      BY <1>4, <2>2, <2>4, <3>1
  <2> QED
    BY <2>3, <2>4
<1>9. ASSUME NEW i \in 1..Len(new)
      PROVE  /\ new[i].of \in 1..n /\ new[i].part \in 1..LengthOf(g, new[i].of)
             /\ new[i].part < LengthOf(g, new[i].of) =>
                   /\ i < Len(new)
                   /\ new[i + 1].of = new[i].of /\ new[i + 1].part = new[i].part + 1
             /\ new[i].part = LengthOf(g, new[i].of) /\ i < Len(new) =>
                   new[i + 1].of = new[i].of + 1 /\ new[i + 1].part = 1
  <2>1. CASE i \in 1..(k - 1)
    <3>1. i \in 1..k /\ i + 1 \in 1..k /\ i < k
      BY <1>1, <2>1
    <3>2. new[i] = lines[i] /\ new[i + 1] = lines[i + 1]
      BY <1>6, <3>1
    <3> QED
      BY <1>1, <1>2, <1>3, <3>1, <3>2
  <2>2. CASE i = k
    <3>1. i \in 1..k /\ k # 0 /\ n - 1 \in 1..n
      BY <1>1, <1>4, <2>2
    <3>2. new[i].of = n - 1 /\ new[i].part = LengthOf(g, n - 1)
      BY <1>4, <1>6, <2>2, <3>1
    <3>3. 1 \in 1..l
      BY <1>1
    <3>4. new[i + 1].of = n /\ new[i + 1].part = 1
      BY <1>7, <2>2, <3>3
    <3>5. LengthOf(g, n - 1) \in Nat \ {0}
      BY <1>1, <1>4, <3>1, ScriptFacts DEF Messages
    <3> QED
      BY <1>1, <3>1, <3>2, <3>4, <3>5
  <2>3. CASE i \in (k + 1)..(k + l)
    <3>1. PICK p \in 1..l : i = k + p
      <4>1. i - k \in 1..l /\ i = k + (i - k)
        BY <1>1, <2>3
      <4> QED
        BY <4>1
    <3>2. new[i].of = n /\ new[i].part = p
      BY <1>7, <3>1
    <3>3. CASE p = l
      BY <1>1, <1>2, <3>1, <3>2, <3>3
    <3>4. CASE p # l
      <4>1. p + 1 \in 1..l /\ k + (p + 1) = i + 1
        BY <1>1, <3>1, <3>4
      <4>2. new[i + 1].of = n /\ new[i + 1].part = p + 1
        BY <1>7, <4>1
      <4> QED
        BY <1>1, <1>2, <3>1, <3>2, <3>4, <4>1, <4>2
    <3> QED
      BY <3>3, <3>4
  <2> QED
    BY <1>1, <1>2, <2>1, <2>2, <2>3
<1>10. ASSUME NEW m \in 1..n
       PROVE  \E i \in 1..Len(new) : new[i].of = m /\ new[i].part = 1
  <2>1. CASE m \in 1..(n - 1)
    <3>1. PICK i \in 1..k : lines[i].of = m /\ lines[i].part = 1
      BY <1>5, <2>1
    <3>2. i \in 1..Len(new) /\ new[i] = lines[i]
      BY <1>1, <1>2, <1>6
    <3> QED
      BY <3>1, <3>2
  <2>2. CASE m = n
    <3>1. k + 1 \in 1..Len(new) /\ 1 \in 1..l
      BY <1>1, <1>2
    <3>2. new[k + 1].of = n /\ new[k + 1].part = 1
      BY <1>7, <3>1
    <3> QED
      BY <2>2, <3>1, <3>2
  <2> QED
    BY <1>1, <2>1, <2>2
<1>11. Published(g, n, new)
  BY <1>1, <1>2, <1>8, <1>9, <1>10 DEF Published
<1> QED
  BY <1>11 DEF new

LEMMA ConsolePublished ==
    ASSUME NEW g \in Gateway
    PROVE  Published(g, Len(Script[g]), Console[g])
<1> DEFINE n == Len(Script[g])
           own(m) == [p \in 1..LengthOf(g, m) |-> [of |-> m, part |-> p]]
           S == Seq(ConsoleLine)
           step == [a \in S \X (1..n) |-> a[1] \o own(a[2])]
           Body(f) == [m \in 0..n |-> IF m = 0 THEN <<>> ELSE f[m - 1] \o own(m)]
           lines == CHOOSE f : f = Body(f)
<1>1. n \in Nat
  BY ScriptAssumption, LenProperties
<1>2. ASSUME NEW m \in 1..n
      PROVE  /\ own(m) \in Seq(ConsoleLine) /\ Len(own(m)) = LengthOf(g, m)
             /\ \A p \in 1..LengthOf(g, m) : own(m)[p].of = m /\ own(m)[p].part = p
  <2>1. LengthOf(g, m) \in Nat /\ m \in Nat
    BY <1>1, ScriptFacts DEF Messages
  <2> QED
    BY <2>1, OwnLines
<1>3. Console[g] = lines[n]
  BY DEF Console
<1> HIDE DEF own
<1>4. step \in [S \X (1..n) -> S] /\ \A s \in S, k \in 1..n : step[<<s, k>>] = s \o own(k)
  <2>1. ASSUME NEW a \in S \X (1..n)
        PROVE  a[1] \o own(a[2]) \in S
    BY <1>2, ConcatProperties
  <2> QED
    BY <2>1
<1>5. <<>> \in S
  BY EmptySeq
<1> HIDE DEF S, step, n
<1>6. PICK f \in [0..n -> S] : f[0] = <<>> /\ \A k \in 1..n : f[k] = step[<<f[k - 1], k>>]
  <2>1. Iterates(S, n, <<>>, step)
    BY <1>1, <1>4, <1>5, Iteration
  <2> QED
    BY <2>1 DEF Iterates
<1>7. \A k \in 1..n : f[k] = f[k - 1] \o own(k)
  <2>1. ASSUME NEW k \in 1..n
        PROVE  f[k] = f[k - 1] \o own(k)
    <3>1. k - 1 \in 0..n
      BY <1>1
    <3>2. f[k - 1] \in S
      BY <3>1
    <3> QED
      BY <1>4, <1>6, <3>2
  <2> QED
    BY <2>1
<1>8. f = Body(f)
  <2>1. ASSUME NEW m \in 0..n
        PROVE  f[m] = IF m = 0 THEN <<>> ELSE f[m - 1] \o own(m)
    BY <1>1, <1>6, <1>7
  <2> QED
    BY <2>1
<1>9. lines = Body(lines)
  <2> HIDE DEF Body
  <2> QED
    BY <1>8
<1> HIDE DEF lines
<1>10. lines[0] = <<>> /\ \A m \in 1..n : lines[m] = lines[m - 1] \o own(m)
  <2>1. \A m \in 0..n : lines[m] = IF m = 0 THEN <<>> ELSE lines[m - 1] \o own(m)
    BY <1>9
  <2> HIDE DEF Body
  <2>2. 0 \in 0..n
    BY <1>1
  <2>3. ASSUME NEW m \in 1..n
        PROVE  lines[m] = lines[m - 1] \o own(m)
    <3>1. m \in 0..n /\ m # 0
      BY <1>1
    <3> QED
      BY <2>1, <3>1
  <2> QED
    BY <2>1, <2>2, <2>3
<1> HIDE DEF Body
<1> DEFINE T == {m \in Nat : m <= n /\ ~Published(g, m, lines[m])}
<1> SUFFICES ASSUME n \in T
             PROVE  FALSE
  BY <1>1, <1>3 DEF n
<1> T \in SUBSET Nat
  OBVIOUS
<1>11. PICK m \in T : \A k \in T : m <= k
  <2> HIDE DEF T
  <2> QED
    BY LeastNatural
<1>12. m \in Nat /\ m <= n /\ ~Published(g, m, lines[m])
  OBVIOUS
<1>13. m # 0
  <2>1. <<>> \in Seq(ConsoleLine) /\ Len(<<>>) = 0
    BY EmptySeq
  <2>2. Published(g, 0, <<>>)
    BY <2>1 DEF Published
  <2> QED
    BY <1>10, <1>12, <2>2
<1>14. m - 1 \notin T /\ m - 1 \in Nat
  <2> HIDE DEF T
  <2> QED
    BY <1>11, <1>12, <1>13
<1>15. Published(g, m - 1, lines[m - 1])
  BY <1>12, <1>14
<1>16. m \in 1..n /\ m \in Messages(g)
  BY <1>12, <1>13 DEF n, Messages
<1>17. Published(g, m, lines[m - 1] \o own(m))
  BY <1>2, <1>15, <1>16, PublishedNext
<1> QED
  BY <1>10, <1>12, <1>16, <1>17

\* A line is followed by the next one of its message, or ends it; and it has
\* the one before it, or begins it.
LEMMA LineFacts ==
    ASSUME NEW g \in Gateway
    PROVE  /\ Console[g] \in Seq(ConsoleLine) /\ Len(Console[g]) \in Nat
           /\ Len(Script[g]) \in Nat
           /\ \A i \in Lines(g) :
                 /\ i \in Nat
                 /\ Of(g, i) \in Messages(g) /\ LengthOf(g, Of(g, i)) \in Nat \ {0}
                 /\ Part(g, i) \in 1..LengthOf(g, Of(g, i))
                 /\ Part(g, i) # LengthOf(g, Of(g, i)) =>
                       /\ i + 1 \in Lines(g) /\ Of(g, i + 1) = Of(g, i)
                       /\ Part(g, i + 1) = Part(g, i) + 1
                 /\ Part(g, i) # 1 =>
                       /\ i - 1 \in Lines(g) /\ Of(g, i - 1) = Of(g, i)
                       /\ Part(g, i - 1) = Part(g, i) - 1
<1> DEFINE lines == Console[g]
           n == Len(Script[g])
<1>1. Published(g, n, lines)
  BY ConsolePublished
<1>2. n \in Nat /\ lines \in Seq(ConsoleLine) /\ Len(lines) \in Nat
  BY <1>1, ScriptAssumption, LenProperties DEF Published
<1>3. \A i \in 1..Len(lines) :
         /\ lines[i].of \in 1..n /\ lines[i].part \in 1..LengthOf(g, lines[i].of)
         /\ lines[i].part < LengthOf(g, lines[i].of) =>
               /\ i < Len(lines)
               /\ lines[i + 1].of = lines[i].of /\ lines[i + 1].part = lines[i].part + 1
         /\ lines[i].part = LengthOf(g, lines[i].of) /\ i < Len(lines) =>
               lines[i + 1].of = lines[i].of + 1 /\ lines[i + 1].part = 1
  BY <1>1 DEF Published
<1>4. n # 0 => lines[1].part = 1
  BY <1>1 DEF Published
<1>5. \A m \in 1..n : LengthOf(g, m) \in Nat \ {0}
  BY ScriptFacts DEF Messages
<1> HIDE DEF lines, n
<1>6. ASSUME NEW i \in 1..Len(lines)
      PROVE  /\ i \in Nat /\ lines[i].of \in 1..n
             /\ LengthOf(g, lines[i].of) \in Nat \ {0}
             /\ lines[i].part \in 1..LengthOf(g, lines[i].of)
             /\ lines[i].part # LengthOf(g, lines[i].of) =>
                   /\ i + 1 \in 1..Len(lines) /\ lines[i + 1].of = lines[i].of
                   /\ lines[i + 1].part = lines[i].part + 1
  BY <1>2, <1>3, <1>5
<1>7. ASSUME NEW i \in 1..Len(lines), lines[i].part # 1
      PROVE  /\ i - 1 \in 1..Len(lines) /\ lines[i - 1].of = lines[i].of
             /\ lines[i - 1].part = lines[i].part - 1
  <2>1. i # 1
    <3>1. n # 0
      BY <1>2, <1>6
    <3> QED
      BY <1>4, <1>7, <3>1
  <2>2. i - 1 \in 1..Len(lines) /\ i - 1 < Len(lines) /\ (i - 1) + 1 = i
    BY <1>2, <2>1
  <2>3. lines[i - 1].part # LengthOf(g, lines[i - 1].of)
    BY <1>3, <1>7, <2>2
  <2>4. /\ lines[i - 1].part \in Int
        /\ lines[(i - 1) + 1].of = lines[i - 1].of
        /\ lines[(i - 1) + 1].part = lines[i - 1].part + 1
    BY <1>6, <2>2, <2>3
  <2> QED
    BY <2>2, <2>4
<1> QED
  BY <1>2, <1>6, <1>7 DEF Lines, Of, Part, Messages, lines, n

LEMMA LineTypes ==
    ASSUME NEW g \in Gateway, NEW i \in Lines(g)
    PROVE  /\ i \in Nat /\ Of(g, i) \in Nat /\ Part(g, i) \in Nat \ {0}
           /\ Part(g, i) <= LengthOf(g, Of(g, i)) /\ LengthOf(g, Of(g, i)) \in Nat
<1>1. /\ i \in Nat /\ Of(g, i) \in Messages(g) /\ LengthOf(g, Of(g, i)) \in Nat
      /\ Part(g, i) \in 1..LengthOf(g, Of(g, i)) /\ Len(Script[g]) \in Nat
  BY LineFacts
<1> QED
  BY <1>1 DEF Messages

\* Lines are in the order of their messages and parts.
LEMMA LineOrder ==
    ASSUME NEW g \in Gateway, NEW i \in Lines(g), NEW j \in Lines(g), i < j
    PROVE  Of(g, i) < Of(g, j) \/ (Of(g, i) = Of(g, j) /\ Part(g, j) = Part(g, i) + (j - i))
<1> DEFINE Ordered(k) == Of(g, i) < Of(g, k) \/
                         (Of(g, i) = Of(g, k) /\ Part(g, k) = Part(g, i) + (k - i))
           T == {k \in Nat : k \in Lines(g) /\ i < k /\ ~Ordered(k)}
<1>1. j \in Nat /\ i \in Nat
  BY DEF Lines
<1> SUFFICES ASSUME j \in T
             PROVE  FALSE
  BY <1>1
<1> T \in SUBSET Nat
  OBVIOUS
<1>2. PICK k \in T : \A l \in T : k <= l
  <2> HIDE DEF T
  <2> QED
    BY LeastNatural
<1>3. k \in Nat /\ k \in Lines(g) /\ i < k /\ ~Ordered(k)
  OBVIOUS
<1>4. k - 1 \notin T
  <2> HIDE DEF T
  <2> QED
    BY <1>2, <1>3
<1>5. k - 1 \in Nat /\ k - 1 \in Lines(g)
  BY <1>1, <1>3 DEF Lines
<1>6. i = k - 1 \/ Ordered(k - 1)
  BY <1>1, <1>3, <1>4, <1>5
<1> HIDE DEF T
<1>7. /\ Of(g, i) \in Nat /\ Of(g, k) \in Nat /\ Of(g, k - 1) \in Nat
      /\ Part(g, i) \in Nat /\ Part(g, k) \in Nat /\ Part(g, k - 1) \in Nat
  BY <1>3, <1>5, LineTypes
<1>8. \/ Of(g, k) = Of(g, k - 1) /\ Part(g, k) = Part(g, k - 1) + 1
      \/ Of(g, k) = Of(g, k - 1) + 1
  <2>1. Published(g, Len(Script[g]), Console[g])
    BY ConsolePublished
  <2>2. /\ k - 1 < Len(Console[g]) /\ (k - 1) + 1 = k
        /\ Console[g][k - 1].part \in Nat /\ LengthOf(g, Console[g][k - 1].of) \in Nat
        /\ Console[g][k - 1].part <= LengthOf(g, Console[g][k - 1].of)
    <3>1. /\ Part(g, k - 1) \in Nat /\ LengthOf(g, Of(g, k - 1)) \in Nat
          /\ Part(g, k - 1) <= LengthOf(g, Of(g, k - 1))
      BY <1>5, LineTypes
    <3>2. Len(Console[g]) \in Nat
      BY LineFacts
    <3> QED
      BY <1>3, <3>1, <3>2 DEF Lines, Of, Part
  <2>3. /\ Console[g][k - 1].part < LengthOf(g, Console[g][k - 1].of) =>
              Console[g][k].of = Console[g][k - 1].of /\ Console[g][k].part = Console[g][k - 1].part + 1
        /\ Console[g][k - 1].part = LengthOf(g, Console[g][k - 1].of) =>
              Console[g][k].of = Console[g][k - 1].of + 1
    BY <1>5, <2>1, <2>2 DEF Published, Lines
  <2> QED
    BY <2>2, <2>3 DEF Of, Part
<1> QED
  BY <1>1, <1>3, <1>6, <1>7, <1>8

\* A line is known by its message and its part.
LEMMA LineUnique ==
    ASSUME NEW g \in Gateway, NEW i \in Lines(g), NEW j \in Lines(g),
           Of(g, i) = Of(g, j), Part(g, i) = Part(g, j)
    PROVE  i = j
<1>1. i \in Nat /\ j \in Nat /\ Of(g, i) \in Nat /\ Part(g, i) \in Nat
  BY LineFacts DEF Messages
<1>2. ~(i < j)
  BY <1>1, LineOrder
<1>3. ~(j < i)
  BY <1>1, LineOrder
<1> QED
  BY <1>1, <1>2, <1>3

\* Each message has all its lines.
LEMMA LineOfPart ==
    ASSUME NEW g \in Gateway, NEW m \in Messages(g), NEW p \in 1..LengthOf(g, m)
    PROVE  \E i \in Lines(g) : Of(g, i) = m /\ Part(g, i) = p
<1> DEFINE Has(q) == \E i \in Lines(g) : Of(g, i) = m /\ Part(g, i) = q
           T == {q \in Nat : q \in 1..LengthOf(g, m) /\ ~Has(q)}
<1>1. LengthOf(g, m) \in Nat /\ p \in Nat
  BY ScriptFacts
<1> SUFFICES ASSUME p \in T
             PROVE  FALSE
  BY <1>1
<1> T \in SUBSET Nat
  OBVIOUS
<1>2. PICK q \in T : \A k \in T : q <= k
  <2> HIDE DEF T
  <2> QED
    BY LeastNatural
<1>3. q \in Nat /\ q \in 1..LengthOf(g, m) /\ ~Has(q)
  OBVIOUS
<1>4. q # 1
  <2>1. Published(g, Len(Script[g]), Console[g])
    BY ConsolePublished
  <2>2. \E i \in 1..Len(Console[g]) : Console[g][i].of = m /\ Console[g][i].part = 1
    BY <2>1 DEF Published, Messages
  <2> QED
    BY <1>3, <2>2 DEF Lines, Of, Part
<1>5. q - 1 \notin T
  <2> HIDE DEF T
  <2> QED
    BY <1>2, <1>3
<1>6. PICK i \in Lines(g) : Of(g, i) = m /\ Part(g, i) = q - 1
  BY <1>1, <1>3, <1>4, <1>5
<1>7. i + 1 \in Lines(g) /\ Of(g, i + 1) = m /\ Part(g, i + 1) = q
  <2>1. Part(g, i) # LengthOf(g, Of(g, i))
    BY <1>1, <1>3, <1>6
  <2>2. (q - 1) + 1 = q
    BY <1>3
  <2> QED
    BY <1>6, <2>1, <2>2, LineFacts
<1> QED
  BY <1>3, <1>7

-----------------------------------------------------------------------------
(* The lines of a batch.                                                   *)

\* The order of the text tells counters apart.
LEMMA TextOrderCases ==
    ASSUME NEW a \in Nat
    PROVE  \/ a < 10 /\ TextOrder(a) = 5000 * a + 1
           \/ a >= 10 /\ a < 100 /\ TextOrder(a) = 500 * a + 2
           \/ a >= 100 /\ a < 1000 /\ TextOrder(a) = 50 * a + 3
           \/ a >= 1000 /\ TextOrder(a) = 5 * a + 4
BY DEF TextOrder

LEMMA TextOrderInjective ==
    ASSUME NEW a \in Nat, NEW b \in Nat, TextOrder(a) = TextOrder(b)
    PROVE  a = b
BY TextOrderCases

LEMMA TextOrderType ==
    ASSUME NEW a \in Nat
    PROVE  TextOrder(a) \in Nat
BY TextOrderCases

LEMMA LineMembers ==
    ASSUME NEW l
    PROVE  l \in Line <=> \E g \in Gateway : \E i \in Lines(g) : l = <<g, i>>
BY DEF Line, Lines

\* The lines of a gateway that are given to its parser are those in the batch,
\* each once.
LEMMA LinesOfBatch ==
    ASSUME NEW g \in Gateway, NEW records \in Seq(Line)
    PROVE  /\ LinesOf(records, g) \in Seq(Lines(g))
           /\ \A j, k \in 1..Len(LinesOf(records, g)) :
                 LinesOf(records, g)[j] = LinesOf(records, g)[k] => j = k
           /\ \A i : (\E j \in 1..Len(LinesOf(records, g)) : LinesOf(records, g)[j] = i)
                        <=> <<g, i>> \in ToSet(records)
<1> DEFINE mine == {l[2] : l \in {l \in ToSet(records) : l[1] = g}}
           key == [i \in mine |-> TextOrder(FirstCounter + i)]
           Ascends(s) == \A i, j \in DOMAIN s : i < j => ascending(s[i], s[j])
           n == Cardinality(mine)
           s == LinesOf(records, g)
<1>1. ToSet(records) \subseteq Line
  BY ElementsOf
<1>2. \A i : i \in mine <=> <<g, i>> \in ToSet(records)
  <2>1. ASSUME NEW i \in mine
        PROVE  <<g, i>> \in ToSet(records)
    <3>1. PICK l \in ToSet(records) : l[1] = g /\ l[2] = i
      OBVIOUS
    <3>2. \E h \in Gateway : \E k \in Lines(h) : l = <<h, k>>
      BY <1>1, LineMembers
    <3>3. l = <<g, i>>
      BY <3>1, <3>2
    <3> QED
      BY <3>1, <3>3
  <2>2. ASSUME NEW i, <<g, i>> \in ToSet(records)
        PROVE  i \in mine
    <3>1. <<g, i>>[1] = g /\ <<g, i>>[2] = i
      OBVIOUS
    <3> QED
      BY <2>2, <3>1
  <2> QED
    BY <2>1, <2>2
<1>3. s = CHOOSE t \in [1..n -> mine] : Ascends(t)
  BY DEF LinesOf
<1> HIDE DEF mine, s
<1>4. mine \subseteq Lines(g)
  <2>1. ASSUME NEW i \in mine
        PROVE  i \in Lines(g)
    <3>1. <<g, i>> \in Line
      BY <1>1, <1>2
    <3>2. \E h \in Gateway : \E k \in Lines(h) : <<g, i>> = <<h, k>>
      BY <3>1, LineMembers
    <3> QED
      BY <3>2
  <2> QED
    BY <2>1
<1>5. IsFiniteSet(mine)
  <2>1. IsFiniteSet(Lines(g))
    BY LineFacts, FS_Interval, 1 \in Int DEF Lines
  <2> QED
    BY <1>4, <2>1, FS_Subset
<1>6. \A i \in mine : FirstCounter + i \in Nat
  BY <1>4, BoundsAssumption DEF Lines
<1>7. key \in [mine -> Nat] /\ \A i \in mine : key[i] = TextOrder(FirstCounter + i)
  BY <1>6, TextOrderType
<1> HIDE DEF key
<1>8. \A i, j \in mine : key[i] = key[j] => i = j
  <2>1. ASSUME NEW i \in mine, NEW j \in mine, key[i] = key[j]
        PROVE  i = j
    <3>1. FirstCounter + i = FirstCounter + j
      BY <1>6, <1>7, <2>1, TextOrderInjective
    <3>2. i \in Nat /\ j \in Nat /\ FirstCounter \in Nat
      BY <1>4, BoundsAssumption DEF Lines
    <3> QED
      BY <3>1, <3>2
  <2> QED
    BY <2>1
<1>9. PICK t : SortedBy(mine, key, t)
  BY <1>5, <1>7, <1>8, SortedListing
<1>10. ASSUME NEW t1 \in [1..n -> mine]
       PROVE  Ascends(t1) <=> \A i, j \in 1..n : i < j => key[t1[i]] < key[t1[j]]
  <2>1. \A i, j \in 1..n : ascending(t1[i], t1[j]) <=> key[t1[i]] < key[t1[j]]
    BY <1>7 DEF ascending
  <2> QED
    BY <2>1
<1>11. Ascends(t)
  BY <1>9, <1>10 DEF SortedBy
<1> HIDE DEF Ascends
<1>12. s \in [1..n -> mine] /\ Ascends(s)
  BY <1>3, <1>9, <1>11 DEF SortedBy
<1>13. SortedBy(mine, key, s)
  BY <1>10, <1>12 DEF SortedBy
<1>14. /\ s \in Seq(mine) /\ Len(s) = n
       /\ \A i, j \in 1..Len(s) : s[i] = s[j] => i = j
       /\ \A x \in mine : \E i \in 1..Len(s) : s[i] = x
  BY <1>5, <1>7, <1>13, SortedListingIsWhole
<1>15. s \in Seq(Lines(g))
  BY <1>4, <1>14, SeqMonotonic
<1>16. \A i \in 1..Len(s) : s[i] \in mine
  BY <1>14, ElementOfSeq
<1>17. ASSUME NEW i
       PROVE  (\E j \in 1..Len(s) : s[j] = i) <=> <<g, i>> \in ToSet(records)
  <2>1. (\E j \in 1..Len(s) : s[j] = i) <=> i \in mine
    BY <1>14, <1>16
  <2> QED
    BY <1>2, <2>1
<1>18. \A i, j \in 1..Len(s) : s[i] = s[j] => i = j
  BY <1>14
<1> QED
  BY <1>15, <1>17, <1>18 DEF s

-----------------------------------------------------------------------------
(* The lines that match a definition.                                      *)

\* One line more: it is taken if it matches the next line of the definition.
Taken(g, i, kind, r) ==
    IF KindOf(g, i) = kind /\ Part(g, i) = Len(r) + 1 THEN Append(r, i) ELSE r

Run(g, lines, kind, got) ==
    /\ got \in [0..Len(lines) -> Seq(Lines(g))]
    /\ got[0] = <<>>
    /\ \A k \in 1..Len(lines) : got[k] = Taken(g, lines[k], kind, got[k - 1])

LEMMA ParseRun ==
    ASSUME NEW g \in Gateway, NEW lines \in Seq(Lines(g)), NEW kind
    PROVE  \E got : /\ Run(g, lines, kind, got)
                    /\ parseMessages(g, lines, kind) = got[Len(lines)]
<1> DEFINE n == Len(lines)
           S == Seq(Lines(g))
           step == [a \in S \X (1..n) |-> Taken(g, lines[a[2]], kind, a[1])]
           Body(f) == [k \in 0..n |-> IF k = 0 THEN <<>> ELSE
                          LET result == f[k - 1]
                          IN  IF KindOf(g, lines[k]) = kind
                                 /\ Console[g][lines[k]].part = Len(result) + 1
                              THEN Append(result, lines[k]) ELSE result]
           got == CHOOSE f : f = Body(f)
<1>1. n \in Nat /\ \A k \in 1..n : lines[k] \in Lines(g)
  BY LenProperties, ElementOfSeq
<1>2. parseMessages(g, lines, kind) = got[n]
  BY DEF parseMessages
<1>4. ASSUME NEW r \in S, NEW k \in 1..n
      PROVE  Taken(g, lines[k], kind, r) \in S
  BY <1>1, <1>4, AppendProperties DEF Taken
<1>5. step \in [S \X (1..n) -> S] /\ \A r \in S, k \in 1..n : step[<<r, k>>] = Taken(g, lines[k], kind, r)
  <2>1. ASSUME NEW a \in S \X (1..n)
        PROVE  Taken(g, lines[a[2]], kind, a[1]) \in S
    BY <1>4
  <2> QED
    BY <2>1
<1>6. <<>> \in S
  BY EmptySeq
<1> HIDE DEF S, step, n
<1>7. PICK f \in [0..n -> S] : f[0] = <<>> /\ \A k \in 1..n : f[k] = step[<<f[k - 1], k>>]
  <2>1. Iterates(S, n, <<>>, step)
    BY <1>1, <1>5, <1>6, Iteration
  <2> QED
    BY <2>1 DEF Iterates
<1>8. \A k \in 1..n : f[k] = Taken(g, lines[k], kind, f[k - 1])
  <2>1. ASSUME NEW k \in 1..n
        PROVE  f[k] = Taken(g, lines[k], kind, f[k - 1])
    <3>1. k - 1 \in 0..n
      BY <1>1
    <3>2. f[k - 1] \in S
      BY <3>1
    <3> QED
      BY <1>5, <1>7, <3>2
  <2> QED
    BY <2>1
<1>9. f = Body(f)
  <2>1. ASSUME NEW k \in 0..n
        PROVE  f[k] = IF k = 0 THEN <<>> ELSE
                          LET result == f[k - 1]
                          IN  IF KindOf(g, lines[k]) = kind
                                 /\ Console[g][lines[k]].part = Len(result) + 1
                              THEN Append(result, lines[k]) ELSE result
    <3>1. CASE k = 0
      BY <1>7, <3>1
    <3>2. CASE k # 0
      <4>1. k \in 1..n
        BY <1>1, <3>2
      <4>2. f[k] = Taken(g, lines[k], kind, f[k - 1])
        BY <1>8, <4>1
      <4> QED
        BY <3>2, <4>2 DEF Taken, Part
    <3> QED
      BY <3>1, <3>2
  <2> QED
    BY <1>7, <2>1
<1>10. got = Body(got)
  <2> HIDE DEF Body
  <2> QED
    BY <1>9
<1> HIDE DEF got
<1>11. /\ got = [k \in 0..n |-> got[k]] /\ got[0] = <<>>
       /\ \A k \in 1..n : got[k] = Taken(g, lines[k], kind, got[k - 1])
  <2>1. \A k \in 0..n : got[k] = IF k = 0 THEN <<>> ELSE
                          LET result == got[k - 1]
                          IN  IF KindOf(g, lines[k]) = kind
                                 /\ Console[g][lines[k]].part = Len(result) + 1
                              THEN Append(result, lines[k]) ELSE result
    BY <1>10
  <2>2. got = [k \in 0..n |-> got[k]]
    BY <1>10
  <2> HIDE DEF Body
  <2>3. ASSUME NEW k \in 1..n
        PROVE  got[k] = Taken(g, lines[k], kind, got[k - 1])
    <3>1. k \in 0..n /\ k # 0
      BY <1>1
    <3> QED
      BY <2>1, <3>1 DEF Taken, Part
  <2>4. 0 \in 0..n
    BY <1>1
  <2> QED
    BY <2>1, <2>2, <2>3, <2>4
<1> HIDE DEF Body
<1>12. \A k \in 0..n : got[k] \in S
  <2> DEFINE T == {k \in Nat : k <= n /\ got[k] \notin S}
  <2> SUFFICES ASSUME T # {}
               PROVE  FALSE
    BY <1>1
  <2>1. PICK k \in T : \A l \in T : k <= l
    <3>1. T \in SUBSET Nat
      OBVIOUS
    <3> HIDE DEF T
    <3> QED
      BY <3>1, LeastNatural
  <2>2. k \in Nat /\ k <= n /\ got[k] \notin S
    OBVIOUS
  <2>3. k # 0
    BY <1>6, <1>11, <2>2
  <2>4. k - 1 \notin T
    <3> HIDE DEF T
    <3> QED
      BY <2>1, <2>2
  <2>5. got[k - 1] \in S /\ k \in 1..n
    BY <1>1, <2>2, <2>3, <2>4
  <2> QED
    BY <1>4, <1>11, <2>2, <2>5
<1>13. got \in [0..n -> S]
  BY <1>11, <1>12
<1>14. Run(g, lines, kind, got)
  BY <1>11, <1>13 DEF Run, n, S
<1> QED
  BY <1>2, <1>14 DEF n

LEMMA ParseEmpty ==
    ASSUME NEW g \in Gateway, NEW kind
    PROVE  parseMessages(g, <<>>, kind) = <<>>
<1>1. <<>> \in Seq(Lines(g)) /\ Len(<<>>) = 0
  BY EmptySeq
<1>2. PICK got : Run(g, <<>>, kind, got) /\ parseMessages(g, <<>>, kind) = got[Len(<<>>)]
  BY <1>1, ParseRun
<1>3. got[0] = <<>>
  BY <1>2 DEF Run
<1> QED
  BY <1>1, <1>2, <1>3

LEMMA ParseAppend ==
    ASSUME NEW g \in Gateway, NEW lines \in Seq(Lines(g)), NEW i \in Lines(g), NEW kind
    PROVE  /\ parseMessages(g, lines, kind) \in Seq(Lines(g))
           /\ parseMessages(g, Append(lines, i), kind) =
                 Taken(g, i, kind, parseMessages(g, lines, kind))
<1> DEFINE n == Len(lines)
           more == Append(lines, i)
<1>1. /\ more \in Seq(Lines(g)) /\ Len(more) = n + 1 /\ more[n + 1] = i
      /\ \A k \in 1..n : more[k] = lines[k]
  BY AppendProperties
<1>2. n \in Nat
  BY LenProperties
<1>3. PICK f : Run(g, lines, kind, f) /\ parseMessages(g, lines, kind) = f[n]
  BY ParseRun
<1>4. PICK h : Run(g, more, kind, h) /\ parseMessages(g, more, kind) = h[n + 1]
  BY <1>1, ParseRun
<1> HIDE DEF n, more
<1>5. /\ f \in [0..n -> Seq(Lines(g))] /\ f[0] = <<>>
      /\ \A k \in 1..n : f[k] = Taken(g, lines[k], kind, f[k - 1])
  BY <1>3 DEF Run, n
<1>6. /\ h[0] = <<>>
      /\ \A k \in 1..(n + 1) : h[k] = Taken(g, more[k], kind, h[k - 1])
  BY <1>1, <1>4 DEF Run
<1>7. h[n] = f[n]
  <2> DEFINE T == {k \in Nat : k <= n /\ h[k] # f[k]}
  <2> SUFFICES ASSUME n \in T
               PROVE  FALSE
    BY <1>2
  <2> T \in SUBSET Nat
    OBVIOUS
  <2>1. PICK k \in T : \A l \in T : k <= l
    <3> HIDE DEF T
    <3> QED
      BY LeastNatural
  <2>2. k \in Nat /\ k <= n /\ h[k] # f[k]
    OBVIOUS
  <2>3. k # 0
    BY <1>5, <1>6, <2>2
  <2>4. k - 1 \notin T
    <3> HIDE DEF T
    <3> QED
      BY <2>1, <2>2
  <2>5. h[k - 1] = f[k - 1] /\ k \in 1..n /\ k \in 1..(n + 1)
    BY <1>2, <2>2, <2>3, <2>4
  <2> QED
    BY <1>1, <1>5, <1>6, <2>2, <2>5
<1>8. n + 1 \in 1..(n + 1) /\ (n + 1) - 1 = n /\ n \in 0..n
  BY <1>2
<1>9. h[n + 1] = Taken(g, i, kind, f[n])
  BY <1>1, <1>6, <1>7, <1>8
<1> QED
  BY <1>3, <1>4, <1>5, <1>8, <1>9 DEF n, more

-----------------------------------------------------------------------------
(* Lines that were missed.                                                 *)

LEMMA MissingIff ==
    ASSUME NEW g \in Gateway, NEW f \in Seq(Lines(g)), NEW i
    PROVE  i \in Missing(g, f) <=>
              \E p \in 1..Len(f) : /\ i \in 1..f[p] /\ Known(g, Of(g, i))
                                   /\ \A q \in 1..p : f[q] # i
<1>1. Len(f) \in Nat
  BY LenProperties
<1>2. ASSUME NEW p \in 1..Len(f)
      PROVE  i \notin ToSet(SubSeq(f, 1, p)) <=> \A q \in 1..p : f[q] # i
  <2>1. 1 \in Nat \ {0} /\ p \in Nat /\ p <= Len(f)
    BY <1>1
  <2> QED
    BY <2>1, ElementsOfSubSeq
<1>3. i \in Missing(g, f) <=>
         \E p \in 1..Len(f) : /\ i \in 1..f[p] /\ Known(g, Of(g, i))
                              /\ i \notin ToSet(SubSeq(f, 1, p))
  BY DEF Missing, Of
<1> QED
  BY <1>2, <1>3

\* f is how h begins.
Begins(f, h) == Len(f) <= Len(h) /\ \A p \in 1..Len(f) : h[p] = f[p]

LEMMA MissingGrows ==
    ASSUME NEW g \in Gateway, NEW f \in Seq(Lines(g)), NEW h \in Seq(Lines(g)), Begins(f, h),
           NEW i \in Missing(g, f)
    PROVE  i \in Missing(g, h) /\ i \in Lines(g)
<1>1. Len(f) \in Nat /\ Len(h) \in Nat /\ Len(f) <= Len(h)
  BY LenProperties DEF Begins
<1>2. PICK p \in 1..Len(f) : i \in 1..f[p] /\ Known(g, Of(g, i)) /\ \A q \in 1..p : f[q] # i
  BY MissingIff
<1>3. p \in 1..Len(h) /\ h[p] = f[p] /\ \A q \in 1..p : h[q] = f[q]
  BY <1>1 DEF Begins
<1>4. f[p] \in Lines(g) /\ Len(Console[g]) \in Nat
  BY ElementOfSeq, LineFacts
<1>5. i \in Missing(g, h)
  BY <1>2, <1>3, MissingIff
<1> QED
  BY <1>2, <1>4, <1>5 DEF Lines

\* One line more.
LEMMA OneMore ==
    ASSUME NEW S, NEW f \in Seq(S), NEW i \in S
    PROVE  /\ Append(f, i) \in Seq(S) /\ Len(f) \in Nat /\ Len(Append(f, i)) = Len(f) + 1
           /\ Append(f, i)[Len(f) + 1] = i
           /\ \A p \in 1..Len(f) : Append(f, i)[p] = f[p]
           /\ Begins(f, Append(f, i))
BY AppendProperties, LenProperties DEF Begins

\* A known line that is behind the new one and was not given is missed.
LEMMA MissedByNew ==
    ASSUME NEW g \in Gateway, NEW f \in Seq(Lines(g)), NEW i \in Lines(g),
           NEW y \in Lines(g), Known(g, Of(g, y)), ~Contains(f, y), y < i
    PROVE  y \in Missing(g, Append(f, i))
<1>1. /\ Append(f, i) \in Seq(Lines(g)) /\ Len(f) \in Nat /\ Len(Append(f, i)) = Len(f) + 1
      /\ Append(f, i)[Len(f) + 1] = i
      /\ \A p \in 1..Len(f) : Append(f, i)[p] = f[p]
  BY OneMore
<1>2. y \in 1..i /\ y # i
  BY DEF Lines
<1>3. \A q \in 1..Len(f) : f[q] # y
  BY DEF Contains
<1>4. \A q \in 1..(Len(f) + 1) : Append(f, i)[q] # y
  BY <1>1, <1>2, <1>3
<1>5. Len(f) + 1 \in 1..Len(Append(f, i))
  BY <1>1
<1> QED
  BY <1>1, <1>2, <1>4, <1>5, MissingIff

\* A known line that comes after a later one was missed.
LEMMA MissedByEarlier ==
    ASSUME NEW g \in Gateway, NEW f \in Seq(Lines(g)), NEW i \in Lines(g),
           Known(g, Of(g, i)), NEW p \in 1..Len(f), i < f[p], \A q \in 1..p : f[q] # i
    PROVE  i \in Missing(g, f)
<1>1. f[p] \in Lines(g)
  BY ElementOfSeq
<1>2. i \in 1..f[p]
  BY <1>1 DEF Lines
<1> QED
  BY <1>2, MissingIff

-----------------------------------------------------------------------------
(* What a parser holds: f are the lines that were given to the parsers of  *)
(* a gateway, the last s of which came to this one; b is its buffer, with  *)
(* the lines after position Base(f, b); the others were reset.             *)

IsDefined(kind) == Contains(Definitions, kind)
Base(f, b) == Len(f) - Len(b)
Once(f) == \A p, q \in 1..Len(f) : f[p] = f[q] => p = q
EndsMessage(g, i) == Part(g, i) = LengthOf(g, Of(g, i))

\* The parser holds the lines since its last reset, which came with the end of
\* a message that it knows.
Held(g, f, s, b) ==
    /\ f \in Seq(Lines(g)) /\ Once(f) /\ b \in Seq(Lines(g))
    /\ s \in Nat /\ s <= Base(f, b)
    /\ \A j \in 1..Len(b) : b[j] = f[Base(f, b) + j]
    /\ Base(f, b) = s \/ (/\ IsDefined(KindOf(g, f[Base(f, b)]))
                          /\ EndsMessage(g, f[Base(f, b)]))

\* The lines r that match a definition are parts of it in order, taken from the
\* buffer; since the last one no line matched the next part.
Picked(g, f, b, kind, r) ==
    /\ \A j \in 1..Len(r) :
          /\ KindOf(g, r[j]) = kind /\ Part(g, r[j]) = j
          /\ \E q \in (Base(f, b) + 1)..Len(f) : f[q] = r[j]
    /\ Len(r) # 0 => \E q \in (Base(f, b) + 1)..Len(f) :
          /\ f[q] = r[Len(r)]
          /\ \A p \in (q + 1)..Len(f) :
                ~(KindOf(g, f[p]) = kind /\ Part(g, f[p]) = Len(r) + 1)

\* The first c parts of message m stand in f from position p on.
BeginsAt(g, f, p, m, c) ==
    /\ p + c - 1 <= Len(f)
    /\ \A j \in 1..c : Of(g, f[p + j - 1]) = m /\ Part(g, f[p + j - 1]) = j

\* Of a message that stands in the buffer in one piece, no part is skipped
\* unless one like it was taken before.
Reached(g, f, b, kind, r) ==
    \A m \in Messages(g), p \in Nat, c \in Nat :
        /\ Script[g][m].kind = kind /\ Base(f, b) < p
        /\ BeginsAt(g, f, p, m, c)
        => c <= Len(r)

\* Lines of two messages are put together only if a line was missed that is of
\* the earlier one or of one before it.
Mixed(g, f, r) ==
    \A j, k \in 1..Len(r) : Of(g, r[j]) # Of(g, r[k]) =>
        \E i \in Missing(g, f) : Of(g, i) <= Of(g, r[j]) /\ Of(g, i) <= Of(g, r[k])

\* Line i came before line j.
Earlier(f, i, j) == \E p, q \in 1..Len(f) : p < q /\ f[p] = i /\ f[q] = j

\* The lines that match came in the order of their parts, and each is the first
\* one of its part since the line before it.
Rising(f, r) == \A j, k \in 1..Len(r) : j < k => Earlier(f, r[j], r[k])
Greedy(g, f, kind, r) ==
    \A j \in 1..Len(r), p \in 1..Len(f) :
        Earlier(f, r[j], f[p]) /\ KindOf(g, f[p]) = kind /\ Part(g, f[p]) = j + 1 =>
            j < Len(r) /\ (r[j + 1] = f[p] \/ Earlier(f, r[j + 1], f[p]))

Matched(g, f, b, kind) ==
    LET r == parseMessages(g, b, kind)
    IN  /\ Picked(g, f, b, kind, r) /\ Reached(g, f, b, kind, r) /\ Mixed(g, f, r)
        /\ Rising(f, r) /\ Greedy(g, f, kind, r)

Incomplete(g, b, kind) == Len(parseMessages(g, b, kind)) < Layout[kind].length

\* RecoversAtOnce, for one gateway.
Recovers(g, f, s, P) ==
    \A m \in 1..Len(Script[g]), p \in 1..Len(f) :
        /\ Known(g, m) /\ WholeAt(g, f, p, m)
        /\ \E r \in s..(p - 1) :
              /\ FreshAfter(g, f, s, r)
              /\ \A j \in (r + 1)..(p - 1) : ~Known(g, Console[g][f[j]].of)
        => m \in P

\* No line of a message up to m was missed or lost.
Clean(g, f, lost, m) == \A i \in lost \cup Missing(g, f) : ~(Of(g, i) <= m)

\* z is the last one of the lines in f that the parser knows.
LastKnown(g, f, z) ==
    /\ \E p \in 1..Len(f) : f[p] = z
    /\ Known(g, Of(g, z))
    /\ \A p \in 1..Len(f) : Known(g, Of(g, f[p])) => f[p] <= z

\* As long as nothing is missed or lost, every message is found when its last
\* line comes, and until then its lines, and no others, match.
InOrder(g, f, b, P, lost) ==
    /\ \A m \in Messages(g) :
          Known(g, m) /\ Clean(g, f, lost, m)
          /\ (\A i \in Lines(g) : Of(g, i) = m => Contains(f, i))
          => m \in P
    /\ \A z \in Lines(g) :
          LastKnown(g, f, z) /\ Clean(g, f, lost, Of(g, z)) =>
              \A kind \in Kind : IsDefined(kind) =>
                  LET r == parseMessages(g, b, kind)
                  IN  IF KindOf(g, z) = kind /\ ~EndsMessage(g, z)
                      THEN Len(r) = Part(g, z) /\ \A j \in 1..Len(r) : Of(g, r[j]) = Of(g, z)
                      ELSE Len(r) = 0

\* All lines of a message that was found were given to a parser.
WholeFound(g, f, P) ==
    \A m \in P : m \in Messages(g) /\ \A i \in Lines(g) : Of(g, i) = m => Contains(f, i)

ParserInv(g, f, s, b, P, lost) ==
    /\ Held(g, f, s, b) /\ lost \subseteq Lines(g)
    /\ \A kind \in Kind : IsDefined(kind) => Matched(g, f, b, kind) /\ Incomplete(g, b, kind)
    /\ Recovers(g, f, s, P)
    /\ InOrder(g, f, b, P, lost)
    /\ WholeFound(g, f, P)

-----------------------------------------------------------------------------
(* One line more for the parser.                                           *)

\* What add does: no definition is complete; or one is, and takes the lines.
Kept(g, b, i) == \A kind \in Kind : IsDefined(kind) => ~Complete(g, Append(b, i), kind)
Found(g, b, i, kind) ==
    kind \in Kind /\ IsDefined(kind) /\ Complete(g, Append(b, i), kind)

LEMMA AddCases ==
    ASSUME NEW g, NEW state, NEW i
    PROVE  \/ /\ Kept(g, state.buffer, i)
              /\ add(g, state, i) = [state EXCEPT !.buffer = Append(state.buffer, i)]
           \/ \E kind : /\ Found(g, state.buffer, i, kind)
                        /\ add(g, state, i).buffer = <<>>
                        /\ add(g, state, i).found =
                              Append(state.found, parseMessages(g, Append(state.buffer, i), kind))
<1> DEFINE lines == Append(state.buffer, i)
           I == {d \in 1..Len(Definitions) : Complete(g, lines, Definitions[d])}
           def == SelectInSeq(Definitions, LAMBDA k : Complete(g, lines, k))
<1>1. def = IF I # {} THEN Min(I) ELSE 0
  BY DEF SelectInSeq
<1>2. add(g, state, i) =
         IF def = 0 THEN [state EXCEPT !.buffer = lines]
         ELSE [buffer |-> <<>>,
               found |-> Append(state.found, parseMessages(g, lines, Definitions[def]))]
  BY DEF add
<1>3. Len(Definitions) \in Nat /\ \A d \in 1..Len(Definitions) : Definitions[d] \in Kind
  BY LayoutAssumption, LenProperties, ElementOfSeq
<1> HIDE DEF def, lines
<1>4. CASE I = {}
  <2>1. Kept(g, state.buffer, i)
    BY <1>4 DEF Kept, IsDefined, Contains, lines
  <2> QED
    BY <1>1, <1>2, <1>4, <2>1 DEF lines
<1>5. CASE I # {}
  <2>1. \E d \in I : \A e \in I : d <= e
    <3>1. I \in SUBSET Nat
      BY <1>3
    <3> HIDE DEF I
    <3> QED
      BY <1>5, <3>1, LeastNatural
  <2>2. def \in I
    <3> HIDE DEF I
    <3> QED
      BY <1>1, <1>5, <2>1 DEF Min
  <2>3. def # 0 /\ def \in 1..Len(Definitions) /\ Complete(g, lines, Definitions[def])
    BY <1>3, <2>2
  <2>4. Found(g, state.buffer, i, Definitions[def])
    BY <1>3, <2>3 DEF Found, IsDefined, Contains, lines
  <2>5. /\ add(g, state, i).buffer = <<>>
        /\ add(g, state, i).found = Append(state.found, parseMessages(g, lines, Definitions[def]))
    BY <1>2, <2>3
  <2> QED
    BY <2>4, <2>5 DEF lines
<1> QED
  BY <1>4, <1>5

LEMMA KnownIff ==
    ASSUME NEW g, NEW i
    PROVE  IsDefined(KindOf(g, i)) <=> Known(g, Of(g, i))
BY DEF IsDefined, Known, KindOf, Of

\* The lengths of the messages of a kind are the same.
LEMMA LengthOfKind ==
    ASSUME NEW g \in Gateway, NEW i \in Lines(g)
    PROVE  KindOf(g, i) \in Kind /\ Layout[KindOf(g, i)].length = LengthOf(g, Of(g, i))
<1>1. Of(g, i) \in Messages(g)
  BY LineFacts
<1> QED
  BY <1>1, ScriptFacts DEF KindOf, Of, LengthOf

\* The lines of one gateway as the parser takes one line more.
Step(g, f, b, i) ==
    /\ f \in Seq(Lines(g)) /\ Once(f) /\ b \in Seq(Lines(g)) /\ Len(b) <= Len(f)
    /\ i \in Lines(g) /\ ~Contains(f, i)

LEMMA StepFacts ==
    ASSUME NEW g \in Gateway, NEW f, NEW b, NEW i, Step(g, f, b, i)
    PROVE  /\ Append(f, i) \in Seq(Lines(g)) /\ Append(b, i) \in Seq(Lines(g))
           /\ Len(f) \in Nat /\ Len(b) \in Nat /\ Base(f, b) \in Nat /\ Base(f, b) <= Len(f)
           /\ Base(Append(f, i), Append(b, i)) = Base(f, b)
           /\ Len(Append(f, i)) = Len(f) + 1 /\ Append(f, i)[Len(f) + 1] = i
           /\ Len(Append(b, i)) = Len(b) + 1 /\ Append(b, i)[Len(b) + 1] = i
           /\ \A p \in 1..Len(f) : f[p] \in Lines(g) /\ f[p] # i /\ Append(f, i)[p] = f[p]
           /\ \A p \in 1..Len(b) : Append(b, i)[p] = b[p]
<1>1. /\ f \in Seq(Lines(g)) /\ b \in Seq(Lines(g)) /\ Len(b) <= Len(f)
      /\ i \in Lines(g) /\ \A p \in 1..Len(f) : f[p] # i
  BY DEF Step, Contains
<1>2. /\ Append(f, i) \in Seq(Lines(g)) /\ Len(f) \in Nat /\ Len(Append(f, i)) = Len(f) + 1
      /\ Append(f, i)[Len(f) + 1] = i
      /\ \A p \in 1..Len(f) : Append(f, i)[p] = f[p]
  BY <1>1, OneMore
<1>3. /\ Append(b, i) \in Seq(Lines(g)) /\ Len(b) \in Nat /\ Len(Append(b, i)) = Len(b) + 1
      /\ Append(b, i)[Len(b) + 1] = i
      /\ \A p \in 1..Len(b) : Append(b, i)[p] = b[p]
  BY <1>1, OneMore
<1>4. \A p \in 1..Len(f) : f[p] \in Lines(g)
  BY <1>1, ElementOfSeq
<1> QED
  BY <1>1, <1>2, <1>3, <1>4 DEF Base

LEMMA PickedNext ==
    ASSUME NEW g \in Gateway, NEW f, NEW b, NEW i, Step(g, f, b, i),
           NEW kind, NEW r \in Seq(Lines(g)), Picked(g, f, b, kind, r)
    PROVE  Picked(g, Append(f, i), Append(b, i), kind, Taken(g, i, kind, r))
<1> DEFINE F == Append(f, i)
           B == Append(b, i)
           R == Taken(g, i, kind, r)
           n == Base(f, b)
<1>1. /\ n \in Nat /\ n <= Len(f) /\ Len(f) \in Nat /\ Base(F, B) = n
      /\ Len(F) = Len(f) + 1 /\ F[Len(f) + 1] = i /\ \A p \in 1..Len(f) : F[p] = f[p]
  BY StepFacts
<1>2. \A j \in 1..Len(r) : /\ KindOf(g, r[j]) = kind /\ Part(g, r[j]) = j
                           /\ \E q \in (n + 1)..Len(f) : f[q] = r[j]
  BY DEF Picked
<1>3. Len(r) # 0 => \E q \in (n + 1)..Len(f) :
         /\ f[q] = r[Len(r)]
         /\ \A p \in (q + 1)..Len(f) : ~(KindOf(g, f[p]) = kind /\ Part(g, f[p]) = Len(r) + 1)
  BY DEF Picked
<1>4. Len(r) \in Nat /\ i \in Lines(g)
  BY LenProperties DEF Step
<1> HIDE DEF F, B, n
<1>5. \A q \in (n + 1)..Len(f) : q \in (n + 1)..Len(F) /\ F[q] = f[q]
  BY <1>1
<1>6. Len(F) \in (n + 1)..Len(F) /\ F[Len(F)] = i
  BY <1>1
<1>7. CASE KindOf(g, i) = kind /\ Part(g, i) = Len(r) + 1
  <2>1. /\ Len(R) = Len(r) + 1 /\ R[Len(r) + 1] = i
        /\ \A j \in 1..Len(r) : R[j] = r[j]
    BY <1>4, <1>7, AppendProperties DEF Taken
  <2> HIDE DEF R
  <2>2. ASSUME NEW j \in 1..Len(R)
        PROVE  /\ KindOf(g, R[j]) = kind /\ Part(g, R[j]) = j
               /\ \E q \in (n + 1)..Len(F) : F[q] = R[j]
    <3>1. CASE j = Len(r) + 1
      BY <1>6, <1>7, <2>1, <3>1
    <3>2. CASE j # Len(r) + 1
      <4>1. j \in 1..Len(r)
        BY <1>4, <2>1, <3>2
      <4> QED
        BY <1>2, <1>5, <2>1, <4>1
    <3> QED
      BY <3>1, <3>2
  <2>3. \A p \in (Len(F) + 1)..Len(F) : FALSE
    BY <1>1
  <2>4. \E q \in (n + 1)..Len(F) :
          /\ F[q] = R[Len(R)]
          /\ \A p \in (q + 1)..Len(F) : ~(KindOf(g, F[p]) = kind /\ Part(g, F[p]) = Len(R) + 1)
    BY <1>6, <2>1, <2>3
  <2>5. Picked(g, F, B, kind, R)
    BY <1>1, <2>2, <2>4 DEF Picked
  <2> QED
    BY <2>5 DEF F, B, R
<1>8. CASE ~(KindOf(g, i) = kind /\ Part(g, i) = Len(r) + 1)
  <2>1. R = r
    BY <1>8 DEF Taken
  <2> HIDE DEF R
  <2>2. \A j \in 1..Len(r) : /\ KindOf(g, r[j]) = kind /\ Part(g, r[j]) = j
                             /\ \E q \in (n + 1)..Len(F) : F[q] = r[j]
    BY <1>2, <1>5
  <2>3. ASSUME Len(r) # 0
        PROVE  \E q \in (n + 1)..Len(F) :
          /\ F[q] = r[Len(r)]
          /\ \A p \in (q + 1)..Len(F) : ~(KindOf(g, F[p]) = kind /\ Part(g, F[p]) = Len(r) + 1)
    <3>1. PICK q \in (n + 1)..Len(f) :
             /\ f[q] = r[Len(r)]
             /\ \A p \in (q + 1)..Len(f) : ~(KindOf(g, f[p]) = kind /\ Part(g, f[p]) = Len(r) + 1)
      BY <1>3, <2>3
    <3>2. ASSUME NEW p \in (q + 1)..Len(F)
          PROVE  ~(KindOf(g, F[p]) = kind /\ Part(g, F[p]) = Len(r) + 1)
      <4>1. CASE p = Len(F)
        BY <1>6, <1>8, <4>1
      <4>2. CASE p # Len(F)
        <5>1. p \in (q + 1)..Len(f) /\ p \in 1..Len(f)
          BY <1>1, <4>2
        <5> QED
          BY <1>1, <3>1, <5>1
      <4> QED
        BY <4>1, <4>2
    <3> QED
      BY <1>5, <3>1, <3>2
  <2>4. Picked(g, F, B, kind, r)
    BY <1>1, <2>2, <2>3 DEF Picked
  <2> QED
    BY <2>1, <2>4 DEF F, B, R
<1> QED
  BY <1>7, <1>8

LEMMA ReachedNext ==
    ASSUME NEW g \in Gateway, NEW f, NEW b, NEW i, Step(g, f, b, i),
           NEW kind, NEW r \in Seq(Lines(g)), Reached(g, f, b, kind, r)
    PROVE  Reached(g, Append(f, i), Append(b, i), kind, Taken(g, i, kind, r))
<1> DEFINE F == Append(f, i)
           B == Append(b, i)
           R == Taken(g, i, kind, r)
           n == Base(f, b)
<1>1. /\ n \in Nat /\ n <= Len(f) /\ Len(f) \in Nat /\ Base(F, B) = n
      /\ Len(F) = Len(f) + 1 /\ F[Len(f) + 1] = i /\ \A p \in 1..Len(f) : F[p] = f[p]
  BY StepFacts
<1>2. Len(r) \in Nat /\ i \in Lines(g)
  BY LenProperties DEF Step
<1>3. /\ Len(R) \in Nat /\ Len(r) <= Len(R)
      /\ KindOf(g, i) = kind /\ Part(g, i) = Len(r) + 1 => Len(R) = Len(r) + 1
  BY <1>2, AppendProperties DEF Taken
<1> HIDE DEF F, B, n, R
<1>4. ASSUME NEW m \in Messages(g), NEW p \in Nat, NEW c \in Nat,
             Script[g][m].kind = kind, n < p, BeginsAt(g, F, p, m, c)
      PROVE  c <= Len(R)
  <2>1. /\ p + c - 1 <= Len(F)
        /\ \A j \in 1..c : Of(g, F[p + j - 1]) = m /\ Part(g, F[p + j - 1]) = j
    BY <1>4 DEF BeginsAt
  <2>2. ASSUME NEW d \in Nat, d <= c, p + d - 1 <= Len(f)
        PROVE  d <= Len(r)
    <3>1. ASSUME NEW j \in 1..d
          PROVE  Of(g, f[p + j - 1]) = m /\ Part(g, f[p + j - 1]) = j
      <4>1. j \in 1..c /\ p + j - 1 \in 1..Len(f)
        BY <1>1, <1>4, <2>2
      <4> QED
        BY <1>1, <2>1, <4>1
    <3>2. BeginsAt(g, f, p, m, d)
      BY <2>2, <3>1 DEF BeginsAt
    <3> QED
      BY <1>4, <3>2 DEF Reached, n
  <2>3. CASE c = 0 \/ p + c - 1 <= Len(f)
    BY <1>2, <1>3, <2>2, <2>3
  <2>4. CASE c # 0 /\ p + c - 1 = Len(F)
    <3>1. c - 1 \in Nat /\ p + (c - 1) - 1 <= Len(f) /\ c \in 1..c
      BY <1>1, <2>4
    <3>2. c - 1 <= Len(r)
      BY <2>2, <3>1
    <3>3. Of(g, i) = m /\ Part(g, i) = c
      BY <1>1, <2>1, <2>4, <3>1
    <3>4. KindOf(g, i) = kind
      BY <1>4, <3>3 DEF KindOf, Of
    <3> QED
      BY <1>2, <1>3, <3>1, <3>2, <3>3, <3>4
  <2> QED
    BY <1>1, <2>1, <2>3, <2>4
<1>5. Reached(g, F, B, kind, R)
  BY <1>1, <1>4 DEF Reached
<1> QED
  BY <1>5 DEF F, B, R

\* The last line that was taken and the new one, if they are of two messages:
\* one of the earlier message, or the new line itself, was missed.
LEMMA MixedByNew ==
    ASSUME NEW g \in Gateway, NEW f, NEW b, NEW i, Step(g, f, b, i),
           NEW kind, IsDefined(kind), NEW r \in Seq(Lines(g)), Picked(g, f, b, kind, r),
           KindOf(g, i) = kind, Part(g, i) = Len(r) + 1, Len(r) # 0,
           Of(g, r[Len(r)]) # Of(g, i)
    PROVE  /\ r[Len(r)] \in Lines(g)
           /\ Of(g, r[Len(r)]) < Of(g, i) =>
                 \E y \in Missing(g, Append(f, i)) : Of(g, y) = Of(g, r[Len(r)])
           /\ Of(g, i) < Of(g, r[Len(r)]) => i \in Missing(g, Append(f, i))
<1> DEFINE F == Append(f, i)
           x == r[Len(r)]
           n == Base(f, b)
<1>1. /\ n \in Nat /\ n <= Len(f) /\ Len(f) \in Nat /\ F \in Seq(Lines(g))
      /\ Len(F) = Len(f) + 1 /\ F[Len(f) + 1] = i
      /\ \A p \in 1..Len(f) : f[p] \in Lines(g) /\ f[p] # i /\ F[p] = f[p]
  BY StepFacts
<1>2. Len(r) \in Nat /\ i \in Lines(g) /\ Once(f) /\ f \in Seq(Lines(g)) /\ ~Contains(f, i)
  BY LenProperties DEF Step
<1>3. PICK q \in (n + 1)..Len(f) :
         /\ f[q] = x
         /\ \A p \in (q + 1)..Len(f) : ~(KindOf(g, f[p]) = kind /\ Part(g, f[p]) = Len(r) + 1)
  BY DEF Picked
<1>4. q \in 1..Len(f) /\ q \in Nat
  BY <1>1
<1>5. x \in Lines(g) /\ KindOf(g, x) = kind /\ Part(g, x) = Len(r)
  <2>1. Len(r) \in 1..Len(r)
    BY <1>2
  <2> QED
    BY <1>1, <1>3, <1>4, <2>1 DEF Picked
<1> HIDE DEF F, n, x
<1>6. /\ x \in Nat /\ i \in Nat /\ Of(g, x) \in Nat /\ Of(g, i) \in Nat
      /\ Part(g, i) <= LengthOf(g, Of(g, i)) /\ LengthOf(g, Of(g, i)) \in Nat
  BY <1>2, <1>5, LineTypes
<1>7. LengthOf(g, Of(g, x)) = LengthOf(g, Of(g, i))
  BY <1>2, <1>5, LengthOfKind
<1>8. /\ x + 1 \in Lines(g) /\ Of(g, x + 1) = Of(g, x) /\ Part(g, x + 1) = Len(r) + 1
      /\ Known(g, Of(g, x)) /\ Known(g, Of(g, i))
  <2>1. Part(g, x) # LengthOf(g, Of(g, x))
    BY <1>2, <1>5, <1>6, <1>7
  <2>2. x + 1 \in Lines(g) /\ Of(g, x + 1) = Of(g, x) /\ Part(g, x + 1) = Part(g, x) + 1
    BY <1>5, <2>1, LineFacts
  <2> QED
    BY <1>5, <2>2, KnownIff
<1>9. Of(g, x) # Of(g, i)
  BY DEF x
<1>10. ASSUME Of(g, x) < Of(g, i)
       PROVE  \E y \in Missing(g, F) : Of(g, y) = Of(g, x)
  <2>1. x < i
    <3>1. ~(i < x)
      BY <1>2, <1>5, <1>6, <1>10, LineOrder
    <3> QED
      BY <1>6, <1>9, <3>1
  <2>2. x + 1 < i
    BY <1>6, <1>8, <1>9, <2>1
  <2>3. CASE ~Contains(f, x + 1)
    <3>1. x + 1 \in Missing(g, F)
      BY <1>2, <1>8, <2>2, <2>3, MissedByNew DEF F
    <3> QED
      BY <1>8, <3>1
  <2>4. CASE Contains(f, x + 1)
    <3>1. PICK p \in 1..Len(f) : f[p] = x + 1
      BY <2>4 DEF Contains
    <3>2. KindOf(g, x + 1) = kind
      BY <1>5, <1>8 DEF KindOf, Of
    <3>3. ~(p \in (q + 1)..Len(f))
      BY <1>3, <1>8, <3>1, <3>2
    <3>4. p < q
      <4>1. p # q
        BY <1>3, <1>6, <3>1
      <4> QED
        BY <1>1, <1>4, <3>1, <3>3, <4>1
    <3>5. \A k \in 1..p : f[k] # x
      <4>1. ASSUME NEW k \in 1..p, f[k] = x
            PROVE  FALSE
        <5>1. k \in 1..Len(f) /\ k # q
          BY <1>1, <3>1, <3>4
        <5> QED
          BY <1>2, <1>3, <1>4, <4>1, <5>1 DEF Once
      <4> QED
        BY <4>1
    <3>6. x < f[p]
      BY <1>6, <3>1
    <3>7. x \in Missing(g, f)
      BY <1>2, <1>5, <1>8, <3>5, <3>6, MissedByEarlier
    <3>8. Begins(f, F)
      BY <1>1 DEF Begins
    <3>9. x \in Missing(g, F)
      BY <1>1, <1>2, <3>7, <3>8, MissingGrows
    <3> QED
      BY <3>9
  <2> QED
    BY <2>3, <2>4
<1>11. ASSUME Of(g, i) < Of(g, x)
       PROVE  i \in Missing(g, F)
  <2>1. i < x
    <3>1. ~(x < i)
      BY <1>2, <1>5, <1>6, <1>11, LineOrder
    <3> QED
      BY <1>6, <1>9, <3>1
  <2>2. q \in 1..Len(F) /\ F[q] = x
    BY <1>1, <1>3, <1>4
  <2>3. \A k \in 1..q : F[k] # i
    BY <1>1, <1>4
  <2> QED
    BY <1>1, <1>2, <1>8, <2>1, <2>2, <2>3, MissedByEarlier
<1> QED
  BY <1>5, <1>10, <1>11 DEF F, x

LEMMA MixedNext ==
    ASSUME NEW g \in Gateway, NEW f, NEW b, NEW i, Step(g, f, b, i),
           NEW kind, IsDefined(kind), NEW r \in Seq(Lines(g)), Picked(g, f, b, kind, r),
           Mixed(g, f, r)
    PROVE  Mixed(g, Append(f, i), Taken(g, i, kind, r))
<1> DEFINE F == Append(f, i)
           R == Taken(g, i, kind, r)
           Explained(x, z) == \E y \in Missing(g, F) : Of(g, y) <= Of(g, x) /\ Of(g, y) <= Of(g, z)
<1>1. f \in Seq(Lines(g)) /\ i \in Lines(g) /\ F \in Seq(Lines(g)) /\ Begins(f, F)
  BY OneMore DEF Step
<1>2. \A y \in Missing(g, f) : y \in Missing(g, F)
  BY <1>1, MissingGrows
<1>3. \A y \in Missing(g, F) : y \in Lines(g) /\ Of(g, y) \in Nat
  <2>1. Begins(F, F)
    BY <1>1, LenProperties DEF Begins
  <2> QED
    BY <1>1, <2>1, MissingGrows, LineTypes
<1>4. \A j, k \in 1..Len(r) : Of(g, r[j]) # Of(g, r[k]) => Explained(r[j], r[k])
  BY <1>2 DEF Mixed
<1>5. Len(r) \in Nat /\ \A j \in 1..Len(r) : r[j] \in Lines(g) /\ Of(g, r[j]) \in Nat
  BY LenProperties, ElementOfSeq, LineTypes
<1>6. Of(g, i) \in Nat
  BY <1>1, LineTypes
<1>7. CASE KindOf(g, i) = kind /\ Part(g, i) = Len(r) + 1
  <2>1. /\ Len(R) = Len(r) + 1 /\ R[Len(r) + 1] = i
        /\ \A j \in 1..Len(r) : R[j] = r[j]
    BY <1>1, <1>7, AppendProperties DEF Taken
  <2>2. Len(r) # 0 /\ Of(g, r[Len(r)]) # Of(g, i) =>
           /\ Of(g, r[Len(r)]) < Of(g, i) =>
                 \E y \in Missing(g, F) : Of(g, y) = Of(g, r[Len(r)])
           /\ Of(g, i) < Of(g, r[Len(r)]) => i \in Missing(g, F)
    BY <1>7, MixedByNew
  <2> HIDE DEF F, R
  <2>3. ASSUME NEW j \in 1..Len(r), Of(g, r[j]) # Of(g, i)
        PROVE  Explained(r[j], i)
    <3> DEFINE x == r[Len(r)]
    <3>1. Len(r) # 0 /\ Len(r) \in 1..Len(r) /\ Of(g, x) \in Nat /\ Of(g, r[j]) \in Nat
      BY <1>5
    <3>2. Of(g, r[j]) # Of(g, x) => Explained(r[j], x)
      BY <1>4, <3>1
    <3> HIDE DEF x
    <3>3. CASE Of(g, x) = Of(g, i)
      BY <2>3, <3>2, <3>3
    <3>4. CASE Of(g, x) < Of(g, i)
      <4>1. PICK y \in Missing(g, F) : Of(g, y) = Of(g, x)
        BY <1>6, <2>2, <3>1, <3>4 DEF x
      <4>2. CASE Of(g, r[j]) = Of(g, x)
        BY <1>3, <1>6, <3>1, <3>4, <4>1, <4>2
      <4>3. CASE Of(g, r[j]) # Of(g, x)
        <5>1. PICK z \in Missing(g, F) : Of(g, z) <= Of(g, r[j]) /\ Of(g, z) <= Of(g, x)
          BY <3>2, <4>3
        <5>2. Of(g, z) <= Of(g, i)
          BY <1>3, <1>6, <3>1, <3>4, <5>1
        <5> QED
          BY <5>1, <5>2
      <4> QED
        BY <4>2, <4>3
    <3>5. CASE Of(g, i) < Of(g, x)
      <4>1. i \in Missing(g, F)
        BY <1>6, <2>2, <3>1, <3>5 DEF x
      <4>2. CASE Of(g, i) <= Of(g, r[j])
        BY <1>6, <4>1, <4>2
      <4>3. CASE Of(g, r[j]) < Of(g, i)
        <5>1. Of(g, r[j]) # Of(g, x)
          BY <1>6, <3>1, <3>5, <4>3
        <5>2. PICK z \in Missing(g, F) : Of(g, z) <= Of(g, r[j]) /\ Of(g, z) <= Of(g, x)
          BY <3>2, <5>1
        <5>3. Of(g, z) <= Of(g, i)
          BY <1>3, <1>6, <3>1, <4>3, <5>2
        <5> QED
          BY <5>2, <5>3
      <4> QED
        BY <1>6, <3>1, <4>2, <4>3
    <3> QED
      BY <1>6, <3>1, <3>3, <3>4, <3>5
  <2>4. ASSUME NEW j \in 1..Len(R), NEW k \in 1..Len(R), Of(g, R[j]) # Of(g, R[k])
        PROVE  Explained(R[j], R[k])
    <3>1. j \in 1..Len(r) \/ j = Len(r) + 1
      BY <1>5, <2>1
    <3>2. k \in 1..Len(r) \/ k = Len(r) + 1
      BY <1>5, <2>1
    <3>3. CASE j \in 1..Len(r) /\ k \in 1..Len(r)
      BY <1>4, <2>1, <2>4, <3>3
    <3>4. CASE j \in 1..Len(r) /\ k = Len(r) + 1
      BY <2>1, <2>3, <2>4, <3>4
    <3>5. CASE j = Len(r) + 1 /\ k \in 1..Len(r)
      <4>1. Explained(R[k], R[j])
        BY <2>1, <2>3, <2>4, <3>5
      <4> QED
        BY <4>1
    <3> QED
      BY <2>4, <3>1, <3>2, <3>3, <3>4, <3>5
  <2>5. Mixed(g, F, R)
    BY <2>4 DEF Mixed
  <2> QED
    BY <2>5 DEF F, R
<1>8. CASE ~(KindOf(g, i) = kind /\ Part(g, i) = Len(r) + 1)
  <2>1. R = r
    BY <1>8 DEF Taken
  <2>2. Mixed(g, F, r)
    BY <1>4 DEF Mixed
  <2> QED
    BY <2>1, <2>2
<1> QED
  BY <1>7, <1>8

\* What came before a line is still before it when there is one line more.
LEMMA EarlierNext ==
    ASSUME NEW g \in Gateway, NEW f, NEW b, NEW i, Step(g, f, b, i)
    PROVE  /\ \A x, y : Earlier(f, x, y) => Earlier(Append(f, i), x, y)
           /\ \A x : Contains(f, x) => Earlier(Append(f, i), x, i)
           /\ \A x, y : Earlier(Append(f, i), x, y) => Earlier(f, x, y) \/ y = i
           /\ \A y : ~Earlier(Append(f, i), i, y)
<1> DEFINE F == Append(f, i)
           n == Len(f)
<1>1. /\ n \in Nat /\ Len(F) = n + 1 /\ F[n + 1] = i
      /\ \A p \in 1..n : f[p] # i /\ F[p] = f[p]
  BY StepFacts
<1> HIDE DEF F, n
<1>2. ASSUME NEW x, NEW y, Earlier(f, x, y)
      PROVE  Earlier(F, x, y)
  <2>1. PICK p \in 1..n, q \in 1..n : p < q /\ f[p] = x /\ f[q] = y
    BY <1>2 DEF Earlier, n
  <2>2. p \in 1..Len(F) /\ q \in 1..Len(F) /\ F[p] = x /\ F[q] = y
    BY <1>1, <2>1
  <2> QED
    BY <2>1, <2>2 DEF Earlier
<1>3. ASSUME NEW x, Contains(f, x)
      PROVE  Earlier(F, x, i)
  <2>1. PICK p \in 1..n : f[p] = x
    BY <1>3 DEF Contains, n
  <2>2. p \in 1..Len(F) /\ n + 1 \in 1..Len(F) /\ p < n + 1 /\ F[p] = x
    BY <1>1, <2>1
  <2> QED
    BY <1>1, <2>2 DEF Earlier
<1>4. ASSUME NEW x, NEW y, Earlier(F, x, y)
      PROVE  x # i /\ (Earlier(f, x, y) \/ y = i)
  <2>1. PICK p \in 1..(n + 1), q \in 1..(n + 1) : p < q /\ F[p] = x /\ F[q] = y
    BY <1>1, <1>4 DEF Earlier
  <2>2. p \in 1..n /\ f[p] = x /\ x # i
    BY <1>1, <2>1
  <2>3. CASE q = n + 1
    BY <1>1, <2>1, <2>2, <2>3
  <2>4. CASE q # n + 1
    <3>1. q \in 1..n /\ f[q] = y
      BY <1>1, <2>1, <2>4
    <3> QED
      BY <2>1, <2>2, <3>1 DEF Earlier, n
  <2> QED
    BY <2>3, <2>4
<1> QED
  BY <1>2, <1>3, <1>4 DEF F

\* What was picked was given to the parser.
LEMMA PickedContained ==
    ASSUME NEW g \in Gateway, NEW f, NEW b, NEW kind, NEW r, Base(f, b) \in Nat,
           Picked(g, f, b, kind, r), NEW j \in 1..Len(r)
    PROVE  Contains(f, r[j])
<1>1. PICK q \in (Base(f, b) + 1)..Len(f) : f[q] = r[j]
  BY DEF Picked
<1>2. q \in 1..Len(f)
  OBVIOUS
<1> QED
  BY <1>1, <1>2 DEF Contains

\* A line that matches comes last; no line that could have matched came before.
LEMMA GreedyNext ==
    ASSUME NEW g \in Gateway, NEW f, NEW b, NEW i, Step(g, f, b, i),
           NEW kind, NEW r \in Seq(Lines(g)), Picked(g, f, b, kind, r),
           Rising(f, r), Greedy(g, f, kind, r)
    PROVE  /\ Rising(Append(f, i), Taken(g, i, kind, r))
           /\ Greedy(g, Append(f, i), kind, Taken(g, i, kind, r))
<1> DEFINE F == Append(f, i)
           R == Taken(g, i, kind, r)
           n == Len(f)
           fits == KindOf(g, i) = kind /\ Part(g, i) = Len(r) + 1
<1>1. /\ n \in Nat /\ Len(F) = n + 1 /\ F[n + 1] = i /\ Base(f, b) \in Nat
      /\ \A p \in 1..n : f[p] # i /\ F[p] = f[p]
  BY StepFacts
<1>2. /\ \A x, y : Earlier(f, x, y) => Earlier(F, x, y)
      /\ \A x : Contains(f, x) => Earlier(F, x, i)
      /\ \A x, y : Earlier(F, x, y) => Earlier(f, x, y) \/ y = i
      /\ \A y : ~Earlier(F, i, y)
  BY EarlierNext
<1>3. Len(r) \in Nat /\ i \in Lines(g)
  BY LenProperties DEF Step
<1>4. /\ Len(R) = IF fits THEN Len(r) + 1 ELSE Len(r)
      /\ \A j \in 1..Len(r) : R[j] = r[j]
      /\ fits => R[Len(r) + 1] = i
  BY <1>3, AppendProperties DEF Taken
<1>5. \A j \in 1..Len(r) : Contains(f, r[j])
  BY <1>1, PickedContained
<1> HIDE DEF F, R, n, fits
<1>6. ASSUME NEW j \in 1..Len(R), NEW k \in 1..Len(R), j < k
      PROVE  Earlier(F, R[j], R[k])
  <2>1. j \in 1..Len(r)
    BY <1>3, <1>4, <1>6
  <2>2. CASE k \in 1..Len(r)
    BY <1>2, <1>4, <1>6, <2>1, <2>2 DEF Rising
  <2>3. CASE k \notin 1..Len(r)
    <3>1. fits /\ k = Len(r) + 1
      BY <1>3, <1>4, <1>6, <2>3
    <3> QED
      BY <1>2, <1>4, <1>5, <2>1, <3>1
  <2> QED
    BY <2>2, <2>3
<1>7. ASSUME NEW j \in 1..Len(R), NEW p \in 1..Len(F), Earlier(F, R[j], F[p]),
             KindOf(g, F[p]) = kind, Part(g, F[p]) = j + 1
      PROVE  j < Len(R) /\ (R[j + 1] = F[p] \/ Earlier(F, R[j + 1], F[p]))
  <2>1. j \in 1..Len(r)
    <3>1. R[j] # i
      BY <1>2, <1>7
    <3> QED
      BY <1>3, <1>4, <3>1
  <2>2. CASE p = n + 1
    <3>1. CASE j = Len(r)
      <4>1. fits
        BY <1>1, <1>7, <2>2, <3>1 DEF fits
      <4> QED
        BY <1>1, <1>3, <1>4, <2>2, <3>1, <4>1
    <3>2. CASE j # Len(r)
      <4>1. j + 1 \in 1..Len(r) /\ j < Len(R)
        BY <1>3, <1>4, <2>1, <3>2
      <4> QED
        BY <1>1, <1>2, <1>4, <1>5, <2>2, <4>1
    <3> QED
      BY <3>1, <3>2
  <2>3. CASE p # n + 1
    <3>1. p \in 1..n /\ F[p] = f[p] /\ f[p] # i
      BY <1>1, <2>3
    <3>2. Earlier(f, r[j], f[p])
      BY <1>2, <1>4, <1>7, <2>1, <3>1
    <3>3. j < Len(r) /\ (r[j + 1] = f[p] \/ Earlier(f, r[j + 1], f[p]))
      BY <1>7, <2>1, <3>1, <3>2 DEF Greedy, n
    <3>4. j + 1 \in 1..Len(r) /\ j < Len(R)
      BY <1>3, <1>4, <2>1, <3>3
    <3> QED
      BY <1>2, <1>4, <3>1, <3>3, <3>4
  <2> QED
    BY <2>2, <2>3
<1>8. Rising(F, R) /\ Greedy(g, F, kind, R)
  BY <1>6, <1>7 DEF Rising, Greedy
<1> QED
  BY <1>8 DEF F, R

LEMMA MatchedNext ==
    ASSUME NEW g \in Gateway, NEW f, NEW b, NEW i, Step(g, f, b, i),
           NEW kind, IsDefined(kind), Matched(g, f, b, kind)
    PROVE  Matched(g, Append(f, i), Append(b, i), kind)
<1> DEFINE r == parseMessages(g, b, kind)
<1>1. b \in Seq(Lines(g)) /\ i \in Lines(g)
  BY DEF Step
<1>2. r \in Seq(Lines(g)) /\ parseMessages(g, Append(b, i), kind) = Taken(g, i, kind, r)
  BY <1>1, ParseAppend
<1>3. /\ Picked(g, f, b, kind, r) /\ Reached(g, f, b, kind, r) /\ Mixed(g, f, r)
      /\ Rising(f, r) /\ Greedy(g, f, kind, r)
  BY DEF Matched
<1> HIDE DEF r
<1>4. /\ Picked(g, Append(f, i), Append(b, i), kind, Taken(g, i, kind, r))
      /\ Reached(g, Append(f, i), Append(b, i), kind, Taken(g, i, kind, r))
      /\ Mixed(g, Append(f, i), Taken(g, i, kind, r))
  BY <1>2, <1>3, PickedNext, ReachedNext, MixedNext
<1>5. /\ Rising(Append(f, i), Taken(g, i, kind, r))
      /\ Greedy(g, Append(f, i), kind, Taken(g, i, kind, r))
  BY <1>2, <1>3, GreedyNext
<1> QED
  BY <1>2, <1>4, <1>5 DEF Matched

\* After a reset nothing matches.
LEMMA MatchedReset ==
    ASSUME NEW g \in Gateway, NEW f \in Seq(Lines(g)), NEW kind \in Kind
    PROVE  /\ Matched(g, f, <<>>, kind) /\ Incomplete(g, <<>>, kind)
           /\ parseMessages(g, <<>>, kind) = <<>>
<1>1. parseMessages(g, <<>>, kind) = <<>> /\ Len(<<>>) = 0 /\ Len(f) \in Nat
  BY ParseEmpty, EmptySeq, LenProperties
<1>2. Base(f, <<>>) = Len(f)
  BY <1>1 DEF Base
<1>3. Picked(g, f, <<>>, kind, <<>>)
  BY <1>1 DEF Picked
<1>4. Reached(g, f, <<>>, kind, <<>>)
  BY <1>1, <1>2 DEF Reached, BeginsAt
<1>5. Mixed(g, f, <<>>)
  BY <1>1 DEF Mixed
<1>6. 0 < Layout[kind].length
  BY LayoutAssumption
<1>7. Rising(f, <<>>) /\ Greedy(g, f, kind, <<>>)
  BY <1>1 DEF Rising, Greedy
<1> QED
  BY <1>1, <1>3, <1>4, <1>5, <1>6, <1>7 DEF Matched, Incomplete

\* What a line does to the parser: it is kept; or a message is found, and what
\* the parser holds is reset.
After(g, b, i, P, b2, P2) ==
    \/ Kept(g, b, i) /\ b2 = Append(b, i) /\ P2 = P
    \/ \E kind : /\ Found(g, b, i, kind)
                 /\ b2 = <<>>
                 /\ P2 = P \cup WholeOf(g, parseMessages(g, Append(b, i), kind))

\* Only the last line of a message completes it.
LEMMA Completes ==
    ASSUME NEW g \in Gateway, NEW b \in Seq(Lines(g)), NEW i \in Lines(g),
           NEW kind, Found(g, b, i, kind), Incomplete(g, b, kind)
    PROVE  /\ KindOf(g, i) = kind /\ EndsMessage(g, i) /\ Known(g, Of(g, i))
           /\ parseMessages(g, Append(b, i), kind) \in Seq(Lines(g))
           /\ Len(parseMessages(g, Append(b, i), kind)) = LengthOf(g, Of(g, i))
<1> DEFINE r == parseMessages(g, b, kind)
           R == parseMessages(g, Append(b, i), kind)
<1>1. r \in Seq(Lines(g)) /\ R = Taken(g, i, kind, r)
  BY ParseAppend
<1>2. Append(b, i) \in Seq(Lines(g))
  BY AppendProperties
<1>3. R \in Seq(Lines(g))
  BY <1>2, ParseAppend
<1>4. kind \in Kind /\ IsDefined(kind) /\ Len(R) = Layout[kind].length
  BY DEF Found, Complete
<1>5. Len(r) < Layout[kind].length /\ Len(r) \in Nat
  BY <1>1, LenProperties DEF Incomplete
<1> HIDE DEF r, R
<1>6. KindOf(g, i) = kind /\ Part(g, i) = Len(r) + 1 /\ Len(R) = Len(r) + 1
  <2>1. R # r
    BY <1>4, <1>5
  <2> QED
    BY <1>1, <2>1, AppendProperties DEF Taken
<1>7. Layout[kind].length = LengthOf(g, Of(g, i))
  BY <1>6, LengthOfKind
<1> QED
  BY <1>3, <1>4, <1>6, <1>7, KnownIff DEF EndsMessage, R

LEMMA KeptIncomplete ==
    ASSUME NEW g \in Gateway, NEW b \in Seq(Lines(g)), NEW i \in Lines(g), Kept(g, b, i),
           NEW kind \in Kind, IsDefined(kind), Incomplete(g, b, kind)
    PROVE  Incomplete(g, Append(b, i), kind)
<1> DEFINE r == parseMessages(g, b, kind)
           R == parseMessages(g, Append(b, i), kind)
<1>1. r \in Seq(Lines(g)) /\ R = Taken(g, i, kind, r)
  BY ParseAppend
<1>2. Len(R) # Layout[kind].length
  BY DEF Kept, Complete
<1>3. Len(r) < Layout[kind].length /\ Len(r) \in Nat /\ Layout[kind].length \in Nat
  BY <1>1, LenProperties, LayoutAssumption DEF Incomplete
<1> HIDE DEF r, R
<1>4. Len(R) = Len(r) \/ Len(R) = Len(r) + 1
  BY <1>1, AppendProperties DEF Taken
<1>5. Len(R) < Layout[kind].length
  BY <1>2, <1>3, <1>4
<1> QED
  BY <1>5 DEF Incomplete, R

LEMMA HeldStep ==
    ASSUME NEW g \in Gateway, NEW f, NEW s, NEW b, Held(g, f, s, b),
           NEW i \in Lines(g), ~Contains(f, i)
    PROVE  /\ Step(g, f, b, i) /\ s \in Nat /\ Once(Append(f, i))
           /\ Base(f, b) \in s..Len(f)
<1>1. f \in Seq(Lines(g)) /\ Once(f) /\ b \in Seq(Lines(g)) /\ s \in Nat /\ s <= Base(f, b)
  BY DEF Held
<1>2. Len(f) \in Nat /\ Len(b) \in Nat
  BY <1>1, LenProperties
<1>3. Step(g, f, b, i)
  BY <1>1, <1>2 DEF Step, Base
<1>4. /\ Len(Append(f, i)) = Len(f) + 1 /\ Append(f, i)[Len(f) + 1] = i
      /\ \A p \in 1..Len(f) : f[p] # i /\ Append(f, i)[p] = f[p]
  BY <1>3, StepFacts
<1>5. Once(Append(f, i))
  <2>1. ASSUME NEW p \in 1..(Len(f) + 1), NEW q \in 1..(Len(f) + 1),
               Append(f, i)[p] = Append(f, i)[q]
        PROVE  p = q
    <3>1. p \in 1..Len(f) \/ p = Len(f) + 1
      BY <1>2
    <3>2. q \in 1..Len(f) \/ q = Len(f) + 1
      BY <1>2
    <3> QED
      BY <1>1, <1>4, <2>1, <3>1, <3>2 DEF Once
  <2> QED
    BY <1>4, <2>1 DEF Once
<1> QED
  BY <1>1, <1>2, <1>3, <1>5 DEF Base

LEMMA HeldNext ==
    ASSUME NEW g \in Gateway, NEW f, NEW s, NEW b, NEW P, NEW lost,
           ParserInv(g, f, s, b, P, lost),
           NEW i \in Lines(g), ~Contains(f, i),
           NEW b2, NEW P2, After(g, b, i, P, b2, P2)
    PROVE  Held(g, Append(f, i), s, b2)
<1> DEFINE F == Append(f, i)
<1>1. Held(g, f, s, b)
  BY DEF ParserInv
<1>2. Step(g, f, b, i) /\ s \in Nat /\ Once(F) /\ Base(f, b) \in s..Len(f)
  BY <1>1, HeldStep
<1>3. /\ F \in Seq(Lines(g)) /\ Append(b, i) \in Seq(Lines(g))
      /\ Len(f) \in Nat /\ Len(b) \in Nat /\ Base(f, b) \in Nat
      /\ Base(F, Append(b, i)) = Base(f, b)
      /\ Len(F) = Len(f) + 1 /\ F[Len(f) + 1] = i
      /\ Len(Append(b, i)) = Len(b) + 1 /\ Append(b, i)[Len(b) + 1] = i
      /\ \A p \in 1..Len(f) : F[p] = f[p]
      /\ \A p \in 1..Len(b) : Append(b, i)[p] = b[p]
  BY <1>2, StepFacts
<1>4. /\ \A j \in 1..Len(b) : b[j] = f[Base(f, b) + j]
      /\ Base(f, b) = s \/ (/\ IsDefined(KindOf(g, f[Base(f, b)]))
                            /\ EndsMessage(g, f[Base(f, b)]))
  BY <1>1 DEF Held
<1>5. Base(f, b) + Len(b) = Len(f)
  BY <1>3 DEF Base
<1> HIDE DEF F
<1>6. CASE Kept(g, b, i) /\ b2 = Append(b, i)
  <2>1. ASSUME NEW j \in 1..Len(b2)
        PROVE  b2[j] = F[Base(f, b) + j]
    <3>1. CASE j = Len(b) + 1
      BY <1>3, <1>5, <1>6, <3>1
    <3>2. CASE j # Len(b) + 1
      <4>1. j \in 1..Len(b) /\ Base(f, b) + j \in 1..Len(f)
        BY <1>3, <1>5, <1>6, <3>2
      <4> QED
        BY <1>3, <1>4, <1>6, <4>1
    <3> QED
      BY <3>1, <3>2
  <2>2. Base(f, b) # s => F[Base(f, b)] = f[Base(f, b)]
    <3>1. Base(f, b) # s => Base(f, b) \in 1..Len(f)
      BY <1>2, <1>3
    <3> QED
      BY <1>3, <3>1
  <2>3. Base(F, b2) = Base(f, b) /\ b2 \in Seq(Lines(g))
    BY <1>3, <1>6
  <2>4. \A j \in 1..Len(b2) : b2[j] = F[Base(F, b2) + j]
    BY <2>1, <2>3
  <2>5. Base(F, b2) = s \/ (/\ IsDefined(KindOf(g, F[Base(F, b2)]))
                            /\ EndsMessage(g, F[Base(F, b2)]))
    BY <1>4, <2>2, <2>3
  <2>6. s <= Base(F, b2) /\ Once(F) /\ s \in Nat /\ F \in Seq(Lines(g))
    BY <1>2, <1>3, <2>3
  <2>7. Held(g, F, s, b2)
    BY <2>3, <2>4, <2>5, <2>6 DEF Held
  <2> QED
    BY <2>7 DEF F
<1>7. ASSUME NEW kind, Found(g, b, i, kind), b2 = <<>>
      PROVE  Held(g, F, s, b2)
  <2>1. b2 \in Seq(Lines(g)) /\ Len(b2) = 0 /\ Base(F, b2) = Len(f) + 1
    BY <1>3, <1>7, EmptySeq DEF Base
  <2>2. Incomplete(g, b, kind)
    BY <1>7 DEF Found, ParserInv
  <2>3. KindOf(g, i) = kind /\ EndsMessage(g, i) /\ IsDefined(kind)
    BY <1>2, <1>7, <2>2, Completes DEF Step, Found
  <2>4. s <= Base(F, b2)
    BY <1>2, <1>3, <2>1
  <2> QED
    BY <1>2, <1>3, <2>1, <2>3, <2>4 DEF Held
<1> QED
  BY <1>6, <1>7 DEF After, F

-----------------------------------------------------------------------------
(* RecoversAtOnce.                                                         *)

LEMMA WholeAtBegins ==
    ASSUME NEW g \in Gateway, NEW f \in Seq(Lines(g)), NEW p \in Nat, NEW m \in Messages(g),
           WholeAt(g, f, p, m), NEW c \in Nat, c <= LengthOf(g, m)
    PROVE  BeginsAt(g, f, p, m, c)
<1>1. /\ p + LengthOf(g, m) - 1 <= Len(f)
      /\ \A j \in 1..LengthOf(g, m) : Console[g][f[p + j - 1]] = [of |-> m, part |-> j]
  BY DEF WholeAt
<1>2. LengthOf(g, m) \in Nat /\ Len(f) \in Nat
  BY ScriptFacts, LenProperties
<1>3. p + c - 1 <= Len(f)
  BY <1>1, <1>2
<1>4. ASSUME NEW j \in 1..c
      PROVE  Of(g, f[p + j - 1]) = m /\ Part(g, f[p + j - 1]) = j
  <2>1. j \in 1..LengthOf(g, m)
    BY <1>2
  <2>2. Console[g][f[p + j - 1]] = [of |-> m, part |-> j]
    BY <1>1, <2>1
  <2> QED
    BY <2>2 DEF Of, Part
<1> QED
  BY <1>3, <1>4 DEF BeginsAt

\* What was given before the last line.
LEMMA WholeBefore ==
    ASSUME NEW g \in Gateway, NEW f \in Seq(Lines(g)), NEW i \in Lines(g),
           NEW p \in Nat \ {0}, NEW m \in Messages(g),
           WholeAt(g, Append(f, i), p, m), p + LengthOf(g, m) - 1 <= Len(f)
    PROVE  WholeAt(g, f, p, m)
<1>1. /\ Len(f) \in Nat /\ \A q \in 1..Len(f) : Append(f, i)[q] = f[q]
  BY OneMore
<1>2. LengthOf(g, m) \in Nat
  BY ScriptFacts
<1>3. ASSUME NEW j \in 1..LengthOf(g, m)
      PROVE  Console[g][f[p + j - 1]] = [of |-> m, part |-> j]
  <2>1. p + j - 1 \in 1..Len(f)
    BY <1>1, <1>2
  <2>2. Console[g][Append(f, i)[p + j - 1]] = [of |-> m, part |-> j]
    BY DEF WholeAt
  <2> QED
    BY <1>1, <2>1, <2>2
<1> QED
  BY <1>3 DEF WholeAt

LEMMA FreshBefore ==
    ASSUME NEW g \in Gateway, NEW f \in Seq(Lines(g)), NEW i \in Lines(g),
           NEW s \in Nat, NEW r \in Nat, r <= Len(f), FreshAfter(g, Append(f, i), s, r)
    PROVE  FreshAfter(g, f, s, r)
<1> SUFFICES ASSUME r # s
             PROVE  FreshAfter(g, f, s, r)
  BY DEF FreshAfter
<1>1. PICK k \in Messages(g) :
         /\ r + 1 - LengthOf(g, k) > s /\ Known(g, k)
         /\ WholeAt(g, Append(f, i), r + 1 - LengthOf(g, k), k)
  BY DEF FreshAfter, Messages
<1>2. LengthOf(g, k) \in Nat /\ Len(f) \in Nat
  BY ScriptFacts, LenProperties
<1> DEFINE q == r + 1 - LengthOf(g, k)
<1>3. q \in Nat \ {0} /\ q + LengthOf(g, k) - 1 <= Len(f)
  BY <1>1, <1>2
<1>4. WholeAt(g, f, q, k)
  <2>1. WholeAt(g, Append(f, i), q, k)
    BY <1>1
  <2> HIDE DEF q
  <2> QED
    BY <1>3, <2>1, WholeBefore
<1> QED
  BY <1>1, <1>4 DEF FreshAfter, Messages

\* When all but the last line of a message came after a fresh start, the buffer
\* begins there.
LEMMA StartsFresh ==
    ASSUME NEW g \in Gateway, NEW f, NEW s, NEW b, NEW P, NEW lost,
           ParserInv(g, f, s, b, P, lost),
           NEW m \in Messages(g), Known(g, m),
           NEW p \in 1..(Len(f) + 1), p + LengthOf(g, m) - 1 = Len(f) + 1,
           BeginsAt(g, f, p, m, LengthOf(g, m) - 1),
           NEW r \in s..(p - 1), FreshAfter(g, f, s, r),
           \A j \in (r + 1)..(p - 1) : ~Known(g, Of(g, f[j]))
    PROVE  Base(f, b) = r
<1> DEFINE base == Base(f, b)
           L == LengthOf(g, m)
<1>1. /\ f \in Seq(Lines(g)) /\ b \in Seq(Lines(g)) /\ s \in Nat /\ s <= base
      /\ base # s => IsDefined(KindOf(g, f[base])) /\ EndsMessage(g, f[base])
  BY DEF ParserInv, Held
<1>2. Len(f) \in Nat /\ Len(b) \in Nat /\ base \in Nat /\ base <= Len(f) /\ r \in Nat /\ p \in Nat
  BY <1>1, LenProperties DEF Base
<1>3. L \in Nat \ {0}
  BY ScriptFacts
<1> HIDE DEF base
<1>4. ASSUME r < base
      PROVE  FALSE
  <2>1. base # s /\ base \in 1..Len(f)
    BY <1>1, <1>2, <1>4
  <2>2. Known(g, Of(g, f[base])) /\ Part(g, f[base]) = LengthOf(g, Of(g, f[base]))
    BY <1>1, <2>1, KnownIff DEF EndsMessage
  <2>3. ~(base \in (r + 1)..(p - 1))
    BY <2>2
  <2>4. base - p + 1 \in 1..(L - 1) /\ p + (base - p + 1) - 1 = base
    BY <1>2, <1>3, <1>4, <2>1, <2>3
  <2>5. Of(g, f[base]) = m /\ Part(g, f[base]) = base - p + 1
    BY <2>4 DEF BeginsAt
  <2> QED
    BY <1>3, <2>2, <2>4, <2>5
<1>5. ASSUME base < r
      PROVE  FALSE
  <2>1. r # s
    BY <1>1, <1>2, <1>5
  <2>2. PICK k \in Messages(g) :
           /\ r + 1 - LengthOf(g, k) > s /\ Known(g, k)
           /\ WholeAt(g, f, r + 1 - LengthOf(g, k), k)
    BY <2>1 DEF FreshAfter, Messages
  <2> DEFINE q == r + 1 - LengthOf(g, k)
             K == LengthOf(g, k)
             kind == Script[g][k].kind
  <2>3. K \in Nat \ {0} /\ q \in Nat /\ q > s /\ q + K - 1 = r
    BY <1>1, <1>2, <2>2, ScriptFacts
  <2>4. WholeAt(g, f, q, k)
    BY <2>2
  <2>5. kind \in Kind /\ IsDefined(kind) /\ Layout[kind].length = K
    BY <2>2, ScriptFacts DEF Known, IsDefined, LengthOf
  <2>6. Reached(g, f, b, kind, parseMessages(g, b, kind)) /\ Incomplete(g, b, kind)
    BY <2>5 DEF ParserInv, Matched
  <2> HIDE DEF q, K
  <2>7. BeginsAt(g, f, q, k, K)
    BY <1>1, <2>3, <2>4, WholeAtBegins DEF K
  <2>8. CASE base < q
    <3>1. K <= Len(parseMessages(g, b, kind))
      BY <2>3, <2>6, <2>7, <2>8 DEF Reached, base
    <3>2. Len(parseMessages(g, b, kind)) < K
      BY <2>5, <2>6 DEF Incomplete
    <3>3. parseMessages(g, b, kind) \in Seq(Lines(g))
      <4> HIDE DEF kind
      <4>1. \E h : /\ Run(g, b, kind, h) /\ parseMessages(g, b, kind) = h[Len(b)]
        BY <1>1, ParseRun
      <4> QED
        BY <1>2, <4>1 DEF Run
    <3>4. Len(parseMessages(g, b, kind)) \in Nat
      BY <3>3, LenProperties
    <3> QED
      BY <2>3, <3>1, <3>2, <3>4
  <2>9. CASE q <= base
    <3>1. base # s /\ base - q + 1 \in 1..K /\ base - q + 1 # K /\ q + (base - q + 1) - 1 = base
      BY <1>1, <1>2, <1>5, <2>3, <2>9
    <3>2. Of(g, f[base]) = k /\ Part(g, f[base]) = base - q + 1
      BY <2>7, <3>1 DEF BeginsAt
    <3>3. Part(g, f[base]) = LengthOf(g, Of(g, f[base]))
      BY <1>1, <3>1 DEF EndsMessage
    <3> QED
      BY <3>1, <3>2, <3>3 DEF K
  <2> QED
    BY <1>2, <2>3, <2>8, <2>9
<1> QED
  BY <1>2, <1>4, <1>5 DEF base

\* Then its last line completes it.
LEMMA LastLineCompletes ==
    ASSUME NEW g \in Gateway, NEW f, NEW s, NEW b, NEW P, NEW lost,
           ParserInv(g, f, s, b, P, lost),
           NEW i \in Lines(g), ~Contains(f, i),
           NEW m \in Messages(g), Known(g, m), Of(g, i) = m, EndsMessage(g, i),
           NEW p \in 1..(Len(f) + 1), p + LengthOf(g, m) - 1 = Len(f) + 1,
           BeginsAt(g, f, p, m, LengthOf(g, m) - 1),
           NEW r \in s..(p - 1), FreshAfter(g, f, s, r),
           \A j \in (r + 1)..(p - 1) : ~Known(g, Of(g, f[j]))
    PROVE  /\ Found(g, b, i, KindOf(g, i))
           /\ m \in WholeOf(g, parseMessages(g, Append(b, i), KindOf(g, i)))
<1> DEFINE kind == KindOf(g, i)
           L == LengthOf(g, m)
           got == parseMessages(g, b, kind)
           R == parseMessages(g, Append(b, i), kind)
           n == Base(f, b)
<1>1. /\ f \in Seq(Lines(g)) /\ b \in Seq(Lines(g)) /\ s \in Nat /\ Len(f) \in Nat
  BY LenProperties DEF ParserInv, Held
<1>2. got \in Seq(Lines(g)) /\ R = Taken(g, i, kind, got) /\ Len(got) \in Nat
  BY <1>1, ParseAppend, LenProperties
<1>3. L \in Nat \ {0} /\ kind = Script[g][m].kind /\ kind \in Kind /\ Layout[kind].length = L
  BY ScriptFacts DEF KindOf, Of, LengthOf
<1>4. IsDefined(kind)
  BY KnownIff
<1>5. Base(f, b) = r
  BY StartsFresh
<1> HIDE DEF kind, got, R, L
<1>6. Picked(g, f, b, kind, got) /\ Reached(g, f, b, kind, got) /\ Len(got) < L
  BY <1>3, <1>4 DEF ParserInv, Matched, Incomplete, got
<1>7. Len(got) = L - 1
  <2>1. L - 1 \in Nat /\ p \in Nat /\ Base(f, b) < p /\ BeginsAt(g, f, p, m, L - 1)
    BY <1>1, <1>3, <1>5 DEF L
  <2>2. L - 1 <= Len(got)
    BY <1>3, <1>6, <2>1 DEF Reached
  <2> QED
    BY <1>2, <1>3, <1>6, <2>2
<1>8. ASSUME NEW j \in 1..Len(got)
      PROVE  Of(g, got[j]) = m
  <2>1. PICK q \in (r + 1)..Len(f) : f[q] = got[j] /\ KindOf(g, got[j]) = kind
    BY <1>5, <1>6, <1>8 DEF Picked
  <2>2. Known(g, Of(g, f[q]))
    BY <1>4, <2>1, KnownIff
  <2>3. ~(q \in (r + 1)..(p - 1))
    BY <2>2
  <2>4. q - p + 1 \in 1..(L - 1) /\ p + (q - p + 1) - 1 = q
    BY <1>1, <1>3, <2>1, <2>3 DEF L
  <2>5. Of(g, f[q]) = m
    BY <2>4 DEF BeginsAt, L
  <2> QED
    BY <2>1, <2>5
<1>9. Part(g, i) = Len(got) + 1
  BY <1>2, <1>3, <1>7 DEF EndsMessage, L
<1>10. /\ R = Append(got, i) /\ Len(R) = L /\ R[Len(got) + 1] = i
       /\ \A j \in 1..Len(got) : R[j] = got[j]
  BY <1>2, <1>3, <1>7, <1>9, AppendProperties DEF Taken, kind
<1>11. Found(g, b, i, kind)
  BY <1>3, <1>4, <1>10 DEF Found, Complete, R
<1>12. ASSUME NEW j \in 1..Len(R)
       PROVE  Of(g, R[j]) = m
  <2>1. j \in 1..Len(got) \/ j = Len(got) + 1
    BY <1>2, <1>3, <1>7, <1>10
  <2> QED
    BY <1>8, <1>10, <2>1
<1>13. m \in WholeOf(g, R)
  BY <1>12 DEF WholeOf, Messages, Of
<1> QED
  BY <1>11, <1>13 DEF kind, R

\* Only the kind of the new line can be complete.
LEMMA OnlyOneCompletes ==
    ASSUME NEW g \in Gateway, NEW f, NEW s, NEW b, NEW P, NEW lost,
           ParserInv(g, f, s, b, P, lost), NEW i \in Lines(g),
           NEW b2, NEW P2, After(g, b, i, P, b2, P2), Found(g, b, i, KindOf(g, i))
    PROVE  b2 = <<>> /\ P2 = P \cup WholeOf(g, parseMessages(g, Append(b, i), KindOf(g, i)))
<1>1. ~Kept(g, b, i)
  BY DEF Found, Kept
<1>2. PICK kind : /\ Found(g, b, i, kind) /\ b2 = <<>>
                  /\ P2 = P \cup WholeOf(g, parseMessages(g, Append(b, i), kind))
  BY <1>1 DEF After
<1>3. b \in Seq(Lines(g)) /\ Incomplete(g, b, kind)
  BY <1>2 DEF ParserInv, Held, Found
<1>4. kind = KindOf(g, i)
  BY <1>2, <1>3, Completes
<1> QED
  BY <1>2, <1>4

LEMMA RecoversNext ==
    ASSUME NEW g \in Gateway, NEW f, NEW s, NEW b, NEW P, NEW lost,
           ParserInv(g, f, s, b, P, lost),
           NEW i \in Lines(g), ~Contains(f, i),
           NEW b2, NEW P2, After(g, b, i, P, b2, P2)
    PROVE  Recovers(g, Append(f, i), s, P2)
<1> DEFINE F == Append(f, i)
<1>1. Held(g, f, s, b) /\ Recovers(g, f, s, P)
  BY DEF ParserInv
<1>2. f \in Seq(Lines(g)) /\ s \in Nat /\ Base(f, b) \in s..Len(f)
  BY <1>1, HeldStep DEF Held
<1>3. /\ Len(f) \in Nat /\ Len(F) = Len(f) + 1 /\ F[Len(f) + 1] = i
      /\ F \in Seq(Lines(g)) /\ \A p \in 1..Len(f) : F[p] = f[p]
  BY <1>2, OneMore
<1>4. \A m \in P : m \in P2
  BY DEF After
<1>5. ASSUME NEW m \in Messages(g), NEW p \in 1..Len(F), Known(g, m), WholeAt(g, F, p, m),
             NEW r \in s..(p - 1), FreshAfter(g, F, s, r),
             \A j \in (r + 1)..(p - 1) : ~Known(g, Of(g, F[j]))
      PROVE  m \in P2
  <2> DEFINE L == LengthOf(g, m)
  <2>1. L \in Nat \ {0} /\ r \in Nat /\ r <= Len(f) /\ p \in Nat \ {0}
    BY <1>2, <1>3, ScriptFacts
  <2>2. p + L - 1 <= Len(f) + 1
    BY <1>3, <1>5 DEF WholeAt
  <2>3. FreshAfter(g, f, s, r)
    BY <1>2, <1>5, <2>1, FreshBefore
  <2>4. ASSUME NEW j \in (r + 1)..(p - 1)
        PROVE  ~Known(g, Of(g, f[j]))
    <3>1. j \in 1..Len(f)
      BY <1>3, <2>1
    <3>2. F[j] = f[j]
      BY <1>3, <3>1
    <3> QED
      BY <1>5, <3>2
  <2>5. CASE p + L - 1 <= Len(f)
    <3>1. WholeAt(g, f, p, m) /\ p \in 1..Len(f)
      BY <1>2, <1>3, <1>5, <2>1, <2>5, WholeBefore
    <3>2. \A j \in (r + 1)..(p - 1) : ~Known(g, Console[g][f[j]].of)
      BY <2>4 DEF Of
    <3>3. m \in P
      BY <1>1, <1>5, <2>3, <3>1, <3>2 DEF Recovers, Messages
    <3> QED
      BY <1>4, <3>3
  <2>6. CASE p + L - 1 = Len(f) + 1
    <3>1. BeginsAt(g, F, p, m, L)
      <4>1. F \in Seq(Lines(g)) /\ p \in Nat /\ WholeAt(g, F, p, m) /\ L \in Nat /\ L <= LengthOf(g, m)
        BY <1>3, <1>5, <2>1
      <4> HIDE DEF F, L
      <4> QED
        BY <4>1, WholeAtBegins
    <3>2. Of(g, i) = m /\ Part(g, i) = L
      <4>1. L \in 1..L
        BY <2>1
      <4>2. Of(g, F[p + L - 1]) = m /\ Part(g, F[p + L - 1]) = L
        BY <3>1, <4>1 DEF BeginsAt
      <4> QED
        BY <1>3, <2>6, <4>2
    <3>3. BeginsAt(g, f, p, m, L - 1)
      <4>1. ASSUME NEW j \in 1..(L - 1)
            PROVE  Of(g, f[p + j - 1]) = m /\ Part(g, f[p + j - 1]) = j
        <5>1. j \in 1..L /\ p + j - 1 \in 1..Len(f)
          BY <1>3, <2>1, <2>6
        <5>2. Of(g, F[p + j - 1]) = m /\ Part(g, F[p + j - 1]) = j
          BY <3>1, <5>1 DEF BeginsAt
        <5> QED
          BY <1>3, <5>1, <5>2
      <4>2. p + (L - 1) - 1 <= Len(f)
        BY <1>3, <2>1, <2>6
      <4> QED
        BY <4>1, <4>2 DEF BeginsAt
    <3>4. p \in 1..(Len(f) + 1) /\ EndsMessage(g, i)
      BY <1>3, <3>2 DEF EndsMessage
    <3>5. /\ Found(g, b, i, KindOf(g, i))
          /\ m \in WholeOf(g, parseMessages(g, Append(b, i), KindOf(g, i)))
      <4> HIDE DEF F
      <4> QED
        BY <1>5, <2>3, <2>4, <2>6, <3>2, <3>3, <3>4, LastLineCompletes
    <3>6. P2 = P \cup WholeOf(g, parseMessages(g, Append(b, i), KindOf(g, i)))
      BY <3>5, OnlyOneCompletes
    <3> QED
      BY <3>5, <3>6
  <2> QED
    BY <1>3, <2>1, <2>2, <2>5, <2>6
<1> QED
  BY <1>5 DEF Recovers, Messages, Of

-----------------------------------------------------------------------------
(* As long as nothing is missed.                                           *)

LEMMA ParseType ==
    ASSUME NEW g \in Gateway, NEW b \in Seq(Lines(g)), NEW kind
    PROVE  /\ parseMessages(g, b, kind) \in Seq(Lines(g))
           /\ Len(parseMessages(g, b, kind)) \in Nat
<1>1. PICK h : Run(g, b, kind, h) /\ parseMessages(g, b, kind) = h[Len(b)]
  BY ParseRun
<1>2. Len(b) \in 0..Len(b)
  BY LenProperties
<1>3. parseMessages(g, b, kind) \in Seq(Lines(g))
  BY <1>1, <1>2 DEF Run
<1> QED
  BY <1>3, LenProperties

LEMMA CleanBefore ==
    ASSUME NEW g \in Gateway, NEW f \in Seq(Lines(g)), NEW i \in Lines(g),
           NEW lost, NEW m, Clean(g, Append(f, i), lost, m)
    PROVE  Clean(g, f, lost, m)
<1>1. \A y \in Missing(g, f) : y \in Missing(g, Append(f, i))
  BY OneMore, MissingGrows
<1> QED
  BY <1>1 DEF Clean

\* Of the known lines a new one comes after all those before it, and before all
\* those after it.
LEMMA CleanOrder ==
    ASSUME NEW g \in Gateway, NEW f \in Seq(Lines(g)), NEW i \in Lines(g), ~Contains(f, i),
           NEW lost, NEW m \in Nat, Clean(g, Append(f, i), lost, m),
           NEW y \in Lines(g), Known(g, Of(g, y))
    PROVE  /\ Of(g, y) <= m /\ y < i => Contains(f, y)
           /\ Of(g, i) <= m /\ Known(g, Of(g, i)) /\ Contains(f, y) => y < i
<1>1. /\ y \in Nat /\ i \in Nat /\ Of(g, y) \in Nat /\ Of(g, i) \in Nat
  BY LineTypes
<1>2. /\ Append(f, i) \in Seq(Lines(g)) /\ Len(f) \in Nat /\ Len(Append(f, i)) = Len(f) + 1
      /\ \A p \in 1..Len(f) : Append(f, i)[p] = f[p] /\ f[p] # i
  BY OneMore DEF Contains
<1>3. \A z \in Missing(g, Append(f, i)) : ~(Of(g, z) <= m)
  BY DEF Clean
<1>4. ASSUME Of(g, y) <= m, y < i, ~Contains(f, y)
      PROVE  FALSE
  BY <1>3, <1>4, MissedByNew
<1>5. ASSUME Of(g, i) <= m, Known(g, Of(g, i)), Contains(f, y), ~(y < i)
      PROVE  FALSE
  <2>1. PICK p \in 1..Len(f) : f[p] = y
    BY <1>5 DEF Contains
  <2>2. p \in 1..Len(Append(f, i)) /\ Append(f, i)[p] = y /\ y # i
    BY <1>2, <2>1
  <2>3. i < y
    BY <1>1, <1>5, <2>2
  <2>4. \A q \in 1..p : Append(f, i)[q] # i
    BY <1>2, <2>1
  <2>5. i \in Missing(g, Append(f, i))
    BY <1>2, <1>5, <2>2, <2>3, <2>4, MissedByEarlier
  <2> QED
    BY <1>3, <1>5, <2>5
<1> QED
  BY <1>4, <1>5

\* The last known line before a new one.
LEMMA LastKnownExists ==
    ASSUME NEW g \in Gateway, NEW f \in Seq(Lines(g)),
           NEW y \in Lines(g), Contains(f, y), Known(g, Of(g, y))
    PROVE  \E z \in Lines(g) : LastKnown(g, f, z)
<1> DEFINE S == {z \in Lines(g) : Contains(f, z) /\ Known(g, Of(g, z))}
<1>1. S \in SUBSET (1..Len(Console[g])) /\ S # {} /\ Len(Console[g]) \in Nat
  BY LineFacts DEF Lines
<1>2. Max(S) \in S /\ \A z \in S : Max(S) >= z
  <2> HIDE DEF S
  <2> QED
    BY <1>1, MaxOfIndices
<1>3. PICK z \in S : \A w \in S : z >= w
  BY <1>2
<1>4. ASSUME NEW p \in 1..Len(f), Known(g, Of(g, f[p]))
      PROVE  f[p] <= z
  <2>1. f[p] \in Lines(g) /\ Contains(f, f[p])
    BY ElementOfSeq DEF Contains
  <2>2. f[p] \in S
    BY <1>4, <2>1
  <2>3. f[p] \in Nat /\ z \in Nat
    BY <2>1 DEF Lines
  <2> QED
    BY <1>3, <2>2, <2>3
<1>5. \E p \in 1..Len(f) : f[p] = z
  BY DEF Contains
<1> QED
  BY <1>4, <1>5 DEF LastKnown

\* Before a new line, the lines before it of its message match, and no others.
LEMMA CleanMatch ==
    ASSUME NEW g \in Gateway, NEW f, NEW s, NEW b, NEW P, NEW lost,
           ParserInv(g, f, s, b, P, lost),
           NEW i \in Lines(g), ~Contains(f, i), Known(g, Of(g, i)),
           Clean(g, Append(f, i), lost, Of(g, i)),
           NEW kind \in Kind, IsDefined(kind)
    PROVE  IF KindOf(g, i) = kind
           THEN /\ Len(parseMessages(g, b, kind)) = Part(g, i) - 1
                /\ \A j \in 1..Len(parseMessages(g, b, kind)) :
                      Of(g, parseMessages(g, b, kind)[j]) = Of(g, i)
           ELSE Len(parseMessages(g, b, kind)) = 0
<1> DEFINE r == parseMessages(g, b, kind)
<1>1. f \in Seq(Lines(g)) /\ b \in Seq(Lines(g)) /\ Picked(g, f, b, kind, r) /\ InOrder(g, f, b, P, lost)
  BY DEF ParserInv, Held, Matched
<1>2. Len(r) \in Nat
  BY <1>1, ParseType
<1>3. i \in Nat /\ Of(g, i) \in Nat /\ Part(g, i) \in Nat
  BY LineTypes
<1>4. ASSUME NEW y \in Lines(g), Known(g, Of(g, y)), y < i
      PROVE  Contains(f, y)
  <2>1. Of(g, y) <= Of(g, i)
    BY <1>3, <1>4, LineOrder, LineTypes
  <2> QED
    BY <1>1, <1>3, <1>4, <2>1, CleanOrder
<1>5. ASSUME NEW y \in Lines(g), Known(g, Of(g, y)), Contains(f, y)
      PROVE  y < i
  BY <1>1, <1>3, <1>5, CleanOrder
<1>6. Part(g, i) # 1 => /\ i - 1 \in Lines(g) /\ Of(g, i - 1) = Of(g, i)
                        /\ Part(g, i - 1) = Part(g, i) - 1 /\ Contains(f, i - 1)
  <2>1. ASSUME Part(g, i) # 1
        PROVE  i - 1 \in Lines(g) /\ Of(g, i - 1) = Of(g, i) /\ Part(g, i - 1) = Part(g, i) - 1
    BY <2>1, LineFacts
  <2> QED
    BY <1>3, <1>4, <2>1
<1>7. CASE \A y \in Lines(g) : ~(Contains(f, y) /\ Known(g, Of(g, y)))
  <2>1. Part(g, i) = 1
    BY <1>6, <1>7
  <2>2. Len(r) = 0
    <3>1. ASSUME Len(r) # 0
          PROVE  FALSE
      <4>1. 1 \in 1..Len(r)
        BY <1>2, <3>1
      <4>2. PICK q \in (Base(f, b) + 1)..Len(f) : f[q] = r[1] /\ KindOf(g, r[1]) = kind
        BY <1>1, <4>1 DEF Picked
      <4>3. Len(f) \in Nat /\ Base(f, b) \in Nat
        <5>1. s <= Base(f, b) /\ s \in Nat /\ Len(f) \in Nat /\ Len(b) \in Nat
          BY <1>1, LenProperties DEF ParserInv, Held
        <5> QED
          BY <5>1 DEF Base
      <4>4. q \in 1..Len(f)
        BY <4>3
      <4>5. f[q] \in Lines(g) /\ Contains(f, f[q]) /\ Known(g, Of(g, f[q]))
        BY <1>1, <4>2, <4>4, ElementOfSeq, KnownIff DEF Contains
      <4> QED
        BY <1>7, <4>5
    <3> QED
      BY <3>1
  <2>3. 1..Len(r) = {}
    BY <2>2
  <2> QED
    BY <1>3, <2>1, <2>2, <2>3
<1>8. ASSUME NEW y \in Lines(g), Contains(f, y), Known(g, Of(g, y))
      PROVE  IF KindOf(g, i) = kind
             THEN Len(r) = Part(g, i) - 1 /\ \A j \in 1..Len(r) : Of(g, r[j]) = Of(g, i)
             ELSE Len(r) = 0
  <2>1. PICK z \in Lines(g) : LastKnown(g, f, z)
    BY <1>1, <1>8, LastKnownExists
  <2>2. Contains(f, z) /\ Known(g, Of(g, z)) /\ \A p \in 1..Len(f) : Known(g, Of(g, f[p])) => f[p] <= z
    BY <2>1 DEF LastKnown, Contains
  <2>3. z < i /\ z \in Nat
    BY <1>5, <2>2, LineTypes
  <2>4. /\ Of(g, z) \in Nat /\ Part(g, z) \in Nat /\ Of(g, z) <= Of(g, i)
    BY <1>3, <2>3, LineOrder, LineTypes
  <2>5. Clean(g, f, lost, Of(g, z))
    <3>1. Clean(g, f, lost, Of(g, i))
      BY <1>1, CleanBefore
    <3>2. ASSUME NEW w \in lost \cup Missing(g, f), Of(g, w) <= Of(g, z)
          PROVE  FALSE
      <4>1. ~(Of(g, w) <= Of(g, i))
        BY <3>1 DEF Clean
      <4>2. Of(g, w) \in Nat
        <5>1. Begins(f, f)
          BY <1>1, LenProperties DEF Begins
        <5>2. w \in Lines(g)
          BY <1>1, <5>1, MissingGrows DEF ParserInv
        <5> QED
          BY <5>2, LineTypes
      <4> QED
        BY <1>3, <2>4, <3>2, <4>1, <4>2
    <3> QED
      BY <3>2 DEF Clean
  <2>6. IF KindOf(g, z) = kind /\ ~EndsMessage(g, z)
        THEN Len(r) = Part(g, z) /\ \A j \in 1..Len(r) : Of(g, r[j]) = Of(g, z)
        ELSE Len(r) = 0
    BY <1>1, <2>1, <2>5 DEF InOrder
  <2> HIDE DEF r
  <2>7. CASE EndsMessage(g, z)
    <3>1. Part(g, i) = 1
      <4>1. ASSUME Part(g, i) # 1
            PROVE  FALSE
        <5>1. /\ i - 1 \in Lines(g) /\ Of(g, i - 1) = Of(g, i)
              /\ Part(g, i - 1) = Part(g, i) - 1 /\ Contains(f, i - 1)
          BY <1>6, <4>1
        <5>2. i - 1 <= z
          BY <2>2, <5>1 DEF Contains
        <5>3. z = i - 1
          BY <1>3, <2>3, <5>2
        <5>4. Part(g, i) <= LengthOf(g, Of(g, i)) /\ LengthOf(g, Of(g, i)) \in Nat
          BY LineTypes
        <5> QED
          BY <1>3, <2>7, <5>1, <5>3, <5>4 DEF EndsMessage
      <4> QED
        BY <4>1
    <3>2. Len(r) = 0 /\ 1..Len(r) = {}
      BY <2>6, <2>7
    <3> QED
      BY <3>1, <3>2
  <2>8. CASE ~EndsMessage(g, z)
    <3>1. z + 1 \in Lines(g) /\ Of(g, z + 1) = Of(g, z) /\ Part(g, z + 1) = Part(g, z) + 1
      BY <2>8, LineFacts DEF EndsMessage
    <3>2. z + 1 = i
      <4>1. ASSUME z + 1 < i
            PROVE  FALSE
        <5>1. Contains(f, z + 1)
          BY <1>4, <2>2, <3>1, <4>1
        <5>2. z + 1 <= z
          BY <2>2, <3>1, <5>1 DEF Contains
        <5> QED
          BY <2>3, <5>2
      <4> QED
        BY <1>3, <2>3, <4>1
    <3>3. KindOf(g, z) = KindOf(g, i) /\ Of(g, z) = Of(g, i) /\ Part(g, z) = Part(g, i) - 1
      BY <2>4, <3>1, <3>2 DEF KindOf, Of
    <3> QED
      BY <2>6, <2>8, <3>3
  <2> QED
    BY <2>7, <2>8
<1> QED
  BY <1>7, <1>8

\* The last line of a message completes it.
LEMMA CleanCompletes ==
    ASSUME NEW g \in Gateway, NEW f, NEW s, NEW b, NEW P, NEW lost,
           ParserInv(g, f, s, b, P, lost),
           NEW i \in Lines(g), ~Contains(f, i), Known(g, Of(g, i)),
           Clean(g, Append(f, i), lost, Of(g, i))
    PROVE  /\ EndsMessage(g, i) =>
                 /\ Found(g, b, i, KindOf(g, i))
                 /\ Of(g, i) \in WholeOf(g, parseMessages(g, Append(b, i), KindOf(g, i)))
           /\ Len(parseMessages(g, Append(b, i), KindOf(g, i))) = Part(g, i)
           /\ \A j \in 1..Part(g, i) :
                 Of(g, parseMessages(g, Append(b, i), KindOf(g, i))[j]) = Of(g, i)
<1> DEFINE kind == KindOf(g, i)
           r == parseMessages(g, b, kind)
           R == parseMessages(g, Append(b, i), kind)
<1>1. b \in Seq(Lines(g)) /\ kind \in Kind /\ IsDefined(kind)
  BY LengthOfKind, KnownIff DEF ParserInv, Held
<1>2. r \in Seq(Lines(g)) /\ R = Taken(g, i, kind, r) /\ Len(r) \in Nat
  BY <1>1, ParseAppend, LenProperties
<1>3. Len(r) = Part(g, i) - 1 /\ \A j \in 1..Len(r) : Of(g, r[j]) = Of(g, i)
  BY <1>1, CleanMatch
<1>4. Part(g, i) \in Nat /\ Of(g, i) \in Messages(g) /\ Layout[kind].length = LengthOf(g, Of(g, i))
  BY LineTypes, LineFacts, LengthOfKind
<1> HIDE DEF r, R
<1>5. /\ Len(R) = Len(r) + 1 /\ R[Len(r) + 1] = i
      /\ \A j \in 1..Len(r) : R[j] = r[j]
  BY <1>2, <1>3, <1>4, AppendProperties DEF Taken, kind
<1>6. Len(R) = Part(g, i)
  BY <1>3, <1>4, <1>5
<1>7. ASSUME NEW j \in 1..Len(R)
      PROVE  Of(g, R[j]) = Of(g, i)
  <2>1. j \in 1..Len(r) \/ j = Len(r) + 1
    BY <1>2, <1>5
  <2> QED
    BY <1>3, <1>5, <2>1
<1>8. ASSUME EndsMessage(g, i)
      PROVE  Found(g, b, i, kind) /\ Of(g, i) \in WholeOf(g, R)
  <2>1. Found(g, b, i, kind)
    BY <1>1, <1>4, <1>6, <1>8 DEF Found, Complete, EndsMessage, R
  <2>2. Of(g, i) \in WholeOf(g, R)
    BY <1>4, <1>7 DEF WholeOf, Messages, Of
  <2> QED
    BY <2>1, <2>2
<1> QED
  BY <1>6, <1>7, <1>8 DEF R, kind

LEMMA InOrderNext ==
    ASSUME NEW g \in Gateway, NEW f, NEW s, NEW b, NEW P, NEW lost,
           ParserInv(g, f, s, b, P, lost),
           NEW i \in Lines(g), ~Contains(f, i),
           NEW b2, NEW P2, After(g, b, i, P, b2, P2)
    PROVE  InOrder(g, Append(f, i), b2, P2, lost)
<1> DEFINE F == Append(f, i)
<1>1. Held(g, f, s, b) /\ InOrder(g, f, b, P, lost)
  BY DEF ParserInv
<1>2. f \in Seq(Lines(g)) /\ b \in Seq(Lines(g))
  BY <1>1 DEF Held
<1>3. /\ Len(f) \in Nat /\ Len(F) = Len(f) + 1 /\ F[Len(f) + 1] = i
      /\ F \in Seq(Lines(g)) /\ \A p \in 1..Len(f) : F[p] = f[p]
  BY <1>2, OneMore
<1>4. \A m \in P : m \in P2
  BY DEF After
<1>5. \A y : Contains(F, y) <=> Contains(f, y) \/ y = i
  BY <1>3 DEF Contains
<1>6. \A m : Clean(g, F, lost, m) => Clean(g, f, lost, m)
  BY <1>2, CleanBefore
<1> HIDE DEF F
<1>7. ASSUME NEW m \in Messages(g), Known(g, m), Clean(g, F, lost, m),
             \A y \in Lines(g) : Of(g, y) = m => Contains(F, y)
      PROVE  m \in P2
  <2>1. CASE \A y \in Lines(g) : Of(g, y) = m => Contains(f, y)
    <3>1. m \in P
      BY <1>1, <1>6, <1>7, <2>1 DEF InOrder
    <3> QED
      BY <1>4, <3>1
  <2>2. CASE ~\A y \in Lines(g) : Of(g, y) = m => Contains(f, y)
    <3>1. Of(g, i) = m
      BY <1>5, <1>7, <2>2
    <3>2. m \in Nat /\ LengthOf(g, m) \in Nat \ {0}
      BY ScriptFacts DEF Messages
    <3>3. PICK e \in Lines(g) : Of(g, e) = m /\ Part(g, e) = LengthOf(g, m)
      <4>1. LengthOf(g, m) \in 1..LengthOf(g, m)
        BY <3>2
      <4> QED
        BY <4>1, LineOfPart
    <3>4. e = i
      <4>1. ASSUME e # i
            PROVE  FALSE
        <5>1. Contains(f, e) /\ Clean(g, Append(f, i), lost, m)
          BY <1>5, <1>7, <3>3, <4>1 DEF F
        <5>2. e < i
          BY <1>2, <1>7, <3>1, <3>2, <3>3, <5>1, CleanOrder
        <5>3. Part(g, i) <= LengthOf(g, m) /\ Part(g, i) \in Nat /\ i \in Nat /\ e \in Nat
          BY <3>1, LineTypes
        <5>4. Part(g, i) = Part(g, e) + (i - e)
          BY <3>1, <3>2, <3>3, <5>2, LineOrder
        <5> QED
          BY <3>2, <3>3, <5>2, <5>3, <5>4
      <4> QED
        BY <4>1
    <3>5. EndsMessage(g, i)
      BY <3>1, <3>3, <3>4 DEF EndsMessage
    <3>6. Found(g, b, i, KindOf(g, i)) /\ m \in WholeOf(g, parseMessages(g, Append(b, i), KindOf(g, i)))
      BY <1>7, <3>1, <3>5, CleanCompletes DEF F
    <3> QED
      BY <3>6, OnlyOneCompletes
  <2> QED
    BY <2>1, <2>2
<1>8. ASSUME NEW z \in Lines(g), LastKnown(g, F, z), Clean(g, F, lost, Of(g, z)),
             NEW kind \in Kind, IsDefined(kind)
      PROVE  IF KindOf(g, z) = kind /\ ~EndsMessage(g, z)
             THEN /\ Len(parseMessages(g, b2, kind)) = Part(g, z)
                  /\ \A j \in 1..Len(parseMessages(g, b2, kind)) :
                        Of(g, parseMessages(g, b2, kind)[j]) = Of(g, z)
             ELSE Len(parseMessages(g, b2, kind)) = 0
  <2> DEFINE r == parseMessages(g, b, kind)
             R == parseMessages(g, Append(b, i), kind)
  <2>1. /\ Contains(F, z) /\ Known(g, Of(g, z))
        /\ \A p \in 1..Len(F) : Known(g, Of(g, F[p])) => F[p] <= z
    BY <1>8 DEF LastKnown, Contains
  <2>2. R = Taken(g, i, kind, r)
    BY <1>2, ParseAppend
  <2>3. b2 = Append(b, i) \/ b2 = <<>>
    BY DEF After
  <2>4. parseMessages(g, <<>>, kind) = <<>> /\ Len(<<>>) = 0
    BY ParseEmpty, EmptySeq
  <2>5. CASE Known(g, Of(g, i))
    <3>1. i <= z
      BY <1>3, <2>1, <2>5
    <3>2. z = i
      <4>1. ASSUME z # i
            PROVE  FALSE
        <5>1. Contains(f, z) /\ i \in Nat /\ z \in Nat /\ Of(g, z) \in Nat /\ Of(g, i) \in Nat
          BY <1>5, <2>1, <4>1, LineTypes
        <5>2. i < z
          BY <3>1, <4>1, <5>1
        <5>3. Of(g, i) <= Of(g, z)
          BY <5>1, <5>2, LineOrder
        <5>4. z < i
          BY <1>2, <1>8, <2>1, <2>5, <5>1, <5>3, CleanOrder DEF F
        <5> QED
          BY <5>1, <5>2, <5>4
      <4> QED
        BY <4>1
    <3>3. Clean(g, Append(f, i), lost, Of(g, i))
      BY <1>8, <3>2 DEF F
    <3>4. CASE KindOf(g, i) = kind
      <4>1. /\ Len(R) = Part(g, i) /\ \A j \in 1..Part(g, i) : Of(g, R[j]) = Of(g, i)
            /\ EndsMessage(g, i) => Found(g, b, i, kind)
        BY <2>5, <3>3, <3>4, CleanCompletes
      <4>2. CASE EndsMessage(g, i)
        <5>1. b2 = <<>>
          BY <3>4, <4>1, <4>2, OnlyOneCompletes
        <5> QED
          BY <2>4, <3>2, <4>2, <5>1
      <4>3. CASE ~EndsMessage(g, i)
        <5>1. ASSUME NEW k, Found(g, b, i, k)
              PROVE  FALSE
          <6>1. Incomplete(g, b, k)
            BY <5>1 DEF Found, ParserInv
          <6> QED
            BY <1>2, <4>3, <5>1, <6>1, Completes
        <5>2. b2 = Append(b, i)
          BY <5>1 DEF After
        <5> QED
          BY <3>2, <3>4, <4>1, <4>3, <5>2
      <4> QED
        BY <4>2, <4>3
    <3>5. CASE KindOf(g, i) # kind
      <4>1. Len(r) = 0
        BY <1>8, <2>5, <3>3, <3>5, CleanMatch
      <4>2. R = r
        BY <2>2, <3>5 DEF Taken
      <4> HIDE DEF r, R
      <4>3. Len(parseMessages(g, b2, kind)) = 0
        BY <2>3, <2>4, <4>1, <4>2 DEF R
      <4> QED
        BY <3>2, <3>5, <4>3
    <3> QED
      BY <3>4, <3>5
  <2>6. CASE ~Known(g, Of(g, i))
    <3>1. R = r
      BY <1>8, <2>2, <2>6, KnownIff DEF Taken
    <3>2. ASSUME NEW k, Found(g, b, i, k)
          PROVE  FALSE
      <4>1. Incomplete(g, b, k)
        BY <3>2 DEF Found, ParserInv
      <4> QED
        BY <1>2, <2>6, <3>2, <4>1, Completes
    <3>3. b2 = Append(b, i)
      BY <3>2 DEF After
    <3>4. LastKnown(g, f, z)
      <4>1. \E p \in 1..Len(f) : f[p] = z
        BY <1>5, <2>1, <2>6 DEF Contains
      <4>2. ASSUME NEW p \in 1..Len(f), Known(g, Of(g, f[p]))
            PROVE  f[p] <= z
        BY <1>3, <2>1, <4>2
      <4> QED
        BY <2>1, <4>1, <4>2 DEF LastKnown
    <3>5. Clean(g, f, lost, Of(g, z))
      BY <1>6, <1>8
    <3>6. IF KindOf(g, z) = kind /\ ~EndsMessage(g, z)
          THEN Len(r) = Part(g, z) /\ \A j \in 1..Len(r) : Of(g, r[j]) = Of(g, z)
          ELSE Len(r) = 0
      BY <1>1, <1>8, <3>4, <3>5 DEF InOrder
    <3> QED
      BY <3>1, <3>3, <3>6
  <2> QED
    BY <2>5, <2>6
<1>9. InOrder(g, F, b2, P2, lost)
  BY <1>7, <1>8 DEF InOrder
<1> QED
  BY <1>9 DEF F

LEMMA WholeFoundNext ==
    ASSUME NEW g \in Gateway, NEW f, NEW s, NEW b, NEW P, NEW lost,
           ParserInv(g, f, s, b, P, lost),
           NEW i \in Lines(g), ~Contains(f, i),
           NEW b2, NEW P2, After(g, b, i, P, b2, P2)
    PROVE  WholeFound(g, Append(f, i), P2)
<1> DEFINE F == Append(f, i)
<1>1. Held(g, f, s, b) /\ WholeFound(g, f, P)
  BY DEF ParserInv
<1>2. f \in Seq(Lines(g)) /\ b \in Seq(Lines(g)) /\ Step(g, f, b, i)
  BY <1>1, HeldStep DEF Held
<1>3. /\ Len(f) \in Nat /\ Len(F) = Len(f) + 1 /\ F[Len(f) + 1] = i
      /\ F \in Seq(Lines(g)) /\ \A p \in 1..Len(f) : F[p] = f[p]
  BY <1>2, OneMore
<1>4. \A y : Contains(f, y) => Contains(F, y)
  BY <1>3 DEF Contains
<1>5. Base(f, b) \in Nat /\ Base(F, Append(b, i)) = Base(f, b)
  BY <1>2, StepFacts
<1> HIDE DEF F
<1>6. ASSUME NEW m \in P
      PROVE  m \in Messages(g) /\ \A y \in Lines(g) : Of(g, y) = m => Contains(F, y)
  BY <1>1, <1>4 DEF WholeFound
<1>7. ASSUME NEW kind, Found(g, b, i, kind),
             NEW m \in WholeOf(g, parseMessages(g, Append(b, i), kind))
      PROVE  m \in Messages(g) /\ \A y \in Lines(g) : Of(g, y) = m => Contains(F, y)
  <2> DEFINE R == parseMessages(g, Append(b, i), kind)
  <2>1. kind \in Kind /\ IsDefined(kind) /\ Incomplete(g, b, kind)
    BY <1>7 DEF ParserInv, Found
  <2>2. R \in Seq(Lines(g)) /\ Len(R) = LengthOf(g, Of(g, i)) /\ KindOf(g, i) = kind
    BY <1>2, <1>7, <2>1, Completes
  <2>3. Matched(g, f, b, kind)
    BY <2>1 DEF ParserInv
  <2>4. Picked(g, F, Append(b, i), kind, R)
    BY <1>2, <2>1, <2>3, MatchedNext DEF F, Matched
  <2>5. m \in Messages(g) /\ \A j \in 1..Len(R) : Of(g, R[j]) = m
    BY DEF WholeOf, Messages, Of
  <2> HIDE DEF R
  <2>6. LengthOf(g, m) = Len(R) /\ Len(R) \in Nat \ {0}
    <3>1. LengthOf(g, Of(g, i)) \in Nat \ {0}
      BY LineFacts
    <3>2. 1 \in 1..Len(R)
      BY <2>2, <3>1
    <3>3. KindOf(g, R[1]) = kind /\ Of(g, R[1]) = m /\ R[1] \in Lines(g)
      BY <2>2, <2>4, <2>5, <3>2, ElementOfSeq DEF Picked
    <3> QED
      BY <2>2, <3>1, <3>3, LengthOfKind
  <2>7. ASSUME NEW y \in Lines(g), Of(g, y) = m
        PROVE  Contains(F, y)
    <3>1. Part(g, y) \in 1..Len(R)
      BY <2>6, <2>7, LineTypes
    <3>2. Part(g, R[Part(g, y)]) = Part(g, y) /\ Of(g, R[Part(g, y)]) = m /\ R[Part(g, y)] \in Lines(g)
      BY <2>2, <2>4, <2>5, <3>1, ElementOfSeq DEF Picked
    <3>3. R[Part(g, y)] = y
      BY <2>7, <3>2, LineUnique
    <3>4. PICK q \in (Base(f, b) + 1)..Len(F) : F[q] = y
      BY <1>5, <2>4, <3>1, <3>3 DEF Picked, F
    <3>5. q \in 1..Len(F)
      BY <1>5
    <3> QED
      BY <3>4, <3>5 DEF Contains
  <2> QED
    BY <2>5, <2>7
<1>8. WholeFound(g, F, P2)
  BY <1>6, <1>7 DEF WholeFound, After
<1> QED
  BY <1>8 DEF F

-----------------------------------------------------------------------------
(* StreamParser.add keeps what is said of a parser.                        *)

LEMMA AddKeepsParser ==
    ASSUME NEW g \in Gateway, NEW f, NEW s, NEW b, NEW P, NEW lost,
           ParserInv(g, f, s, b, P, lost),
           NEW i \in Lines(g), ~Contains(f, i),
           NEW b2, NEW P2, After(g, b, i, P, b2, P2)
    PROVE  ParserInv(g, Append(f, i), s, b2, P2, lost)
<1> DEFINE F == Append(f, i)
<1>1. Held(g, F, s, b2) /\ Recovers(g, F, s, P2) /\ InOrder(g, F, b2, P2, lost) /\ WholeFound(g, F, P2)
  BY HeldNext, RecoversNext, InOrderNext, WholeFoundNext
<1>2. Held(g, f, s, b) /\ b \in Seq(Lines(g))
  BY DEF ParserInv, Held
<1>3. Step(g, f, b, i)
  BY <1>2, HeldStep
<1>4. F \in Seq(Lines(g))
  BY <1>1 DEF Held
<1> HIDE DEF F
<1>5. ASSUME NEW kind \in Kind, IsDefined(kind)
      PROVE  Matched(g, F, b2, kind) /\ Incomplete(g, b2, kind)
  <2>1. Matched(g, f, b, kind) /\ Incomplete(g, b, kind)
    BY <1>5 DEF ParserInv
  <2>2. CASE Kept(g, b, i) /\ b2 = Append(b, i)
    BY <1>2, <1>3, <1>5, <2>1, <2>2, MatchedNext, KeptIncomplete DEF F
  <2>3. CASE b2 = <<>>
    BY <1>4, <2>3, MatchedReset
  <2> QED
    BY <2>2, <2>3 DEF After
<1>6. ParserInv(g, F, s, b2, P2, lost)
  BY <1>1, <1>5 DEF ParserInv
<1> QED
  BY <1>6 DEF F

\* What is true of the lines that a listener is given.
FoundFacts(g, f, found) ==
    /\ found \in Seq(Lines(g)) /\ Len(found) # 0
    /\ Len(found) = Layout[KindOf(g, found[1])].length
    /\ \A j \in 1..Len(found) : Contains(f, found[j])
    /\ Mixed(g, f, found) /\ Rising(f, found)
    /\ IsDefined(KindOf(g, found[1]))
    /\ \A j \in 1..Len(found) :
          KindOf(g, found[j]) = KindOf(g, found[1]) /\ Part(g, found[j]) = j

LEMMA FoundIsFact ==
    ASSUME NEW g \in Gateway, NEW f, NEW s, NEW b, NEW P, NEW lost,
           ParserInv(g, f, s, b, P, lost),
           NEW i \in Lines(g), ~Contains(f, i),
           NEW kind, Found(g, b, i, kind)
    PROVE  FoundFacts(g, Append(f, i), parseMessages(g, Append(b, i), kind))
<1> DEFINE F == Append(f, i)
           R == parseMessages(g, Append(b, i), kind)
<1>1. Held(g, f, s, b) /\ b \in Seq(Lines(g))
  BY DEF ParserInv, Held
<1>2. Step(g, f, b, i)
  BY <1>1, HeldStep
<1>3. kind \in Kind /\ IsDefined(kind) /\ Matched(g, f, b, kind) /\ Incomplete(g, b, kind)
  BY DEF ParserInv, Found
<1>4. Picked(g, F, Append(b, i), kind, R) /\ Mixed(g, F, R) /\ Rising(F, R)
  BY <1>2, <1>3, MatchedNext DEF Matched
<1>5. R \in Seq(Lines(g)) /\ Len(R) = LengthOf(g, Of(g, i)) /\ KindOf(g, i) = kind
  BY <1>1, <1>3, Completes
<1>6. Base(F, Append(b, i)) \in Nat
  BY <1>2, StepFacts
<1>7. Len(R) \in Nat \ {0} /\ Layout[kind].length = Len(R)
  BY <1>5, LineFacts, LengthOfKind
<1> HIDE DEF F, R
<1>8. KindOf(g, R[1]) = kind
  <2>1. 1 \in 1..Len(R)
    BY <1>7
  <2> QED
    BY <1>4, <2>1 DEF Picked
<1>9. ASSUME NEW j \in 1..Len(R)
      PROVE  Contains(F, R[j])
  <2>1. PICK q \in (Base(F, Append(b, i)) + 1)..Len(F) : F[q] = R[j]
    BY <1>4 DEF Picked
  <2>2. q \in 1..Len(F)
    BY <1>6
  <2> QED
    BY <2>1, <2>2 DEF Contains
<1>10. \A j \in 1..Len(R) : KindOf(g, R[j]) = KindOf(g, R[1]) /\ Part(g, R[j]) = j
  BY <1>4, <1>8 DEF Picked
<1>11. FoundFacts(g, F, R)
  BY <1>3, <1>4, <1>5, <1>7, <1>8, <1>9, <1>10 DEF FoundFacts
<1> QED
  BY <1>11 DEF F, R

LEMMA EarlierStays ==
    ASSUME NEW S, NEW f \in Seq(S), NEW h \in Seq(S), Begins(f, h),
           NEW x, NEW y, Earlier(f, x, y)
    PROVE  Earlier(h, x, y)
<1>1. PICK p \in 1..Len(f), q \in 1..Len(f) : p < q /\ f[p] = x /\ f[q] = y
  BY DEF Earlier
<1>2. Len(f) \in Nat /\ Len(h) \in Nat
  BY LenProperties
<1>3. p \in 1..Len(h) /\ q \in 1..Len(h) /\ h[p] = x /\ h[q] = y
  BY <1>1, <1>2 DEF Begins
<1> QED
  BY <1>1, <1>3 DEF Earlier

LEMMA EarlierTransitive ==
    ASSUME NEW S, NEW f \in Seq(S), Once(f), NEW x, NEW y, NEW z, Earlier(f, x, y), Earlier(f, y, z)
    PROVE  Earlier(f, x, z)
<1>1. PICK p \in 1..Len(f), q \in 1..Len(f) : p < q /\ f[p] = x /\ f[q] = y
  BY DEF Earlier
<1>2. PICK o \in 1..Len(f), t \in 1..Len(f) : o < t /\ f[o] = y /\ f[t] = z
  BY DEF Earlier
<1>3. Len(f) \in Nat
  BY LenProperties
<1>4. o = q
  BY <1>1, <1>2 DEF Once
<1>5. p < t
  BY <1>1, <1>2, <1>4
<1> QED
  BY <1>1, <1>2, <1>5 DEF Earlier

\* They stay true.
LEMMA FoundStays ==
    ASSUME NEW g \in Gateway, NEW f \in Seq(Lines(g)), NEW h \in Seq(Lines(g)), Begins(f, h),
           NEW found, FoundFacts(g, f, found)
    PROVE  FoundFacts(g, h, found)
<1>1. \A y \in Missing(g, f) : y \in Missing(g, h)
  BY MissingGrows
<1>2. Len(f) \in Nat /\ Len(h) \in Nat /\ Len(f) <= Len(h) /\ \A p \in 1..Len(f) : h[p] = f[p]
  BY LenProperties DEF Begins
<1>3. \A y : Contains(f, y) => Contains(h, y)
  BY <1>2 DEF Contains
<1>4. Mixed(g, h, found)
  BY <1>1 DEF Mixed, FoundFacts
<1>5. Rising(h, found)
  BY EarlierStays DEF Rising, FoundFacts
<1> QED
  BY <1>3, <1>4, <1>5 DEF FoundFacts

State(g) == [buffer : Seq(Lines(g)), found : Seq(Seq(Lines(g)))]

\* The messages that were found.
WholeOfAll(g, founds) == UNION {WholeOf(g, found) : found \in ToSet(founds)}

LEMMA AddStep ==
    ASSUME NEW g \in Gateway, NEW f, NEW s, NEW state \in State(g), NEW P, NEW lost,
           ParserInv(g, f, s, state.buffer, P \cup WholeOfAll(g, state.found), lost),
           NEW i \in Lines(g), ~Contains(f, i)
    PROVE  /\ add(g, state, i) \in State(g)
           /\ ParserInv(g, Append(f, i), s, add(g, state, i).buffer,
                        P \cup WholeOfAll(g, add(g, state, i).found), lost)
           /\ \A x \in ToSet(add(g, state, i).found) :
                 x \in ToSet(state.found) \/ FoundFacts(g, Append(f, i), x)
<1> DEFINE b == state.buffer
           new == add(g, state, i)
           Q == P \cup WholeOfAll(g, state.found)
           Q2 == P \cup WholeOfAll(g, new.found)
<1>1. b \in Seq(Lines(g)) /\ state.found \in Seq(Seq(Lines(g)))
  BY DEF State
<1>2. Append(b, i) \in Seq(Lines(g))
  BY <1>1, AppendProperties
<1>3. CASE Kept(g, b, i) /\ new = [state EXCEPT !.buffer = Append(b, i)]
  <2>1. new \in State(g) /\ new.buffer = Append(b, i) /\ new.found = state.found
    BY <1>2, <1>3 DEF State
  <2> HIDE DEF new, b
  <2>2. After(g, b, i, Q, new.buffer, Q2)
    BY <1>3, <2>1 DEF After
  <2> QED
    BY <2>1, <2>2, AddKeepsParser DEF b, new
<1>4. ASSUME NEW kind, Found(g, b, i, kind), new.buffer = <<>>,
             new.found = Append(state.found, parseMessages(g, Append(b, i), kind)),
             new = [buffer |-> new.buffer, found |-> new.found]
      PROVE  /\ new \in State(g)
             /\ ParserInv(g, Append(f, i), s, new.buffer, Q2, lost)
             /\ \A x \in ToSet(new.found) : x \in ToSet(state.found) \/ FoundFacts(g, Append(f, i), x)
  <2> DEFINE R == parseMessages(g, Append(b, i), kind)
  <2>1. R \in Seq(Lines(g))
    BY <1>2, ParseType
  <2>2. FoundFacts(g, Append(f, i), R)
    BY <1>4, FoundIsFact
  <2> HIDE DEF R, new, b
  <2>3. /\ new.found \in Seq(Seq(Lines(g)))
        /\ ToSet(new.found) = ToSet(state.found) \cup {R}
    BY <1>1, <1>4, <2>1, ElementsOfAppend DEF R
  <2>4. new \in State(g)
    BY <1>4, <2>3, EmptySeq DEF State
  <2>5. WholeOfAll(g, new.found) = WholeOfAll(g, state.found) \cup WholeOf(g, R)
    BY <2>3 DEF WholeOfAll
  <2>6. Q2 = Q \cup WholeOf(g, R)
    BY <2>5
  <2>7. After(g, b, i, Q, new.buffer, Q2)
    BY <1>4, <2>6 DEF After, R
  <2>8. ParserInv(g, Append(f, i), s, new.buffer, Q2, lost)
    BY <2>7, AddKeepsParser DEF b
  <2> QED
    BY <2>2, <2>3, <2>4, <2>8
<1>5. new = [buffer |-> new.buffer, found |-> new.found]
  BY DEF add, State
<1>6. \/ Kept(g, b, i) /\ new = [state EXCEPT !.buffer = Append(b, i)]
      \/ \E kind : /\ Found(g, b, i, kind) /\ new.buffer = <<>>
                   /\ new.found = Append(state.found, parseMessages(g, Append(b, i), kind))
  BY AddCases
<1> QED
  BY <1>3, <1>4, <1>5, <1>6

-----------------------------------------------------------------------------
(* What a batch brings: n lines were given before it, when the buffer of   *)
(* the gateway was buffer[g].                                              *)

\* Each line that matches is of the batch, or was in its place before.
FromBatch(g, n, f, kind, r) ==
    \A j \in 1..Len(r) :
        \/ \E q \in (n + 1)..Len(f) : f[q] = r[j]
        \/ LET old == parseMessages(g, buffer[g], kind) IN j <= Len(old) /\ old[j] = r[j]

\* Lines that were found came before those in the buffer.
OfBatch(g, n, f, state) ==
    /\ \A kind \in Kind : IsDefined(kind) =>
          FromBatch(g, n, f, kind, parseMessages(g, state.buffer, kind))
    /\ \A x \in ToSet(state.found) :
          /\ FromBatch(g, n, f, KindOf(g, x[1]), x)
          /\ \A j \in 1..Len(x) : \E q \in 1..Base(f, state.buffer) : f[q] = x[j]

LEMMA FromBatchNext ==
    ASSUME NEW g \in Gateway, NEW f, NEW b, NEW i, Step(g, f, b, i),
           NEW n \in Nat, n <= Len(f), NEW kind, NEW r \in Seq(Lines(g)), FromBatch(g, n, f, kind, r)
    PROVE  /\ FromBatch(g, n, Append(f, i), kind, r)
           /\ FromBatch(g, n, Append(f, i), kind, Taken(g, i, kind, r))
<1> DEFINE F == Append(f, i)
           R == Taken(g, i, kind, r)
           old == parseMessages(g, buffer[g], kind)
<1>1. /\ Len(f) \in Nat /\ Len(F) = Len(f) + 1 /\ F[Len(f) + 1] = i
      /\ \A p \in 1..Len(f) : F[p] = f[p]
  BY StepFacts
<1>2. Len(r) \in Nat /\ i \in Lines(g)
  BY LenProperties DEF Step
<1>3. /\ \A j \in 1..Len(r) : R[j] = r[j]
      /\ \A j \in 1..Len(R) : j \in 1..Len(r) \/ R[j] = i
  BY <1>2, AppendProperties DEF Taken
<1> HIDE DEF F, R, old
<1>4. \A j \in 1..Len(r) : (\E q \in (n + 1)..Len(f) : f[q] = r[j]) \/ (j <= Len(old) /\ old[j] = r[j])
  BY DEF FromBatch, old
<1>5. \A q \in (n + 1)..Len(f) : q \in (n + 1)..Len(F) /\ F[q] = f[q]
  BY <1>1
<1>6. \A j \in 1..Len(r) : (\E q \in (n + 1)..Len(F) : F[q] = r[j]) \/ (j <= Len(old) /\ old[j] = r[j])
  BY <1>4, <1>5
<1>7. \E q \in (n + 1)..Len(F) : F[q] = i
  BY <1>1
<1>8. \A j \in 1..Len(R) : (\E q \in (n + 1)..Len(F) : F[q] = R[j]) \/ (j <= Len(old) /\ old[j] = R[j])
  BY <1>3, <1>6, <1>7
<1>9. FromBatch(g, n, F, kind, r) /\ FromBatch(g, n, F, kind, R)
  BY <1>6, <1>8 DEF FromBatch, old
<1> QED
  BY <1>9 DEF F, R

LEMMA AddOfBatch ==
    ASSUME NEW g \in Gateway, NEW f, NEW s, NEW state \in State(g), NEW P, NEW lost,
           ParserInv(g, f, s, state.buffer, P, lost),
           NEW i \in Lines(g), ~Contains(f, i),
           NEW n \in Nat, n <= Len(f), OfBatch(g, n, f, state),
           \A x \in ToSet(state.found) : FoundFacts(g, f, x)
    PROVE  OfBatch(g, n, Append(f, i), add(g, state, i))
<1> DEFINE b == state.buffer
           new == add(g, state, i)
           F == Append(f, i)
           R(kind) == parseMessages(g, Append(b, i), kind)
<1>1. Held(g, f, s, b) /\ b \in Seq(Lines(g)) /\ state.found \in Seq(Seq(Lines(g)))
  BY DEF ParserInv, Held, State
<1>2. Step(g, f, b, i)
  BY <1>1, HeldStep
<1>3. /\ Append(b, i) \in Seq(Lines(g)) /\ F \in Seq(Lines(g))
      /\ Len(f) \in Nat /\ Len(b) \in Nat /\ Base(f, b) \in Nat /\ Base(f, b) <= Len(f)
      /\ Base(F, Append(b, i)) = Base(f, b)
      /\ Len(F) = Len(f) + 1 /\ F[Len(f) + 1] = i /\ \A p \in 1..Len(f) : F[p] = f[p]
  BY <1>2, StepFacts
<1>4. /\ \A kind \in Kind : IsDefined(kind) => FromBatch(g, n, f, kind, parseMessages(g, b, kind))
      /\ \A x \in ToSet(state.found) :
            /\ x \in Seq(Lines(g)) /\ FromBatch(g, n, f, KindOf(g, x[1]), x)
            /\ \A j \in 1..Len(x) : \E q \in 1..Base(f, b) : f[q] = x[j]
  BY DEF OfBatch, FoundFacts
<1>5. ASSUME NEW kind \in Kind, IsDefined(kind)
      PROVE  FromBatch(g, n, F, kind, R(kind))
  <2>1. parseMessages(g, b, kind) \in Seq(Lines(g)) /\ R(kind) = Taken(g, i, kind, parseMessages(g, b, kind))
    BY <1>1, ParseAppend
  <2> QED
    BY <1>2, <1>4, <1>5, <2>1, FromBatchNext
<1>6. \A x \in ToSet(state.found) : FromBatch(g, n, F, KindOf(g, x[1]), x)
  BY <1>2, <1>4, FromBatchNext
<1>7. ASSUME NEW x \in ToSet(state.found), NEW j \in 1..Len(x)
      PROVE  \E q \in 1..Base(f, b) : F[q] = x[j]
  <2>1. PICK q \in 1..Base(f, b) : f[q] = x[j]
    BY <1>4
  <2>2. q \in 1..Len(f)
    BY <1>3
  <2> QED
    BY <1>3, <2>1, <2>2
<1> HIDE DEF F, b, new, R
<1>8. ASSUME new = [state EXCEPT !.buffer = Append(b, i)]
      PROVE  OfBatch(g, n, F, new)
  <2>1. new.buffer = Append(b, i) /\ new.found = state.found
    BY <1>8 DEF State
  <2>2. \A kind \in Kind : IsDefined(kind) => FromBatch(g, n, F, kind, parseMessages(g, new.buffer, kind))
    BY <1>5, <2>1 DEF R
  <2> QED
    BY <1>3, <1>6, <1>7, <2>1, <2>2 DEF OfBatch
<1>9. ASSUME NEW kind, Found(g, b, i, kind), new.buffer = <<>>,
             new.found = Append(state.found, R(kind))
      PROVE  OfBatch(g, n, F, new)
  <2>1. R(kind) \in Seq(Lines(g)) /\ FoundFacts(g, F, R(kind))
    BY <1>3, <1>9, ParseType, FoundIsFact DEF F, R, b
  <2>2. ToSet(new.found) = ToSet(state.found) \cup {R(kind)}
    BY <1>1, <1>9, <2>1, ElementsOfAppend
  <2>3. Base(F, new.buffer) = Len(F)
    <3>1. Len(<<>>) = 0
      BY EmptySeq
    <3> QED
      BY <1>3, <1>9, <3>1 DEF Base
  <2>4. KindOf(g, R(kind)[1]) = kind
    <3>1. kind \in Kind /\ IsDefined(kind) /\ Matched(g, f, b, kind)
      BY <1>9 DEF Found, ParserInv, b
    <3>2. Picked(g, F, Append(b, i), kind, R(kind))
      BY <1>2, <3>1, MatchedNext DEF Matched, F, R
    <3>3. 1 \in 1..Len(R(kind))
      <4>1. Len(R(kind)) \in Nat /\ Len(R(kind)) # 0
        BY <2>1, LenProperties DEF FoundFacts
      <4> QED
        BY <4>1
    <3> QED
      BY <3>2, <3>3 DEF Picked
  <2>5. FromBatch(g, n, F, KindOf(g, R(kind)[1]), R(kind))
    BY <1>5, <1>9, <2>4 DEF Found
  <2>6. \A j \in 1..Len(R(kind)) : \E q \in 1..Len(F) : F[q] = R(kind)[j]
    BY <2>1 DEF FoundFacts, Contains
  <2>7. \A q \in 1..Base(f, b) : q \in 1..Len(F)
    BY <1>3
  <2>8. ASSUME NEW x \in ToSet(new.found)
        PROVE  /\ FromBatch(g, n, F, KindOf(g, x[1]), x)
               /\ \A j \in 1..Len(x) : \E q \in 1..Base(F, new.buffer) : F[q] = x[j]
    <3>1. CASE x \in ToSet(state.found)
      BY <1>6, <1>7, <2>3, <2>7, <3>1
    <3>2. CASE x = R(kind)
      BY <2>3, <2>5, <2>6, <3>2
    <3> QED
      BY <2>2, <3>1, <3>2
  <2>9. ASSUME NEW k \in Kind
        PROVE  FromBatch(g, n, F, k, parseMessages(g, new.buffer, k))
    <3>1. parseMessages(g, new.buffer, k) = <<>> /\ Len(<<>>) = 0
      BY <1>9, ParseEmpty, EmptySeq
    <3> QED
      BY <3>1 DEF FromBatch
  <2> QED
    BY <2>8, <2>9 DEF OfBatch
<1>10. \/ new = [state EXCEPT !.buffer = Append(b, i)]
       \/ \E kind : /\ Found(g, b, i, kind) /\ new.buffer = <<>>
                    /\ new.found = Append(state.found, R(kind))
  BY AddCases DEF new, b, R
<1> QED
  BY <1>8, <1>9, <1>10 DEF F, new

-----------------------------------------------------------------------------
(* The lines of a batch, one after the other.                              *)

Parses(g, lines, state) ==
    /\ state[0] = parserOf(g)
    /\ \A k \in 1..Len(lines) : state[k] = add(g, state[k - 1], lines[k])

\* add goes from a state of a parser to a state of a parser.
LEMMA AddType ==
    ASSUME NEW g \in Gateway, NEW state \in State(g), NEW i \in Lines(g)
    PROVE  add(g, state, i) \in State(g)
<1>1. state.buffer \in Seq(Lines(g)) /\ state.found \in Seq(Seq(Lines(g)))
  BY DEF State
<1>2. Append(state.buffer, i) \in Seq(Lines(g))
  BY <1>1, AppendProperties
<1>3. CASE add(g, state, i) = [state EXCEPT !.buffer = Append(state.buffer, i)]
  BY <1>2, <1>3 DEF State
<1>4. ASSUME NEW kind, add(g, state, i).buffer = <<>>,
             add(g, state, i).found =
                Append(state.found, parseMessages(g, Append(state.buffer, i), kind))
      PROVE  add(g, state, i) \in State(g)
  <2>1. parseMessages(g, Append(state.buffer, i), kind) \in Seq(Lines(g))
    BY <1>2, ParseType
  <2>2. add(g, state, i).found \in Seq(Seq(Lines(g))) /\ add(g, state, i).buffer \in Seq(Lines(g))
    BY <1>1, <1>4, <2>1, AppendProperties, EmptySeq
  <2>3. add(g, state, i) = [buffer |-> add(g, state, i).buffer, found |-> add(g, state, i).found]
    BY DEF add, State
  <2> QED
    BY <2>2, <2>3 DEF State
<1> QED
  BY <1>3, <1>4, AddCases

LEMMA ParseStates ==
    ASSUME NEW g \in Gateway, buffer[g] \in Seq(Lines(g)), NEW lines \in Seq(Lines(g))
    PROVE  /\ parserOf(g) \in State(g)
           /\ \E state : Parses(g, lines, state) /\ parse(g, lines) = state[Len(lines)]
<1> DEFINE n == Len(lines)
           S == State(g)
           step == [a \in S \X (1..n) |-> add(g, a[1], lines[a[2]])]
           Body(f) == [k \in 0..n |-> IF k = 0 THEN parserOf(g) ELSE add(g, f[k - 1], lines[k])]
           state == CHOOSE f : f = Body(f)
<1>1. n \in Nat /\ \A k \in 1..n : lines[k] \in Lines(g)
  BY LenProperties, ElementOfSeq
<1>2. parse(g, lines) = state[n]
  BY DEF parse
<1>3. parserOf(g) \in S
  BY EmptySeq DEF parserOf, State
<1>4. step \in [S \X (1..n) -> S] /\ \A r \in S, k \in 1..n : step[<<r, k>>] = add(g, r, lines[k])
  <2> HIDE DEF n
  <2>1. ASSUME NEW a \in S \X (1..n)
        PROVE  add(g, a[1], lines[a[2]]) \in S
    BY <1>1, AddType
  <2> HIDE DEF S
  <2> QED
    BY <2>1
<1> HIDE DEF S, step, n
<1>5. PICK f \in [0..n -> S] : f[0] = parserOf(g) /\ \A k \in 1..n : f[k] = step[<<f[k - 1], k>>]
  <2>1. Iterates(S, n, parserOf(g), step)
    BY <1>1, <1>3, <1>4, Iteration
  <2> QED
    BY <2>1 DEF Iterates
<1>6. \A k \in 1..n : f[k] = add(g, f[k - 1], lines[k])
  <2>1. ASSUME NEW k \in 1..n
        PROVE  f[k] = add(g, f[k - 1], lines[k])
    <3>1. k - 1 \in 0..n
      BY <1>1
    <3>2. f[k - 1] \in S
      BY <3>1
    <3> QED
      BY <1>4, <1>5, <3>2
  <2> QED
    BY <2>1
<1>7. f = Body(f)
  <2>1. ASSUME NEW k \in 0..n
        PROVE  f[k] = IF k = 0 THEN parserOf(g) ELSE add(g, f[k - 1], lines[k])
    BY <1>1, <1>5, <1>6
  <2> QED
    BY <1>5, <2>1
<1>8. state = Body(state)
  <2> HIDE DEF Body
  <2> QED
    BY <1>7
<1> HIDE DEF state
<1>9. state[0] = parserOf(g) /\ \A k \in 1..n : state[k] = add(g, state[k - 1], lines[k])
  <2>1. \A k \in 0..n : state[k] = IF k = 0 THEN parserOf(g) ELSE add(g, state[k - 1], lines[k])
    BY <1>8
  <2> HIDE DEF Body
  <2>2. \A k \in 1..n : k \in 0..n /\ k # 0
    BY <1>1
  <2>3. 0 \in 0..n
    BY <1>1
  <2> QED
    BY <2>1, <2>2, <2>3
<1>10. Parses(g, lines, state)
  BY <1>9 DEF Parses, n
<1> QED
  BY <1>2, <1>3, <1>10 DEF S, n

\* The first lines of h, and one more.
LEMMA FirstLines ==
    ASSUME NEW S, NEW h \in Seq(S), NEW n \in Nat, n <= Len(h)
    PROVE  /\ SubSeq(h, 1, n) \in Seq(S) /\ Len(SubSeq(h, 1, n)) = n
           /\ \A p \in 1..n : SubSeq(h, 1, n)[p] = h[p]
           /\ Begins(SubSeq(h, 1, n), h)
<1>1. Len(h) \in Nat /\ \A p \in 1..n : h[p] \in S
  BY LenProperties, ElementOfSeq
<1>2. /\ SubSeq(h, 1, n) \in Seq(S)
      /\ Len(SubSeq(h, 1, n)) = IF 1 <= n THEN n - 1 + 1 ELSE 0
      /\ \A p \in 1..(n - 1 + 1) : SubSeq(h, 1, n)[p] = h[1 + p - 1]
  BY <1>1, SubSeqProperties
<1>3. Len(SubSeq(h, 1, n)) = n /\ \A p \in 1..n : SubSeq(h, 1, n)[p] = h[p]
  BY <1>2
<1> QED
  BY <1>2, <1>3 DEF Begins

LEMMA FirstLinesNext ==
    ASSUME NEW S, NEW h \in Seq(S), NEW n \in Nat, n < Len(h)
    PROVE  SubSeq(h, 1, n + 1) = Append(SubSeq(h, 1, n), h[n + 1])
<1>1. Len(h) \in Nat /\ n + 1 \in 1..Len(h) /\ h[n + 1] \in S
  BY LenProperties, ElementOfSeq
<1> DEFINE a == SubSeq(h, 1, n)
           c == SubSeq(h, 1, n + 1)
<1>2. a \in Seq(S) /\ Len(a) = n /\ \A p \in 1..n : a[p] = h[p]
  BY <1>1, FirstLines
<1>3. c \in Seq(S) /\ Len(c) = n + 1 /\ \A p \in 1..(n + 1) : c[p] = h[p]
  BY <1>1, FirstLines
<1> HIDE DEF a, c
<1>4. /\ Append(a, h[n + 1]) \in Seq(S) /\ Len(Append(a, h[n + 1])) = n + 1
      /\ Append(a, h[n + 1])[n + 1] = h[n + 1]
      /\ \A p \in 1..n : Append(a, h[n + 1])[p] = a[p]
  BY <1>1, <1>2, OneMore
<1>5. ASSUME NEW p \in 1..(n + 1)
      PROVE  c[p] = Append(a, h[n + 1])[p]
  <2>1. p \in 1..n \/ p = n + 1
    OBVIOUS
  <2> QED
    BY <1>2, <1>3, <1>4, <2>1
<1>6. c = Append(a, h[n + 1])
  BY <1>3, <1>4, <1>5, SeqEqual
<1> QED
  BY <1>6 DEF a, c

\* The parser after all lines of a batch, none of which it was given before.
LEMMA ParseKeepsParser ==
    ASSUME NEW g \in Gateway, NEW f, NEW s, NEW P, NEW lost,
           ParserInv(g, f, s, buffer[g], P, lost),
           NEW lines \in Seq(Lines(g)), Once(lines),
           \A j \in 1..Len(lines) : ~Contains(f, lines[j])
    PROVE  /\ parse(g, lines) \in State(g)
           /\ ParserInv(g, f \o lines, s, parse(g, lines).buffer,
                        P \cup WholeOfAll(g, parse(g, lines).found), lost)
           /\ \A x \in ToSet(parse(g, lines).found) : FoundFacts(g, f \o lines, x)
           /\ OfBatch(g, Len(f), f \o lines, parse(g, lines))
<1> DEFINE h == f \o lines
           n == Len(f)
           l == Len(lines)
           given(k) == SubSeq(h, 1, n + k)
<1>1. f \in Seq(Lines(g)) /\ Once(f) /\ buffer[g] \in Seq(Lines(g))
  BY DEF ParserInv, Held
<1>2. PICK state : Parses(g, lines, state) /\ parse(g, lines) = state[l]
  BY <1>1, ParseStates
<1>3. state[0] = parserOf(g) /\ \A k \in 1..l : state[k] = add(g, state[k - 1], lines[k])
  BY <1>2 DEF Parses
<1>4. n \in Nat /\ l \in Nat /\ \A k \in 1..l : lines[k] \in Lines(g)
  BY <1>1, LenProperties, ElementOfSeq
<1>5. /\ h \in Seq(Lines(g)) /\ Len(h) = n + l
      /\ \A p \in 1..(n + l) : h[p] = IF p <= n THEN f[p] ELSE lines[p - n]
  BY <1>1, <1>4, ConcatProperties
<1> DEFINE Good(k) == /\ state[k] \in State(g)
                      /\ ParserInv(g, given(k), s, state[k].buffer,
                                   P \cup WholeOfAll(g, state[k].found), lost)
                      /\ \A x \in ToSet(state[k].found) : FoundFacts(g, given(k), x)
                      /\ OfBatch(g, n, given(k), state[k])
           T == {k \in Nat : k <= l /\ ~Good(k)}
<1>6. Good(l) => /\ parse(g, lines) \in State(g)
                 /\ ParserInv(g, h, s, parse(g, lines).buffer,
                        P \cup WholeOfAll(g, parse(g, lines).found), lost)
                 /\ \A x \in ToSet(parse(g, lines).found) : FoundFacts(g, h, x)
                 /\ OfBatch(g, n, h, parse(g, lines))
  <2>1. given(l) = h
    <3>1. given(l) \in Seq(Lines(g)) /\ Len(given(l)) = n + l /\ \A p \in 1..(n + l) : given(l)[p] = h[p]
      BY <1>4, <1>5, FirstLines
    <3> HIDE DEF given, h
    <3> QED
      BY <1>5, <3>1, SeqEqual
  <2> HIDE DEF given, h
  <2> QED
    BY <1>2, <2>1
<1> HIDE DEF h, Good
<1> SUFFICES ASSUME l \in T
             PROVE  FALSE
  BY <1>4, <1>6 DEF h
<1> T \in SUBSET Nat
  OBVIOUS
<1>7. PICK k \in T : \A m \in T : k <= m
  <2> HIDE DEF T
  <2> QED
    BY LeastNatural
<1>8. k \in Nat /\ k <= l /\ ~Good(k)
  OBVIOUS
<1>9. k # 0
  <2>1. given(0) = f
    <3>1. given(0) \in Seq(Lines(g)) /\ Len(given(0)) = n /\ \A p \in 1..n : given(0)[p] = h[p]
      BY <1>4, <1>5, FirstLines
    <3>2. \A p \in 1..n : h[p] = f[p]
      BY <1>4, <1>5
    <3> HIDE DEF given
    <3> QED
      BY <1>1, <3>1, <3>2, SeqEqual
  <2>2. state[0] \in State(g) /\ state[0].buffer = buffer[g] /\ state[0].found = <<>>
    BY <1>1, <1>3, ParseStates DEF parserOf
  <2>3. ToSet(state[0].found) = {} /\ WholeOfAll(g, state[0].found) = {}
    BY <2>2, ElementsOfEmpty DEF WholeOfAll
  <2>4. P \cup WholeOfAll(g, state[0].found) = P
    BY <2>3
  <2> HIDE DEF given
  <2>5. OfBatch(g, n, f, state[0])
    <3>1. ASSUME NEW kind \in Kind
          PROVE  FromBatch(g, n, f, kind, parseMessages(g, buffer[g], kind))
      <4>1. parseMessages(g, buffer[g], kind) \in Seq(Lines(g))
        BY <1>1, ParseType
      <4>2. Len(parseMessages(g, buffer[g], kind)) \in Nat
        BY <4>1, LenProperties
      <4> QED
        BY <4>2 DEF FromBatch
    <3> QED
      BY <2>2, <2>3, <3>1 DEF OfBatch
  <2>6. Good(0)
    BY <2>1, <2>2, <2>3, <2>4, <2>5 DEF Good
  <2> QED
    BY <1>8, <2>6
<1>10. k - 1 \notin T /\ k - 1 \in Nat
  <2> HIDE DEF T
  <2> QED
    BY <1>7, <1>8, <1>9
<1>11. Good(k - 1) /\ k \in 1..l
  BY <1>4, <1>8, <1>9, <1>10
<1> HIDE DEF T
<1> DEFINE i == lines[k]
           a == given(k - 1)
<1>12. /\ a \in Seq(Lines(g)) /\ Len(a) = n + k - 1 /\ \A p \in 1..(n + k - 1) : a[p] = h[p]
       /\ given(k) = Append(a, i)
  <2>1. n + (k - 1) \in Nat /\ n + (k - 1) < Len(h) /\ n + (k - 1) + 1 = n + k
    BY <1>4, <1>5, <1>11
  <2>2. given(k) = Append(a, h[n + (k - 1) + 1])
    BY <1>5, <2>1, FirstLinesNext
  <2>3. h[n + k] = i
    <3>1. n + k \in 1..(n + l) /\ ~(n + k <= n) /\ (n + k) - n = k
      BY <1>4, <1>11
    <3> QED
      BY <1>5, <3>1
  <2>4. a \in Seq(Lines(g)) /\ Len(a) = n + (k - 1) /\ \A p \in 1..(n + (k - 1)) : a[p] = h[p]
    BY <1>5, <2>1, FirstLines
  <2>5. n + (k - 1) = n + k - 1
    BY <1>4, <1>11
  <2> HIDE DEF given
  <2> QED
    BY <2>1, <2>2, <2>3, <2>4, <2>5
<1>13. i \in Lines(g)
  BY <1>4, <1>11
<1>14. ~Contains(a, i)
  <2>1. ASSUME NEW p \in 1..(n + k - 1), a[p] = i
        PROVE  FALSE
    <3>1. p \in 1..(n + l) /\ h[p] = i
      BY <1>4, <1>11, <1>12, <2>1
    <3>2. CASE p <= n
      <4>1. p \in 1..n /\ h[p] = f[p]
        <5>1. p \in 1..(n + l) /\ p \in 1..n
          BY <1>4, <3>1, <3>2
        <5> QED
          BY <1>5, <3>2, <5>1
      <4>2. \E x \in 1..Len(f) : f[x] = i
        BY <3>1, <4>1
      <4>3. k \in 1..Len(lines)
        BY <1>11
      <4>4. ~Contains(f, i)
        BY <4>3
      <4> QED
        BY <4>2, <4>4 DEF Contains
    <3>3. CASE ~(p <= n)
      <4>1. p \in 1..(n + l) /\ p \in 1..(n + k - 1)
        BY <3>1
      <4>2. p - n \in 1..l /\ p - n # k
        BY <1>4, <1>11, <3>3, <4>1
      <4>3. h[p] = lines[p - n]
        BY <1>5, <3>3, <4>1
      <4>4. lines[p - n] = lines[k] /\ k \in 1..l
        BY <1>11, <3>1, <4>3
      <4> QED
        BY <4>2, <4>4 DEF Once
    <3> QED
      BY <3>2, <3>3
  <2> QED
    BY <1>12, <2>1 DEF Contains
<1>15. state[k] = add(g, state[k - 1], i)
  BY <1>3, <1>11
<1>16. /\ state[k - 1] \in State(g)
       /\ ParserInv(g, a, s, state[k - 1].buffer, P \cup WholeOfAll(g, state[k - 1].found), lost)
       /\ \A x \in ToSet(state[k - 1].found) : FoundFacts(g, a, x)
       /\ OfBatch(g, n, a, state[k - 1])
  BY <1>11 DEF Good
<1> HIDE DEF a, i, given
<1>17. /\ state[k] \in State(g)
       /\ ParserInv(g, Append(a, i), s, state[k].buffer, P \cup WholeOfAll(g, state[k].found), lost)
       /\ \A x \in ToSet(state[k].found) :
             x \in ToSet(state[k - 1].found) \/ FoundFacts(g, Append(a, i), x)
  BY <1>13, <1>14, <1>15, <1>16, AddStep
<1>18. Append(a, i) \in Seq(Lines(g)) /\ Begins(a, Append(a, i))
  BY <1>12, <1>13, OneMore
<1>19. \A x \in ToSet(state[k].found) : FoundFacts(g, Append(a, i), x)
  BY <1>12, <1>16, <1>17, <1>18, FoundStays
<1>20. OfBatch(g, n, Append(a, i), state[k])
  <2>1. n <= Len(a)
    BY <1>4, <1>11, <1>12
  <2> QED
    BY <1>4, <1>13, <1>14, <1>15, <1>16, <2>1, AddOfBatch
<1>21. Good(k)
  BY <1>12, <1>17, <1>19, <1>20 DEF Good
<1> QED
  BY <1>8, <1>21

-----------------------------------------------------------------------------
(* A message that was given whole once more.                               *)

\* The other lines of a message, from line i on, came after it in order.
Completed(g, f, i, x) ==
    LET kind == KindOf(g, i)
    IN  /\ x[Part(g, i)] = i
        /\ \A j \in Part(g, i)..Layout[kind].length :
              /\ x[j] \in Lines(g) /\ Contains(f, x[j])
              /\ KindOf(g, x[j]) = kind /\ Part(g, x[j]) = j
              /\ \A k \in Part(g, i)..Layout[kind].length : j < k => Earlier(f, x[j], x[k])

\* As the parser takes the first line that matches, it cannot have such a line,
\* or one before it, and not the others: it would have found a message.
LEMMA NotCompleted ==
    ASSUME NEW g \in Gateway, NEW f \in Seq(Lines(g)), Once(f),
           NEW i \in Lines(g), NEW x, Completed(g, f, i, x),
           NEW r \in Seq(Lines(g)), Rising(f, r), Greedy(g, f, KindOf(g, i), r),
           Len(r) < Layout[KindOf(g, i)].length, Part(g, i) <= Len(r)
    PROVE  r[Part(g, i)] # i /\ ~Earlier(f, r[Part(g, i)], i)
<1> DEFINE kind == KindOf(g, i)
           v == Part(g, i)
           n == Layout[kind].length
           AtOrBefore(a, c) == a = c \/ Earlier(f, a, c)
           T == {j \in Nat : v <= j /\ j <= n /\ ~(j <= Len(r) /\ AtOrBefore(r[j], x[j]))}
<1> SUFFICES ASSUME AtOrBefore(r[v], i)
             PROVE  FALSE
  OBVIOUS
<1>1. v \in Nat \ {0} /\ n \in Nat /\ v <= n /\ Len(r) \in Nat
  BY LineTypes, LengthOfKind, LenProperties
<1>2. /\ x[v] = i
      /\ \A j \in v..n : /\ x[j] \in Lines(g) /\ Contains(f, x[j])
                         /\ KindOf(g, x[j]) = kind /\ Part(g, x[j]) = j
                         /\ \A k \in v..n : j < k => Earlier(f, x[j], x[k])
  BY DEF Completed
<1>3. n \in T
  BY <1>1
<1> HIDE DEF AtOrBefore
<1> T \in SUBSET Nat
  OBVIOUS
<1>4. PICK j \in T : \A k \in T : j <= k
  <2> HIDE DEF T
  <2> QED
    BY <1>3, LeastNatural
<1>5. j \in Nat /\ v <= j /\ j <= n /\ ~(j <= Len(r) /\ AtOrBefore(r[j], x[j]))
  OBVIOUS
<1>6. j # v
  BY <1>2, <1>5
<1>7. j - 1 \notin T
  <2> HIDE DEF T
  <2> QED
    BY <1>4, <1>5
<1>8. ~(/\ j - 1 \in Nat /\ v <= j - 1 /\ j - 1 <= n
        /\ ~(j - 1 <= Len(r) /\ AtOrBefore(r[j - 1], x[j - 1])))
  BY <1>7
<1> HIDE DEF T, kind, v, n
<1>9. /\ j - 1 \in Nat \ {0} /\ v <= j - 1 /\ j - 1 <= n
      /\ j - 1 \in v..n /\ j \in v..n
  BY <1>1, <1>5, <1>6
<1>10. j - 1 <= Len(r) /\ AtOrBefore(r[j - 1], x[j - 1])
  BY <1>8, <1>9
<1>11. Earlier(f, x[j - 1], x[j])
  BY <1>2, <1>9
<1>12. Earlier(f, r[j - 1], x[j])
  BY <1>10, <1>11, EarlierTransitive DEF AtOrBefore
<1>13. PICK p \in 1..Len(f) : f[p] = x[j]
  BY <1>2, <1>9 DEF Contains
<1>14. j - 1 \in 1..Len(r) /\ KindOf(g, f[p]) = kind /\ Part(g, f[p]) = (j - 1) + 1 /\ (j - 1) + 1 = j
  BY <1>1, <1>2, <1>9, <1>10, <1>13
<1>15. j - 1 < Len(r) /\ (r[(j - 1) + 1] = f[p] \/ Earlier(f, r[(j - 1) + 1], f[p]))
  BY <1>12, <1>13, <1>14 DEF Greedy, kind
<1> QED
  BY <1>1, <1>5, <1>13, <1>14, <1>15 DEF AtOrBefore

-----------------------------------------------------------------------------
(* More lines are lost, and new parsers.                                   *)

LEMMA LostGrows ==
    ASSUME NEW g \in Gateway, NEW f, NEW s, NEW b, NEW P, NEW lost,
           ParserInv(g, f, s, b, P, lost),
           NEW lost2, lost2 \subseteq Lines(g), lost \subseteq lost2
    PROVE  ParserInv(g, f, s, b, P, lost2)
<1>1. \A m : Clean(g, f, lost2, m) => Clean(g, f, lost, m)
  BY DEF Clean
<1>2. InOrder(g, f, b, P, lost)
  BY DEF ParserInv
<1>3. InOrder(g, f, b, P, lost2)
  <2>1. \A m \in Messages(g) :
           /\ Known(g, m) /\ Clean(g, f, lost2, m)
           /\ \A i \in Lines(g) : Of(g, i) = m => Contains(f, i)
           => m \in P
    BY <1>1, <1>2 DEF InOrder
  <2>2. ASSUME NEW z \in Lines(g), LastKnown(g, f, z), Clean(g, f, lost2, Of(g, z)),
               NEW kind \in Kind, IsDefined(kind)
        PROVE  LET r == parseMessages(g, b, kind)
               IN  IF KindOf(g, z) = kind /\ ~EndsMessage(g, z)
                   THEN Len(r) = Part(g, z) /\ \A j \in 1..Len(r) : Of(g, r[j]) = Of(g, z)
                   ELSE Len(r) = 0
    BY <1>1, <1>2, <2>2 DEF InOrder
  <2> QED
    BY <2>1, <2>2 DEF InOrder
<1> QED
  BY <1>3 DEF ParserInv

\* New parsers, which keep in mind the first lines f2 of f, and the messages P2
\* of which no other line was given.  The lines of messages that were not
\* found are lost.
LEMMA NewParserHolds ==
    ASSUME NEW g \in Gateway, NEW f, NEW s, NEW b, NEW P, NEW lost,
           ParserInv(g, f, s, b, P, lost),
           NEW f2 \in Seq(Lines(g)), Begins(f2, f),
           NEW P2, P2 \subseteq P,
           \A m \in P2 : \A j \in (Len(f2) + 1)..Len(f) : Of(g, f[j]) # m,
           NEW lost2, lost2 \subseteq Lines(g),
           \A i : Contains(f2, i) /\ Known(g, Of(g, i)) /\ Of(g, i) \notin P2 => i \in lost2
    PROVE  ParserInv(g, f2, Len(f2), <<>>, P2, lost2)
<1>1. /\ f \in Seq(Lines(g)) /\ Once(f) /\ Len(f) \in Nat /\ Len(f2) \in Nat
      /\ Len(f2) <= Len(f) /\ \A p \in 1..Len(f2) : f[p] = f2[p]
  BY LenProperties DEF ParserInv, Held, Begins
<1>2. WholeFound(g, f, P)
  BY DEF ParserInv
<1>3. WholeFound(g, f2, P2)
  <2>1. ASSUME NEW m \in P2, NEW i \in Lines(g), Of(g, i) = m
        PROVE  Contains(f2, i)
    <3>1. PICK p \in 1..Len(f) : f[p] = i
      BY <1>2, <2>1 DEF WholeFound, Contains
    <3>2. ~(p \in (Len(f2) + 1)..Len(f))
      BY <2>1, <3>1
    <3>3. p \in 1..Len(f2)
      BY <1>1, <3>2
    <3> QED
      BY <1>1, <3>1, <3>3 DEF Contains
  <2>2. \A m \in P2 : m \in Messages(g)
    BY <1>2 DEF WholeFound
  <2> QED
    BY <2>1, <2>2 DEF WholeFound
<1>4. Held(g, f2, Len(f2), <<>>)
  <2>1. Once(f2)
    <3>1. ASSUME NEW p \in 1..Len(f2), NEW q \in 1..Len(f2), f2[p] = f2[q]
          PROVE  p = q
      <4>1. p \in 1..Len(f) /\ q \in 1..Len(f) /\ f[p] = f[q]
        BY <1>1, <3>1
      <4> QED
        BY <1>1, <4>1 DEF Once
    <3> QED
      BY <3>1 DEF Once
  <2>2. <<>> \in Seq(Lines(g)) /\ Len(<<>>) = 0
    BY EmptySeq
  <2>3. Base(f2, <<>>) = Len(f2)
    BY <1>1, <2>2 DEF Base
  <2> QED
    BY <1>1, <2>1, <2>2, <2>3 DEF Held
<1>5. \A kind \in Kind : /\ Matched(g, f2, <<>>, kind) /\ Incomplete(g, <<>>, kind)
                         /\ parseMessages(g, <<>>, kind) = <<>>
  BY MatchedReset
<1>6. Recovers(g, f2, Len(f2), P2)
  <2>1. \A p \in 1..Len(f2) : Len(f2)..(p - 1) = {}
    BY <1>1
  <2> QED
    BY <2>1 DEF Recovers
<1>7. InOrder(g, f2, <<>>, P2, lost2)
  <2>1. ASSUME NEW m \in Messages(g), Known(g, m), Clean(g, f2, lost2, m),
               \A i \in Lines(g) : Of(g, i) = m => Contains(f2, i), m \notin P2
        PROVE  FALSE
    <3>1. m \in Nat /\ LengthOf(g, m) \in Nat \ {0}
      BY ScriptFacts DEF Messages
    <3>2. 1 \in 1..LengthOf(g, m)
      BY <3>1
    <3>3. PICK i \in Lines(g) : Of(g, i) = m
      BY <3>2, LineOfPart
    <3>4. i \in lost2
      BY <2>1, <3>3
    <3> QED
      BY <2>1, <3>1, <3>3, <3>4 DEF Clean
  <2>2. ASSUME NEW z \in Lines(g), LastKnown(g, f2, z), Clean(g, f2, lost2, Of(g, z)),
               ~EndsMessage(g, z)
        PROVE  FALSE
    <3>1. /\ Contains(f2, z) /\ Known(g, Of(g, z))
          /\ \A p \in 1..Len(f2) : Known(g, Of(g, f2[p])) => f2[p] <= z
      BY <2>2 DEF LastKnown, Contains
    <3>2. z \in Nat /\ Of(g, z) \in Nat
      BY LineTypes
    <3>3. Of(g, z) \in P2
      BY <2>2, <3>1, <3>2 DEF Clean
    <3>4. z + 1 \in Lines(g) /\ Of(g, z + 1) = Of(g, z)
      BY <2>2, LineFacts DEF EndsMessage
    <3>5. Contains(f2, z + 1)
      BY <1>3, <3>3, <3>4 DEF WholeFound
    <3>6. z + 1 <= z
      BY <3>1, <3>4, <3>5 DEF Contains
    <3> QED
      BY <3>2, <3>6
  <2>3. Len(<<>>) = 0
    BY EmptySeq
  <2>4. ASSUME NEW z \in Lines(g), LastKnown(g, f2, z), Clean(g, f2, lost2, Of(g, z)),
               NEW kind \in Kind, IsDefined(kind)
        PROVE  LET r == parseMessages(g, <<>>, kind)
               IN  IF KindOf(g, z) = kind /\ ~EndsMessage(g, z)
                   THEN Len(r) = Part(g, z) /\ \A j \in 1..Len(r) : Of(g, r[j]) = Of(g, z)
                   ELSE Len(r) = 0
    BY <1>5, <2>2, <2>3, <2>4
  <2> QED
    BY <2>1, <2>4 DEF InOrder
<1> QED
  BY <1>3, <1>4, <1>5, <1>6, <1>7 DEF ParserInv

\* A parser that was given nothing.
LEMMA FirstParserHolds ==
    ASSUME NEW g \in Gateway
    PROVE  ParserInv(g, <<>>, 0, <<>>, {}, {})
<1>1. <<>> \in Seq(Lines(g)) /\ Len(<<>>) = 0
  BY EmptySeq
<1>2. Held(g, <<>>, 0, <<>>)
  BY <1>1 DEF Held, Once, Base
<1>3. \A kind \in Kind : Matched(g, <<>>, <<>>, kind) /\ Incomplete(g, <<>>, kind)
  BY <1>1, MatchedReset
<1>4. Recovers(g, <<>>, 0, {})
  BY <1>1 DEF Recovers
<1>5. WholeFound(g, <<>>, {})
  BY DEF WholeFound
<1>6. InOrder(g, <<>>, <<>>, {}, {})
  <2>1. ASSUME NEW m \in Messages(g), \A i \in Lines(g) : Of(g, i) = m => Contains(<<>>, i)
        PROVE  FALSE
    <3>1. LengthOf(g, m) \in Nat \ {0}
      BY ScriptFacts
    <3>2. 1 \in 1..LengthOf(g, m)
      BY <3>1
    <3>3. PICK i \in Lines(g) : Of(g, i) = m
      BY <3>2, LineOfPart
    <3> QED
      BY <1>1, <2>1, <3>3 DEF Contains
  <2>2. \A z : ~LastKnown(g, <<>>, z)
    BY <1>1 DEF LastKnown
  <2> QED
    BY <2>1, <2>2 DEF InOrder
<1> QED
  BY <1>2, <1>3, <1>4, <1>5, <1>6 DEF ParserInv

=============================================================================
