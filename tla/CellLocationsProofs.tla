------------------------- MODULE CellLocationsProofs -------------------------
(***************************************************************************)
(* Proofs about CellLocations, and with it about LwM2MShadow, for any      *)
(* cells and networks, any updates, and any number of updates, faults and  *)
(* attempts.                                                               *)
(***************************************************************************)
EXTENDS CellLocations, LibraryLemmas

-----------------------------------------------------------------------------
(* The shadow: what the steps of LwM2MShadow preserve.                     *)

\* A step, as far as the shadow, the index and the file are concerned.
ShadowStep ==
    \/ \E content \in Content : Report(content)
    \/ ShadowNext
    \/ UNCHANGED shadowVars

\* Every object of one shadow is as one report had it.
OneReport(shadow) ==
    \A o \in Object : ReportOf(shadow, o) # Unset =>
        LET source == ReportOf(shadow, o)[2] IN
        \A r \in Resources[o] : shadow[o][r] =
            IF r \in Transform[source].has THEN ReportOf(shadow, o) ELSE Unset

\* An update that is under way was so when the later ones were reported.
OverlapIsKnown ==
    \A u \in UnderWay : \A v \in 1..Len(updates) : v > u => <<u, v>> \in overlap

\* Every object of an update that is no longer under way is accounted for, in
\* the way RestIsLatest has it for all of them.
HandledIsShown ==
    \A o \in Object : \A u \in (1..Len(updates)) \ UnderWay :
        SourcesOf(updates[u], o) # {} =>
            \/ ReportOf(lwm2m, o) = <<u, Latest(updates[u], o)>>
            \/ ReportOf(lwm2m, o)[1] > u
            \/ u \in lost \/ <<ReportOf(lwm2m, o)[1], u>> \in overlap

ShadowInv ==
    /\ ShadowTypeOK
    /\ ObjectsAreOfOneReport
    /\ OverlapIsKnown
    /\ HandledIsShown

-----------------------------------------------------------------------------
(* The conversion.                                                         *)

LEMMA ObjectFacts ==
    /\ Object = {"ConnectionInformation_14203", "BatteryAndPower_14202"}
    /\ \A o \in Object : "99" \in Resources[o]
BY DEF Object, Resources

LEMMA TransformFacts ==
    /\ Source = {"roam", "bat", "fg"}
    /\ \A s \in Source : /\ Transform[s].of \in Object
                         /\ Transform[s].has \subseteq Resources[Transform[s].of]
                         /\ "99" \in Transform[s].has
BY DEF Source, Transform, Object, Resources

\* An object has one source, and this is of that object.
LEMMA LatestIsSource ==
    ASSUME NEW content, NEW o, SourcesOf(content, o) # {}
    PROVE  Latest(content, o) \in SourcesOf(content, o)
<1> DEFINE S == SourcesOf(content, o)
<1>1. \E s \in S : content.later \in S => s = content.later
  OBVIOUS
<1> QED
  BY <1>1 DEF Latest

\* A report is the whole of its object: every resource is set by it or unset.
LEMMA ReportFacts ==
    ASSUME NEW u \in 1..MaxUpdates, NEW s \in Source
    PROVE  /\ transformShadowUpdateToLwM2M(u, s) \in [Resources[Transform[s].of] -> Value]
           /\ transformShadowUpdateToLwM2M(u, s)["99"] = <<u, s>>
           /\ \A r \in Resources[Transform[s].of] :
                 transformShadowUpdateToLwM2M(u, s)[r] =
                     IF r \in Transform[s].has THEN <<u, s>> ELSE Unset
<1> DEFINE o == Transform[s].of
<1>1. <<u, s>> \in Value /\ Unset \in Value
  BY DEF Value
<1>2. "99" \in Transform[s].has /\ "99" \in Resources[o]
  BY ObjectFacts, TransformFacts
<1> QED
  BY <1>1, <1>2 DEF transformShadowUpdateToLwM2M

\* The objects of an update: those it has a source for, each as the latest
\* source reports it.
LEMMA ObjectsOfUpdate ==
    ASSUME NEW u
    PROVE  /\ DOMAIN objectsToShadow(u) = {o \in Object : SourcesOf(updates[u], o) # {}}
           /\ \A o \in DOMAIN objectsToShadow(u) :
                 objectsToShadow(u)[o] =
                     transformShadowUpdateToLwM2M(u, Latest(updates[u], o))
<1> DEFINE c == updates[u]
<1>1. \A s \in Sources(c) : s \in Source /\ Transform[s].of \in Object
  BY TransformFacts DEF Sources
<1>2. {Transform[s].of : s \in Sources(c)} = {o \in Object : SourcesOf(c, o) # {}}
  BY <1>1 DEF SourcesOf
<1> QED
  BY <1>2 DEF objectsToShadow

\* What the shadow has after an update: the objects of the update as this has
\* them, the others as they were.
LEMMA MergeFacts ==
    ASSUME NEW u \in 1..MaxUpdates, NEW shadow, NEW o \in Object
    PROVE  /\ SourcesOf(updates[u], o) = {} =>
                  Merge(shadow, objectsToShadow(u))[o] = shadow[o]
           /\ SourcesOf(updates[u], o) # {} =>
                  /\ Latest(updates[u], o) \in Source
                  /\ Transform[Latest(updates[u], o)].of = o
                  /\ Merge(shadow, objectsToShadow(u))[o] =
                         transformShadowUpdateToLwM2M(u, Latest(updates[u], o))
<1> DEFINE merged == Merge(shadow, objectsToShadow(u))
           c == updates[u]
           report == transformShadowUpdateToLwM2M(u, Latest(c, o))
<1>1. ASSUME SourcesOf(c, o) = {}
      PROVE  merged[o] = shadow[o]
  <2>1. o \notin DOMAIN objectsToShadow(u)
    BY <1>1, ObjectsOfUpdate
  <2> QED
    BY <2>1 DEF Merge
<1>2. ASSUME SourcesOf(c, o) # {}
      PROVE  /\ Latest(c, o) \in Source /\ Transform[Latest(c, o)].of = o
             /\ merged[o] = report
  <2>1. Latest(c, o) \in Source /\ Transform[Latest(c, o)].of = o
    BY <1>2, LatestIsSource DEF SourcesOf, Sources
  <2>2. o \in DOMAIN objectsToShadow(u) /\ objectsToShadow(u)[o] = report
    BY <1>2, ObjectsOfUpdate
  <2>3. report \in [Resources[o] -> Value]
    BY <2>1, ReportFacts
  <2>4. merged[o] = [r \in Resources[o] |-> IF r \in DOMAIN report
                                            THEN report[r] ELSE shadow[o][r]]
    BY <2>2 DEF Merge
  <2>5. merged[o] = report
    <3> HIDE DEF report
    <3> QED
      BY <2>3, <2>4
  <2> QED
    BY <2>1, <2>5
<1> QED
  BY <1>1, <1>2

-----------------------------------------------------------------------------
(* Types.                                                                  *)

LEMMA AppendFacts ==
    ASSUME updates \in Seq(Content), NEW content \in Content,
           updates' = Append(updates, content)
    PROVE  /\ updates' \in Seq(Content)
           /\ Len(updates') = Len(updates) + 1
           /\ \A u \in 1..Len(updates) : updates'[u] = updates[u]
BY AppendProperties

LEMMA SourcesOfContent ==
    ASSUME NEW content, NEW o
    PROVE  SourcesOf(content, o) \subseteq Source
BY DEF SourcesOf, Sources

LEMMA EmptyIsShadow == IsShadow(Empty) /\ OneReport(Empty)
<1>1. DOMAIN Empty = Object
  BY DEF Empty
<1>2. ASSUME NEW o \in Object
      PROVE  Empty[o] \in [Resources[o] -> Value] /\ ReportOf(Empty, o) = Unset
  <2>1. Empty[o] = [r \in Resources[o] |-> Unset]
    BY DEF Empty
  <2> QED
    BY <2>1, ObjectFacts DEF Value, ReportOf
<1> QED
  BY <1>1, <1>2 DEF IsShadow, OneReport

\* An update of a shadow gives a shadow, with objects of one report.
LEMMA MergeIsShadow ==
    ASSUME NEW u \in 1..MaxUpdates, NEW shadow, IsShadow(shadow), OneReport(shadow)
    PROVE  /\ IsShadow(Merge(shadow, objectsToShadow(u)))
           /\ OneReport(Merge(shadow, objectsToShadow(u)))
<1> DEFINE merged == Merge(shadow, objectsToShadow(u))
           c == updates[u]
<1>1. ASSUME NEW o \in Object, SourcesOf(c, o) = {}
      PROVE  merged[o] = shadow[o]
  BY <1>1, MergeFacts
<1>2. ASSUME NEW o \in Object, SourcesOf(c, o) # {}
      PROVE  /\ Latest(c, o) \in Source /\ Transform[Latest(c, o)].of = o
             /\ merged[o] = transformShadowUpdateToLwM2M(u, Latest(c, o))
  BY <1>2, MergeFacts
<1>3. DOMAIN merged = Object
  BY DEF Merge
<1> HIDE DEF merged
<1>4. ASSUME NEW o \in Object
      PROVE  merged[o] \in [Resources[o] -> Value]
  <2>1. CASE SourcesOf(c, o) = {}
    BY <2>1, <1>1 DEF IsShadow
  <2>2. CASE SourcesOf(c, o) # {}
    <3> DEFINE s == Latest(c, o)
    <3> HIDE DEF s
    <3>1. s \in Source /\ Transform[s].of = o
          /\ merged[o] = transformShadowUpdateToLwM2M(u, s)
      BY <2>2, <1>2 DEF s
    <3>2. transformShadowUpdateToLwM2M(u, s) \in [Resources[Transform[s].of] -> Value]
      BY <3>1, ReportFacts
    <3> QED
      BY <3>1, <3>2
  <2> QED
    BY <2>1, <2>2
<1>5. ASSUME NEW o \in Object, ReportOf(merged, o) # Unset,
             NEW r \in Resources[o]
      PROVE  merged[o][r] = IF r \in Transform[ReportOf(merged, o)[2]].has
                            THEN ReportOf(merged, o) ELSE Unset
  <2>1. CASE SourcesOf(c, o) = {}
    BY <2>1, <1>1, <1>5 DEF OneReport, ReportOf
  <2>2. CASE SourcesOf(c, o) # {}
    <3> DEFINE s == Latest(c, o)
    <3> HIDE DEF s
    <3>1. s \in Source /\ Transform[s].of = o
          /\ merged[o] = transformShadowUpdateToLwM2M(u, s)
      BY <2>2, <1>2 DEF s
    <3>2. ReportOf(merged, o) = <<u, s>>
      BY <3>1, ReportFacts DEF ReportOf
    <3>3. merged[o][r] = IF r \in Transform[s].has THEN <<u, s>> ELSE Unset
      BY <3>1, ReportFacts
    <3> QED
      BY <3>2, <3>3
  <2> QED
    BY <2>1, <2>2
<1> QED
  BY <1>3, <1>4, <1>5 DEF IsShadow, OneReport, merged

\* What the file has of an index.
LEMMA PublishedIsShadow ==
    ASSUME NEW shadow, IsShadow(shadow), OneReport(shadow), NEW recent
    PROVE  LET file == [o \in Object |-> IF o \in recent THEN shadow[o] ELSE Empty[o]]
           IN IsShadow(file) /\ OneReport(file)
<1> DEFINE file == [o \in Object |-> IF o \in recent THEN shadow[o] ELSE Empty[o]]
<1> HIDE DEF file
<1>1. DOMAIN file = Object /\ \A o \in Object : file[o] \in {shadow[o], Empty[o]}
  BY DEF file
<1>2. IsShadow(file)
  BY <1>1, EmptyIsShadow DEF IsShadow
<1>3. ASSUME NEW o \in Object, ReportOf(file, o) # Unset,
             NEW r \in Resources[o]
      PROVE  file[o][r] = IF r \in Transform[ReportOf(file, o)[2]].has
                          THEN ReportOf(file, o) ELSE Unset
  <2>1. CASE file[o] = shadow[o]
    BY <2>1, <1>3 DEF OneReport, ReportOf
  <2>2. CASE file[o] = Empty[o]
    BY <2>2, <1>3, EmptyIsShadow DEF OneReport, ReportOf
  <2> QED
    BY <2>1, <2>2, <1>1
<1> QED
  BY <1>2, <1>3 DEF OneReport, file

LEMMA OneReportOfAll ==
    ObjectsAreOfOneReport <=> OneReport(lwm2m) /\ OneReport(index) /\ OneReport(published)
BY DEF ObjectsAreOfOneReport, OneReport

-----------------------------------------------------------------------------
(* The steps.                                                              *)

\* Every step keeps the types of the shadow, and its objects of one report.
LEMMA ShadowTypeStep ==
    ASSUME ShadowTypeOK, ObjectsAreOfOneReport, ShadowStep,
           faults' = faults \/ Fault
    PROVE  ShadowTypeOK' /\ ObjectsAreOfOneReport'
<1> USE DEF ShadowTypeOK
<1> DEFINE Shadows == /\ IsShadow(lwm2m) /\ IsShadow(index) /\ IsShadow(published)
                      /\ OneReport(lwm2m) /\ OneReport(index) /\ OneReport(published)
           Lists == /\ updates \in Seq(Content) /\ Len(updates) <= MaxUpdates
                    /\ invocations \cup held \cup lost \subseteq 1..Len(updates)
                    /\ overlap \subseteq (1..MaxUpdates) \X (1..MaxUpdates)
<1>1. Shadows /\ Lists
  BY OneReportOfAll
<1>2. Len(updates) \in Nat /\ MaxUpdates \in Nat /\ MaxFaults \in Nat
  BY <1>1, LenProperties, BoundsAssumption
<1>3. (faults \in 0..MaxFaults)'
  BY <1>2 DEF Fault
<1>4. ASSUME NEW content \in Content, Report(content)
      PROVE  Shadows' /\ Lists'
  <2>1. /\ updates' \in Seq(Content) /\ Len(updates') = Len(updates) + 1
        /\ Len(updates') <= MaxUpdates
    BY <1>2, <1>4, AppendFacts DEF Report
  <2>2. (invocations \cup held \cup lost)' \subseteq 1..Len(updates')
    BY <1>1, <1>2, <1>4, <2>1 DEF Report
  <2>3. overlap' \subseteq (1..MaxUpdates) \X (1..MaxUpdates)
    <3>1. UnderWay \subseteq 1..MaxUpdates /\ Len(updates) + 1 \in 1..MaxUpdates
      BY <1>1, <1>2, <1>4 DEF UnderWay, Report
    <3> QED
      BY <1>1, <1>4, <3>1 DEF Report
  <2>4. Shadows'
    BY <1>1, <1>4 DEF Report
  <2> QED
    BY <2>1, <2>2, <2>3, <2>4
<1>5. ASSUME NEW u \in 1..MaxUpdates, Convert(u)
      PROVE  Shadows' /\ Lists'
  BY <1>1, <1>5 DEF Convert
<1>6. ASSUME NEW u \in 1..MaxUpdates, Redeliver(u)
      PROVE  Shadows' /\ Lists'
  <2>1. u \in 1..Len(updates)
    BY <1>6 DEF Redeliver
  <2>2. {u} \X ((u + 1)..Len(updates)) \subseteq (1..MaxUpdates) \X (1..MaxUpdates)
    BY <1>1, <1>2, <2>1
  <2>3. Lists'
    BY <1>1, <1>6, <2>1, <2>2 DEF Redeliver
  <2> QED
    BY <1>1, <1>6, <2>3 DEF Redeliver
<1>7. ASSUME NEW u \in 1..MaxUpdates, UpdateLwM2M(u)
      PROVE  Shadows' /\ Lists'
  <2>1. IsShadow(lwm2m') /\ OneReport(lwm2m')
    BY <1>1, <1>7, MergeIsShadow DEF UpdateLwM2M
  <2> QED
    BY <1>1, <1>7, <2>1 DEF UpdateLwM2M
<1>8. ASSUME NEW u \in 1..MaxUpdates, LoseUpdate(u)
      PROVE  Shadows' /\ Lists'
  BY <1>1, <1>8 DEF LoseUpdate
<1>9. CASE Index
  BY <1>1, <1>3, <1>9, OneReportOfAll DEF Index, ObjectsAreOfOneReport, OneReport
<1>10. ASSUME NEW recent \in SUBSET Object, Publish(recent)
       PROVE  Shadows' /\ Lists'
  <2>1. IsShadow(published') /\ OneReport(published')
    BY <1>1, <1>10, PublishedIsShadow DEF Publish
  <2> QED
    BY <1>1, <1>10, <2>1 DEF Publish
<1>11. CASE UNCHANGED shadowVars
  BY <1>1, <1>3, <1>11 DEF shadowVars, ObjectsAreOfOneReport
<1>12. Shadows' /\ Lists' => ShadowTypeOK' /\ ObjectsAreOfOneReport'
  BY <1>3 DEF ObjectsAreOfOneReport, OneReport
<1> QED
  BY <1>4, <1>5, <1>6, <1>7, <1>8, <1>9, <1>10, <1>11, <1>12 DEF ShadowStep, ShadowNext

\* Whoever is under way when an update is reported overlaps it: the update is
\* in the overlap of all that are under way after the step.
LEMMA OverlapStep ==
    ASSUME ShadowTypeOK, OverlapIsKnown, ShadowStep
    PROVE  OverlapIsKnown'
<1> USE DEF OverlapIsKnown, UnderWay
<1>1. Len(updates) \in Nat /\ UnderWay \subseteq 1..Len(updates)
  BY LenProperties DEF ShadowTypeOK
<1>2. ASSUME NEW content \in Content, Report(content)
      PROVE  OverlapIsKnown'
  <2> DEFINE n == Len(updates) + 1
  <2>1. Len(updates') = n
    BY <1>2, AppendFacts DEF Report, ShadowTypeOK
  <2>2. UnderWay' = UnderWay \cup {n} /\ overlap' = overlap \cup UnderWay \X {n}
    BY <1>2 DEF Report
  <2>3. ASSUME NEW u \in UnderWay', NEW v \in 1..n, v > u
        PROVE  <<u, v>> \in overlap'
    <3>1. u \in UnderWay
      BY <1>1, <2>2, <2>3
    <3>2. CASE v = n
      BY <2>2, <3>1, <3>2
    <3>3. CASE v \in 1..Len(updates)
      BY <2>2, <2>3, <3>1, <3>3
    <3> QED
      BY <1>1, <3>2, <3>3
  <2> QED
    BY <2>1, <2>3
<1>3. ASSUME NEW u \in 1..MaxUpdates, Redeliver(u)
      PROVE  OverlapIsKnown'
  <2>1. /\ UnderWay' = UnderWay \cup {u} /\ updates' = updates
        /\ overlap' = overlap \cup {u} \X ((u + 1)..Len(updates))
    BY <1>3 DEF Redeliver
  <2>2. ASSUME NEW w \in UnderWay', NEW v \in 1..Len(updates), v > w
        PROVE  <<w, v>> \in overlap'
    <3>1. CASE w = u
      <4>1. v \in (u + 1)..Len(updates)
        BY <1>1, <2>2, <3>1
      <4> QED
        BY <2>1, <3>1, <4>1
    <3>2. CASE w \in UnderWay
      BY <2>1, <2>2, <3>2
    <3> QED
      BY <2>1, <3>1, <3>2
  <2> QED
    BY <2>1, <2>2
<1>4. ASSUME UnderWay' \subseteq UnderWay, UNCHANGED <<updates, overlap>>
      PROVE  OverlapIsKnown'
  BY <1>4
<1>5. ASSUME NEW u \in 1..MaxUpdates, Convert(u) \/ UpdateLwM2M(u) \/ LoseUpdate(u)
      PROVE  UnderWay' \subseteq UnderWay /\ UNCHANGED <<updates, overlap>>
  BY <1>5 DEF Convert, UpdateLwM2M, LoseUpdate
<1>6. ASSUME \/ Index \/ UNCHANGED shadowVars
             \/ \E recent \in SUBSET Object : Publish(recent)
      PROVE  UnderWay' \subseteq UnderWay /\ UNCHANGED <<updates, overlap>>
  BY <1>6 DEF Index, Publish, shadowVars
<1> QED
  BY <1>2, <1>3, <1>4, <1>5, <1>6 DEF ShadowStep, ShadowNext

\* An update that was handled is shown, or a later one is, or it was lost or
\* overwritten by one that overlapped it.
LEMMA HandledStep ==
    ASSUME ShadowTypeOK, OverlapIsKnown, HandledIsShown, ShadowStep
    PROVE  HandledIsShown'
<1> DEFINE Shown(o) == ReportOf(lwm2m, o)
           Fine(u, o) == \/ Shown(o) = <<u, Latest(updates[u], o)>>
                         \/ Shown(o)[1] > u
                         \/ u \in lost \/ <<Shown(o)[1], u>> \in overlap
<1>1. Len(updates) \in Nat /\ UnderWay \subseteq 1..Len(updates)
  BY LenProperties DEF ShadowTypeOK, UnderWay
<1>2. ASSUME NEW o \in Object, NEW u \in (1..Len(updates)) \ UnderWay,
             SourcesOf(updates[u], o) # {}
      PROVE  Fine(u, o)
  BY <1>2 DEF HandledIsShown
<1>3. ASSUME UNCHANGED <<lwm2m, updates>>, UnderWay \subseteq UnderWay' \cup lost',
             lost \subseteq lost', overlap \subseteq overlap'
      PROVE  HandledIsShown'
  BY <1>2, <1>3 DEF HandledIsShown
<1>4. ASSUME NEW content \in Content, Report(content)
      PROVE  HandledIsShown'
  <2> DEFINE n == Len(updates) + 1
  <2>1. Len(updates') = n /\ \A u \in 1..Len(updates) : updates'[u] = updates[u]
    BY <1>4, AppendFacts DEF Report, ShadowTypeOK
  <2>2. /\ UnderWay' = UnderWay \cup {n} /\ overlap \subseteq overlap'
        /\ UNCHANGED <<lwm2m, lost>>
    BY <1>4 DEF Report, UnderWay
  <2>3. ASSUME NEW o \in Object, NEW u \in (1..n) \ UnderWay',
               SourcesOf(updates'[u], o) # {}
        PROVE  Fine(u, o)'
    <3>1. u \in (1..Len(updates)) \ UnderWay
      BY <1>1, <2>2
    <3>2. updates'[u] = updates[u]
      BY <2>1, <3>1
    <3>3. Fine(u, o)
      BY <1>2, <2>3, <3>1, <3>2
    <3> QED
      BY <2>2, <3>2, <3>3
  <2> QED
    BY <2>1, <2>3 DEF HandledIsShown
<1>5. ASSUME NEW u \in 1..MaxUpdates, UpdateLwM2M(u)
      PROVE  HandledIsShown'
  <2>1. /\ lwm2m' = Merge(lwm2m, objectsToShadow(u))
        /\ UnderWay' \cup {u} = UnderWay \cup {u} /\ u \in UnderWay
        /\ UNCHANGED <<updates, overlap, lost>>
    BY <1>5 DEF UpdateLwM2M, UnderWay
  <2>2. ASSUME NEW o \in Object, NEW v \in (1..Len(updates)) \ UnderWay',
               SourcesOf(updates[v], o) # {}
        PROVE  Fine(v, o)'
    <3>1. CASE SourcesOf(updates[u], o) = {}
      <4>1. Shown(o)' = Shown(o)
        BY <2>1, <3>1, MergeFacts DEF ReportOf
      <4>2. v # u /\ v \notin UnderWay
        BY <2>1, <2>2, <3>1
      <4>3. Fine(v, o)
        BY <1>2, <2>2, <4>2
      <4> QED
        BY <2>1, <4>1, <4>3
    <3>2. CASE SourcesOf(updates[u], o) # {}
      <4> DEFINE s == Latest(updates[u], o)
      <4>1. Shown(o)' = <<u, s>>
        <5>1. /\ s \in Source
              /\ Merge(lwm2m, objectsToShadow(u))[o] = transformShadowUpdateToLwM2M(u, s)
          BY <3>2, MergeFacts
        <5> HIDE DEF s
        <5>2. transformShadowUpdateToLwM2M(u, s)["99"] = <<u, s>>
          BY <5>1, ReportFacts
        <5>3. (lwm2m')[o]["99"] = <<u, s>>
          BY <2>1, <5>1, <5>2
        <5> QED
          BY <5>3 DEF ReportOf
      <4>2. CASE v = u
        BY <2>1, <4>1, <4>2
      <4>3. CASE v > u
        <5>1. <<u, v>> \in overlap
          BY <2>1, <4>3 DEF OverlapIsKnown
        <5> QED
          BY <2>1, <4>1, <5>1
      <4>4. CASE v < u
        BY <2>1, <4>1, <4>4
      <4> QED
        BY <4>2, <4>3, <4>4
    <3> QED
      BY <3>1, <3>2
  <2> QED
    BY <2>1, <2>2 DEF HandledIsShown
<1>6. ASSUME NEW u \in 1..MaxUpdates, Convert(u) \/ Redeliver(u) \/ LoseUpdate(u)
      PROVE  HandledIsShown'
  <2>1. /\ UNCHANGED <<lwm2m, updates>> /\ UnderWay \subseteq UnderWay' \cup lost'
        /\ lost \subseteq lost' /\ overlap \subseteq overlap'
    BY <1>6 DEF Convert, Redeliver, LoseUpdate, UnderWay
  <2> QED
    BY <1>3, <2>1
<1>7. ASSUME \/ Index \/ UNCHANGED shadowVars
             \/ \E recent \in SUBSET Object : Publish(recent)
      PROVE  HandledIsShown'
  <2>1. /\ UNCHANGED <<lwm2m, updates>> /\ UnderWay \subseteq UnderWay' \cup lost'
        /\ lost \subseteq lost' /\ overlap \subseteq overlap'
    BY <1>7 DEF Index, Publish, shadowVars, UnderWay
  <2> QED
    BY <1>3, <2>1
<1> QED
  BY <1>4, <1>5, <1>6, <1>7 DEF ShadowStep, ShadowNext

-----------------------------------------------------------------------------
(* The cells.                                                              *)

\* Somebody asked for it: a request is of an update whose document has a cell.
RequestsHaveCells ==
    \A u \in 1..MaxUpdates : requests[u].phase = "queued" =>
        u \in 1..Len(updates) /\ CellOf(u) # NoCell

\* Attempts are used up by faults; only requests for a cell that cannot be
\* located, and results that are not valid, use them up without.
AttemptsAreFaults ==
    /\ \A u \in 1..MaxUpdates : requests[u].phase = "queued" =>
           requests[u].attempts <= faults \/ geo[CellOf(u)] = "failed"
    /\ \A c \in Cell : results[c].phase # "none" =>
           results[c].attempts <= faults \/ SourceOf[c] \notin LocationSource

\* The things are searched after the clients were told.
ToldFirst == \A c \in Cell : results[c].phase = "told" => c \in told

\* Every cell the device has been in is settled, or in the hands of somebody:
\* of a request, of an execution, or of a success event; but for those whose
\* result is not valid, which a success event does not settle.
CellsAreInHand ==
    \A u \in 1..Len(updates) :
        \/ CellOf(u) \in told \cup skipped \cup {NoCell}
        \/ SourceOf[CellOf(u)] \notin LocationSource
        \/ requests[u].phase = "queued"
        \/ geo[CellOf(u)] \in {"running", "failed"}
        \/ results[CellOf(u)].phase = "queued"
        \/ faults >= MaxAttempts

CellInv ==
    /\ TypeOK
    /\ RequestsHaveCells
    /\ AttemptsAreFaults
    /\ ToldFirst
    /\ CellsAreInHand

-----------------------------------------------------------------------------
(* The cell of an update, and attempts.                                    *)

\* The document of an update has one of the device's cells, or none.
LEMMA CurrentCellType ==
    ASSUME NEW reported \in Seq(Content)
    PROVE  CurrentCell(reported) \in Cell \cup {NoCell}
<1> DEFINE roams == {i \in DOMAIN reported : reported[i].roam # NoCell}
<1>1. Len(reported) \in Nat /\ DOMAIN reported = 1..Len(reported)
  BY LenProperties
<1>2. CASE roams = {}
  BY <1>2 DEF CurrentCell
<1>3. CASE roams # {}
  <2>1. Max(roams) \in DOMAIN reported
    BY <1>1, <1>3, MaxOfIndices
  <2>2. reported[Max(roams)].roam \in Cell \cup {NoCell}
    BY <1>1, <2>1, ElementOfSeq, ContentAssumption
  <2> QED
    BY <1>3, <2>2 DEF CurrentCell
<1> QED
  BY <1>2, <1>3

LEMMA CellOfType ==
    ASSUME updates \in Seq(Content), NEW u \in 1..Len(updates)
    PROVE  CellOf(u) \in Cell \cup {NoCell}
<1>1. SubSeq(updates, 1, u) \in Seq(Content)
  <2>1. \A i \in 1..u : i \in 1..Len(updates) /\ updates[i] \in Content
    BY ElementOfSeq, LenProperties
  <2> QED
    BY <2>1, SubSeqProperties
<1> QED
  BY <1>1, CurrentCellType DEF CellOf

\* Another update does not change what earlier ones had, and its own document
\* is the current one.
LEMMA CellOfUpdate ==
    ASSUME updates \in Seq(Content), NEW content \in Content,
           updates' = Append(updates, content)
    PROVE  /\ \A u \in 1..Len(updates) : CellOf(u)' = CellOf(u)
           /\ \A u : u = Len(updates') => CellOf(u)' = CurrentCell(updates')
<1>1. /\ updates' \in Seq(Content) /\ Len(updates') = Len(updates) + 1
      /\ \A u \in 1..Len(updates) : updates'[u] = updates[u]
      /\ Len(updates) \in Nat
  BY AppendFacts, LenProperties
<1>2. ASSUME NEW u \in 1..Len(updates)
      PROVE  SubSeq(updates', 1, u) = SubSeq(updates, 1, u)
  <2>1. \A i \in 1..u : updates[i] \in Content /\ updates'[i] \in Content
    BY <1>1, ElementOfSeq
  <2> DEFINE s == SubSeq(updates, 1, u)
             t == SubSeq(updates', 1, u)
  <2>2. /\ s \in Seq(Content) /\ Len(s) = u
        /\ \A i \in 1..u : s[i] = updates[i]
    BY <2>1, SubSeqProperties
  <2>3. /\ t \in Seq(Content) /\ Len(t) = u
        /\ \A i \in 1..u : t[i] = updates'[i]
    BY <2>1, SubSeqProperties
  <2>4. \A i \in 1..u : t[i] = s[i]
    BY <1>1, <2>2, <2>3
  <2> HIDE DEF s, t
  <2>5. t = s
    BY <2>2, <2>3, <2>4, SeqEqual
  <2> QED
    BY <2>5 DEF s, t
<1>3. SubSeq(updates', 1, Len(updates')) = updates'
  <2> DEFINE n == Len(updates')
             t == SubSeq(updates', 1, n)
  <2>1. n \in Nat /\ \A i \in 1..n : updates'[i] \in Content
    BY <1>1, ElementOfSeq
  <2>2. t \in Seq(Content) /\ Len(t) = n /\ \A i \in 1..n : t[i] = updates'[i]
    BY <2>1, SubSeqProperties
  <2> HIDE DEF t
  <2>3. t = updates'
    BY <1>1, <2>2, SeqEqual
  <2> QED
    BY <2>3 DEF t
<1> QED
  BY <1>2, <1>3 DEF CellOf

LEMMA PhaseFacts ==
    /\ \A phases : "none" \in phases => NotUnderWay \in Phase(phases)
    /\ \A phases : "queued" \in phases => Queued \in Phase(phases)
    /\ \A phases : {"none", "queued"} \subseteq phases =>
           \A i \in Phase(phases) : Again(i) \in Phase(phases)
    /\ \A i : Again(i).phase = "queued" => Again(i).attempts = i.attempts + 1
    /\ \A i : Again(i).phase \in {"none", "queued"}
    /\ \A i : Again(i).phase # "queued" => i.attempts + 1 = MaxAttempts
<1>1. MaxAttempts \in Nat /\ MaxAttempts # 0
  BY AttemptsAssumption
<1> QED
  BY <1>1 DEF NotUnderWay, Queued, Phase, Again

-----------------------------------------------------------------------------
(* The steps.                                                              *)

\* What a step is for the shadow.
LEMMA NextIsShadowStep ==
    ASSUME [Next]_vars
    PROVE  ShadowStep /\ (faults' = faults \/ Fault)
<1>1. ASSUME NEW content \in Content, UpdateDevice(content)
      PROVE  ShadowStep /\ faults' = faults
  BY <1>1 DEF UpdateDevice, ShadowStep
<1>2. CASE ShadowNext
  <2>1. ASSUME NEW u \in 1..MaxUpdates,
               Convert(u) \/ Redeliver(u) \/ UpdateLwM2M(u) \/ LoseUpdate(u)
        PROVE  faults' = faults \/ Fault
    BY <2>1 DEF Convert, Redeliver, UpdateLwM2M, LoseUpdate
  <2>2. ASSUME Index \/ \E recent \in SUBSET Object : Publish(recent)
        PROVE  faults' = faults
    BY <2>2 DEF Index, Publish
  <2> QED
    BY <1>2, <2>1, <2>2 DEF ShadowStep, ShadowNext
<1>3. ASSUME NEW u \in 1..MaxUpdates, Skip(u) \/ Resolve(u) \/ RequestFails(u)
      PROVE  UNCHANGED shadowVars /\ (faults' = faults \/ Fault)
  BY <1>3 DEF Skip, Resolve, RequestFails
<1>4. ASSUME NEW c \in Cell, Succeed(c) \/ GiveUp(c) \/ TellCell(c) \/ UpdateThings(c)
                             \/ ResultFails(c)
      PROVE  UNCHANGED shadowVars /\ (faults' = faults \/ Fault)
  BY <1>4 DEF Succeed, GiveUp, TellCell, UpdateThings, ResultFails
<1>5. CASE UNCHANGED vars
  BY <1>5 DEF vars, ShadowStep
<1> QED
  BY <1>1, <1>2, <1>3, <1>4, <1>5 DEF Next, ShadowStep

\* Where a step leaves the updates alone, their cells are what they were.
LEMMA CellsKept ==
    ASSUME UNCHANGED updates
    PROVE  \A u : CellOf(u)' = CellOf(u)
BY DEF CellOf

\* The device reports: its request is for a cell, and in hand.
LEMMA UpdateDeviceStep ==
    ASSUME CellInv, ShadowTypeOK', NEW content \in Content, UpdateDevice(content)
    PROVE  CellInv'
<1> DEFINE cell == CurrentCell(updates')
<1>0. PICK n : n = Len(updates) + 1
  OBVIOUS
<1>1. /\ updates \in Seq(Content) /\ Len(updates) \in Nat
      /\ updates' = Append(updates, content) /\ Len(updates') = n
      /\ n \in 1..MaxUpdates /\ MaxUpdates \in Nat
  BY <1>0, AppendFacts, LenProperties, BoundsAssumption
     DEF UpdateDevice, Report, CellInv, TypeOK, ShadowTypeOK
<1>2. /\ \A u \in 1..Len(updates) : CellOf(u)' = CellOf(u)
      /\ CellOf(n)' = cell
  BY <1>1, CellOfUpdate
<1>3. /\ requests' = IF cell = NoCell THEN requests ELSE [requests EXCEPT ![n] = Queued]
      /\ UNCHANGED <<geo, results, location, told, skipped, faults>>
  BY <1>1 DEF UpdateDevice
<1> HIDE DEF cell
<1>4. /\ \A u \in 1..MaxUpdates : u # n => requests'[u] = requests[u]
      /\ cell = NoCell => requests' = requests
      /\ cell # NoCell => requests'[n] = Queued
  BY <1>1, <1>3 DEF CellInv, TypeOK
<1>5. TypeOK'
  <2>1. Queued \in Phase({"none", "queued"})
    BY PhaseFacts
  <2>2. requests' \in [1..MaxUpdates -> Phase({"none", "queued"})]
    BY <1>3, <2>1 DEF CellInv, TypeOK
  <2> QED
    BY <1>3, <2>2 DEF CellInv, TypeOK
<1>6. RequestsHaveCells'
  <2> SUFFICES ASSUME NEW u \in 1..MaxUpdates, requests'[u].phase = "queued"
               PROVE  u \in 1..Len(updates') /\ CellOf(u)' # NoCell
    BY DEF RequestsHaveCells
  <2>1. CASE requests'[u] = requests[u]
    BY <1>0, <1>1, <1>2, <2>1 DEF CellInv, RequestsHaveCells
  <2>2. CASE u = n /\ cell # NoCell
    BY <1>1, <1>2, <2>2
  <2> QED
    BY <1>4, <2>1, <2>2
<1>7. AttemptsAreFaults'
  <2>1. ASSUME NEW u \in 1..MaxUpdates, requests'[u].phase = "queued"
        PROVE  requests'[u].attempts <= faults \/ geo[CellOf(u)'] = "failed"
    <3>1. CASE requests'[u] = requests[u]
      <4>1. CellOf(u)' = CellOf(u)
        BY <1>2, <2>1, <3>1 DEF CellInv, RequestsHaveCells
      <4> QED
        BY <2>1, <3>1, <4>1 DEF CellInv, AttemptsAreFaults
    <3>2. CASE u = n /\ cell # NoCell
      <4>1. requests'[u].attempts = 0
        BY <1>4, <3>2 DEF Queued
      <4>2. faults \in Nat
        BY DEF CellInv, TypeOK, ShadowTypeOK
      <4> QED
        BY <4>1, <4>2
    <3> QED
      BY <1>4, <3>1, <3>2
  <2> QED
    BY <1>3, <2>1 DEF AttemptsAreFaults, CellInv
<1>8. ToldFirst'
  BY <1>3 DEF ToldFirst, CellInv
<1>9. CellsAreInHand'
  <2> SUFFICES ASSUME NEW u \in 1..n
               PROVE  \/ CellOf(u)' \in told \cup skipped \cup {NoCell}
                      \/ SourceOf[CellOf(u)'] \notin LocationSource
                      \/ requests'[u].phase = "queued"
                      \/ geo[CellOf(u)'] \in {"running", "failed"}
                      \/ results[CellOf(u)'].phase = "queued"
                      \/ faults >= MaxAttempts
    BY <1>1, <1>3 DEF CellsAreInHand
  <2>1. CASE u \in 1..Len(updates)
    <3>1. requests'[u] = requests[u]
      BY <1>0, <1>1, <1>4, <2>1
    <3> QED
      BY <1>2, <2>1, <3>1 DEF CellsAreInHand, CellInv
  <2>2. CASE u = n
    <3>1. cell = NoCell \/ requests'[u].phase = "queued"
      BY <1>4, <2>2 DEF Queued
    <3> QED
      BY <1>2, <2>2, <3>1
  <2> QED
    BY <1>0, <1>1, <2>1, <2>2
<1> QED
  BY <1>5, <1>6, <1>7, <1>8, <1>9 DEF CellInv

\* A step of the shadow alone, or none at all.
LEMMA ShadowAloneStep ==
    ASSUME CellInv, ShadowTypeOK', UNCHANGED <<updates, cellVars>>,
           faults' = faults \/ Fault
    PROVE  CellInv'
<1>1. /\ \A u : CellOf(u)' = CellOf(u)
      /\ UNCHANGED <<updates, requests, geo, results, location, told, skipped>>
  BY CellsKept DEF cellVars
<1>2. faults \in Nat /\ faults' \in Nat /\ faults' >= faults /\ MaxAttempts \in Nat
  BY AttemptsAssumption DEF Fault, CellInv, TypeOK, ShadowTypeOK
<1>3. TypeOK'
  BY <1>1 DEF CellInv, TypeOK
<1>4. RequestsHaveCells' /\ ToldFirst'
  BY <1>1 DEF CellInv, RequestsHaveCells, ToldFirst
<1>5. AttemptsAreFaults'
  <2>1. ASSUME NEW u \in 1..MaxUpdates, requests[u].phase = "queued"
        PROVE  requests[u].attempts <= faults' \/ geo[CellOf(u)] = "failed"
    <3>1. requests[u].attempts \in Int
      BY DEF CellInv, TypeOK, Phase
    <3> QED
      BY <1>2, <2>1, <3>1 DEF CellInv, AttemptsAreFaults
  <2>2. ASSUME NEW c \in Cell, results[c].phase # "none",
               SourceOf[c] \in LocationSource
        PROVE  results[c].attempts <= faults'
    <3>1. results[c].attempts \in Int
      BY DEF CellInv, TypeOK, Phase
    <3> QED
      BY <1>2, <2>2, <3>1 DEF CellInv, AttemptsAreFaults
  <2> QED
    BY <1>1, <2>1, <2>2 DEF AttemptsAreFaults
<1>6. CellsAreInHand'
  BY <1>1, <1>2 DEF CellInv, CellsAreInHand
<1> QED
  BY <1>3, <1>4, <1>5, <1>6 DEF CellInv

\* An invocation of resolveCellLocation: whatever it meets, the cell stays in
\* hand.
LEMMA RequestStep ==
    ASSUME CellInv, ShadowTypeOK', NEW u \in 1..MaxUpdates,
           Skip(u) \/ Resolve(u) \/ RequestFails(u)
    PROVE  CellInv'
<1> DEFINE cell == CellOf(u)
           Result(i) == i = NotUnderWay \/ (i = Again(requests[u]) /\
                            (geo[cell] = "failed" \/ faults' = faults + 1))
<1>1. /\ UNCHANGED <<shadowVars, results, location>> /\ requests[u].phase = "queued"
      /\ \A v : CellOf(v)' = CellOf(v)
  BY CellsKept DEF Skip, Resolve, RequestFails, shadowVars
<1>2. /\ u \in 1..Len(updates) /\ cell \in Cell
      /\ requests[u] \in Phase({"none", "queued"})
  BY <1>1, CellOfType DEF CellInv, TypeOK, ShadowTypeOK, RequestsHaveCells
<1>3. /\ \E i : Result(i) /\ requests' = [requests EXCEPT ![u] = i]
      /\ geo' = geo \/ (geo[cell] = "unknown" /\ geo' = [geo EXCEPT ![cell] = "running"])
      /\ told \subseteq told' /\ skipped \subseteq skipped'
      /\ told' \subseteq Cell /\ skipped' \subseteq Cell
      /\ faults' \in {faults, faults + 1}
  <2>1. CASE Skip(u)
    BY <1>2, <2>1 DEF Skip, Done, CellInv, TypeOK
  <2>2. CASE Resolve(u)
    BY <1>2, <2>2 DEF Resolve, Done, CellInv, TypeOK
  <2>3. CASE RequestFails(u)
    BY <1>2, <2>3 DEF RequestFails, Fault, CellInv, TypeOK
  <2> QED
    BY <2>1, <2>2, <2>3
<1>4. PICK i : Result(i) /\ requests' = [requests EXCEPT ![u] = i]
  BY <1>3
<1>5. /\ requests'[u] = i
      /\ \A v \in 1..MaxUpdates : v # u => requests'[v] = requests[v]
  BY <1>4 DEF CellInv, TypeOK
<1>6. /\ geo' \in [Cell -> {"unknown", "running", "known", "failed"}]
      /\ \A c \in Cell : geo[c] # "unknown" => geo'[c] = geo[c]
  BY <1>2, <1>3 DEF CellInv, TypeOK
<1>7. faults \in Nat /\ faults' \in Nat /\ faults' >= faults /\ MaxAttempts \in Nat
  BY <1>3, AttemptsAssumption DEF CellInv, TypeOK, ShadowTypeOK
<1>8. TypeOK'
  <2>1. i \in Phase({"none", "queued"})
    BY <1>2, <1>4, PhaseFacts
  <2>2. requests' \in [1..MaxUpdates -> Phase({"none", "queued"})]
    BY <1>4, <2>1 DEF CellInv, TypeOK
  <2> QED
    BY <1>1, <1>3, <1>6, <2>2 DEF CellInv, TypeOK
<1>9. RequestsHaveCells'
  BY <1>1, <1>2, <1>5 DEF CellInv, RequestsHaveCells, shadowVars
<1>10. AttemptsAreFaults'
  <2>1. ASSUME NEW v \in 1..MaxUpdates, requests'[v].phase = "queued"
        PROVE  requests'[v].attempts <= faults' \/ geo'[CellOf(v)] = "failed"
    <3>1. CASE v = u
      <4>1. i = Again(requests[u]) /\ (geo[cell] = "failed" \/ faults' = faults + 1)
        BY <1>4, <1>5, <2>1, <3>1 DEF NotUnderWay
      <4>2. i.attempts = requests[u].attempts + 1
        BY <1>5, <2>1, <3>1, <4>1, PhaseFacts
      <4>3. requests[u].attempts \in Int
        BY <1>2 DEF Phase
      <4>4. requests[u].attempts <= faults \/ geo[cell] = "failed"
        BY <1>1 DEF CellInv, AttemptsAreFaults
      <4>5. geo[cell] = "failed" => geo'[cell] = "failed"
        BY <1>2, <1>6
      <4> QED
        BY <1>5, <1>7, <3>1, <4>1, <4>2, <4>3, <4>4, <4>5
    <3>2. CASE v # u
      <4>1. /\ requests'[v] = requests[v] /\ requests[v].attempts \in Int
            /\ v \in 1..Len(updates) /\ CellOf(v) # NoCell
        BY <1>5, <2>1, <3>2 DEF CellInv, TypeOK, Phase, RequestsHaveCells
      <4>2. CellOf(v) \in Cell
        BY <4>1, CellOfType DEF CellInv, TypeOK, ShadowTypeOK
      <4>3. requests[v].attempts <= faults \/ geo[CellOf(v)] = "failed"
        BY <2>1, <4>1 DEF CellInv, AttemptsAreFaults
      <4> QED
        BY <1>6, <1>7, <4>1, <4>2, <4>3
    <3> QED
      BY <3>1, <3>2
  <2>2. ASSUME NEW c \in Cell, results[c].phase # "none",
               SourceOf[c] \in LocationSource
        PROVE  results[c].attempts <= faults'
    <3>1. results[c].attempts \in Int
      BY DEF CellInv, TypeOK, Phase
    <3> QED
      BY <1>7, <2>2, <3>1 DEF CellInv, AttemptsAreFaults
  <2> QED
    BY <1>1, <2>1, <2>2 DEF AttemptsAreFaults
<1>11. ToldFirst'
  BY <1>1, <1>3 DEF CellInv, ToldFirst
<1>12. CellsAreInHand'
  <2> SUFFICES ASSUME NEW v \in 1..Len(updates)
               PROVE  \/ CellOf(v) \in told' \cup skipped' \cup {NoCell}
                      \/ SourceOf[CellOf(v)] \notin LocationSource
                      \/ requests'[v].phase = "queued"
                      \/ geo'[CellOf(v)] \in {"running", "failed"}
                      \/ results[CellOf(v)].phase = "queued"
                      \/ faults' >= MaxAttempts
    BY <1>1 DEF CellsAreInHand, shadowVars
  <2>0. CellOf(v) \in Cell \cup {NoCell} /\ v \in 1..MaxUpdates
    BY CellOfType, LenProperties, BoundsAssumption DEF CellInv, TypeOK, ShadowTypeOK
  <2>1. CASE v # u
    BY <1>3, <1>5, <1>6, <1>7, <2>0, <2>1 DEF CellInv, CellsAreInHand
  <2>2. CASE v = u
    <3>1. CASE Skip(u)
      BY <2>2, <3>1 DEF Skip
    <3>2. CASE Resolve(u)
      <4>1. geo[cell] = "known" => cell \in told'
        BY <3>2 DEF Resolve
      <4>2. geo[cell] = "unknown" => geo'[cell] = "running"
        BY <1>2, <3>2 DEF Resolve, CellInv, TypeOK
      <4> QED
        BY <1>2, <1>6, <2>2, <4>1, <4>2 DEF CellInv, TypeOK
    <3>3. CASE RequestFails(u)
      <4>1. requests'[u] = Again(requests[u]) /\ faults' = faults + 1
        BY <3>3 DEF RequestFails, Fault, CellInv, TypeOK
      <4>2. requests'[u].phase = "queued" \/ requests[u].attempts + 1 = MaxAttempts
        BY <4>1, PhaseFacts
      <4>3. requests[u].attempts <= faults \/ geo[cell] = "failed"
        BY <1>1 DEF CellInv, AttemptsAreFaults
      <4>4. requests[u].attempts \in Int
        BY <1>2 DEF Phase
      <4> QED
        BY <1>2, <1>6, <1>7, <2>2, <4>1, <4>2, <4>3, <4>4
    <3> QED
      BY <3>1, <3>2, <3>3
  <2> QED
    BY <2>1, <2>2
<1> QED
  BY <1>8, <1>9, <1>10, <1>11, <1>12 DEF CellInv

\* An execution that ends, and the steps of onCellGeoLocationResolved: the cell
\* passes from the execution to its success event, and is told by this unless
\* its result is not valid or all attempts fail.
LEMMA ResultStep ==
    ASSUME CellInv, ShadowTypeOK', NEW c \in Cell,
           \/ Succeed(c) \/ GiveUp(c)
           \/ TellCell(c) \/ UpdateThings(c) \/ ResultFails(c)
    PROVE  CellInv'
<1> DEFINE Answer == {"none", "queued", "told"}
           Result(i) ==
               \/ i = results[c] /\ geo[c] = "running" /\ geo'[c] = "failed"
               \/ i = Queued /\ geo[c] = "running"
               \/ i = [results[c] EXCEPT !.phase = "told"] /\ c \in told'
                     /\ results[c].phase = "queued"
               \/ i = NotUnderWay /\ results[c].phase = "told"
               \/ i = Again(results[c]) /\ results[c].phase # "none"
                     /\ (faults' = faults + 1 \/ SourceOf[c] \notin LocationSource)
<1>1. /\ UNCHANGED <<shadowVars, requests, skipped>>
      /\ \A v : CellOf(v)' = CellOf(v)
  BY CellsKept DEF Succeed, GiveUp, TellCell, UpdateThings, ResultFails, shadowVars
<1>2. /\ \E i : Result(i) /\ results' = [results EXCEPT ![c] = i]
      /\ \/ geo' = geo
         \/ /\ geo[c] = "running"
            /\ \/ geo' = [geo EXCEPT ![c] = "failed"]
               \/ geo' = [geo EXCEPT ![c] = "known"] /\ results'[c] = Queued
      /\ told \subseteq told' /\ told' \subseteq Cell
      /\ location' \in Cell \cup {NoCell}
      /\ faults' \in {faults, faults + 1}
  <2>1. CASE Succeed(c)
    BY <2>1 DEF Succeed, CellInv, TypeOK
  <2>2. CASE GiveUp(c)
    BY <2>2 DEF GiveUp, CellInv, TypeOK
  <2>3. CASE TellCell(c)
    BY <2>3 DEF TellCell, CellInv, TypeOK
  <2>4. CASE UpdateThings(c)
    BY <2>4 DEF UpdateThings, CellInv, TypeOK
  <2>5. CASE ResultFails(c)
    BY <2>5 DEF ResultFails, Fault, CellInv, TypeOK
  <2> QED
    BY <2>1, <2>2, <2>3, <2>4, <2>5
<1>3. PICK i : Result(i) /\ results' = [results EXCEPT ![c] = i]
  BY <1>2
<1>4. /\ results'[c] = i
      /\ \A d \in Cell : d # c => results'[d] = results[d]
  BY <1>3 DEF CellInv, TypeOK
<1>5. /\ geo' \in [Cell -> {"unknown", "running", "known", "failed"}]
      /\ \A d \in Cell : geo[d] = "failed" => geo'[d] = "failed"
      /\ \A d \in Cell : geo[d] = "running" =>
            geo'[d] \in {"running", "failed"} \/ results'[d].phase = "queued"
  BY <1>2 DEF CellInv, TypeOK, Queued
<1>6. faults \in Nat /\ faults' \in Nat /\ faults' >= faults /\ MaxAttempts \in Nat
  BY <1>2, AttemptsAssumption DEF CellInv, TypeOK, ShadowTypeOK
<1>7. results[c] \in Phase(Answer)
  BY DEF CellInv, TypeOK
<1>8. TypeOK'
  <2>1. i \in Phase(Answer)
    <3>1. [results[c] EXCEPT !.phase = "told"] \in Phase(Answer)
      BY <1>7 DEF Phase
    <3> QED
      BY <1>3, <1>7, <3>1, PhaseFacts
  <2>2. results' \in [Cell -> Phase(Answer)]
    BY <1>3, <2>1 DEF CellInv, TypeOK
  <2> QED
    BY <1>1, <1>2, <1>5, <2>2 DEF CellInv, TypeOK
<1>9. RequestsHaveCells'
  BY <1>1 DEF CellInv, RequestsHaveCells, shadowVars
<1>10. AttemptsAreFaults'
  <2>1. ASSUME NEW v \in 1..MaxUpdates, requests[v].phase = "queued"
        PROVE  requests[v].attempts <= faults' \/ geo'[CellOf(v)] = "failed"
    <3>1. /\ requests[v].attempts \in Int
          /\ v \in 1..Len(updates) /\ CellOf(v) # NoCell
      BY <2>1 DEF CellInv, TypeOK, Phase, RequestsHaveCells
    <3>2. CellOf(v) \in Cell
      BY <3>1, CellOfType DEF CellInv, TypeOK, ShadowTypeOK
    <3>3. requests[v].attempts <= faults \/ geo[CellOf(v)] = "failed"
      BY <2>1 DEF CellInv, AttemptsAreFaults
    <3> QED
      BY <1>5, <1>6, <3>1, <3>2, <3>3
  <2>2. ASSUME NEW d \in Cell, results'[d].phase # "none",
               SourceOf[d] \in LocationSource
        PROVE  results'[d].attempts <= faults'
    <3>1. results[d].attempts \in Int
      BY DEF CellInv, TypeOK, Phase
    <3>2. results[d].phase # "none" => results[d].attempts <= faults
      BY <2>2 DEF CellInv, AttemptsAreFaults
    <3>3. CASE results'[d] = results[d]
      BY <1>6, <2>2, <3>1, <3>2, <3>3
    <3>4. CASE d = c /\ i = Queued
      BY <1>4, <1>6, <3>4 DEF Queued
    <3>5. CASE d = c /\ i = [results[c] EXCEPT !.phase = "told"]
                    /\ results[c].phase = "queued"
      <4>1. i.attempts = results[c].attempts
        BY <1>7, <3>5 DEF Phase
      <4>2. results[c].attempts <= faults /\ results[c].attempts \in Int
        BY <3>1, <3>2, <3>5
      <4>3. results'[d].attempts = results[c].attempts
        BY <1>4, <3>5, <4>1
      <4> QED
        BY <1>6, <4>2, <4>3
    <3>6. CASE d = c /\ i = Again(results[c]) /\ faults' = faults + 1
                    /\ results[c].phase # "none"
      <4>1. i.attempts = results[c].attempts + 1
        BY <1>4, <2>2, <3>6, PhaseFacts
      <4> QED
        BY <1>4, <1>6, <3>1, <3>2, <3>6, <4>1
    <3>7. i # NotUnderWay \/ d # c
      BY <1>4, <2>2 DEF NotUnderWay
    <3> QED
      BY <1>3, <1>4, <2>2, <3>3, <3>4, <3>5, <3>6, <3>7
  <2> QED
    BY <1>1, <2>1, <2>2 DEF AttemptsAreFaults
<1>11. ToldFirst'
  <2> SUFFICES ASSUME NEW d \in Cell, results'[d].phase = "told"
               PROVE  d \in told'
    BY DEF ToldFirst
  <2>1. CASE results'[d] = results[d]
    BY <1>2, <2>1 DEF CellInv, ToldFirst
  <2>2. CASE d = c /\ results'[c] # results[c]
    BY <1>3, <1>4, <2>2, PhaseFacts DEF Queued, NotUnderWay
  <2> QED
    BY <1>4, <2>1, <2>2
<1>12. CellsAreInHand'
  <2> SUFFICES ASSUME NEW v \in 1..Len(updates)
               PROVE  \/ CellOf(v) \in told' \cup skipped \cup {NoCell}
                      \/ SourceOf[CellOf(v)] \notin LocationSource
                      \/ requests[v].phase = "queued"
                      \/ geo'[CellOf(v)] \in {"running", "failed"}
                      \/ results'[CellOf(v)].phase = "queued"
                      \/ faults' >= MaxAttempts
    BY <1>1 DEF CellsAreInHand, shadowVars
  <2>1. CellOf(v) \in Cell \cup {NoCell}
    BY CellOfType DEF CellInv, TypeOK, ShadowTypeOK
  <2>2. CASE /\ results[CellOf(v)].phase = "queued" /\ CellOf(v) = c
             /\ results'[c].phase # "queued"
    <3>1. CASE /\ i = Again(results[c]) /\ faults' = faults + 1
               /\ SourceOf[c] \in LocationSource
      <4>1. results[c].attempts + 1 = MaxAttempts
        BY <1>4, <2>2, <3>1, PhaseFacts
      <4>2. results[c].attempts <= faults /\ results[c].attempts \in Int
        BY <1>7, <2>2, <3>1 DEF CellInv, AttemptsAreFaults, Phase
      <4> QED
        BY <1>6, <3>1, <4>1, <4>2
    <3>2. CASE c \in told'
      BY <2>2, <3>2
    <3>3. i # Queued /\ i # results[c]
      BY <1>4, <2>2 DEF Queued
    <3>4. CASE SourceOf[c] \notin LocationSource
      BY <2>2, <3>4
    <3> QED
      BY <1>3, <2>2, <3>1, <3>2, <3>3, <3>4
  <2>3. CASE ~ /\ results[CellOf(v)].phase = "queued" /\ CellOf(v) = c
               /\ results'[c].phase # "queued"
    <3>1. results[CellOf(v)].phase = "queued" /\ CellOf(v) \in Cell =>
              results'[CellOf(v)].phase = "queued"
      BY <1>4, <2>3
    <3> QED
      BY <1>2, <1>5, <1>6, <2>1, <3>1 DEF CellInv, CellsAreInHand
  <2> QED
    BY <2>2, <2>3
<1> QED
  BY <1>8, <1>9, <1>10, <1>11, <1>12 DEF CellInv

LEMMA CellInvStep ==
    ASSUME CellInv, ShadowTypeOK', [Next]_vars
    PROVE  CellInv'
<1>1. ASSUME NEW content \in Content, UpdateDevice(content)
      PROVE  CellInv'
  BY <1>1, UpdateDeviceStep
<1>2. CASE ShadowNext /\ UNCHANGED cellVars
  <2>1. UNCHANGED updates
    BY <1>2 DEF ShadowNext, Convert, Redeliver, UpdateLwM2M, LoseUpdate, Index, Publish
  <2> QED
    BY <1>2, <2>1, NextIsShadowStep, ShadowAloneStep
<1>3. ASSUME NEW u \in 1..MaxUpdates, Skip(u) \/ Resolve(u) \/ RequestFails(u)
      PROVE  CellInv'
  BY <1>3, RequestStep
<1>4. ASSUME NEW c \in Cell, Succeed(c) \/ GiveUp(c)
      PROVE  CellInv'
  BY <1>4, ResultStep
<1>5. ASSUME NEW c \in Cell, TellCell(c) \/ UpdateThings(c) \/ ResultFails(c)
      PROVE  CellInv'
  BY <1>5, ResultStep
<1>6. CASE UNCHANGED vars
  BY <1>6, ShadowAloneStep DEF vars, shadowVars
<1> QED
  BY <1>1, <1>2, <1>3, <1>4, <1>5, <1>6 DEF Next

-----------------------------------------------------------------------------
(* Theorems.                                                               *)

LEMMA InitialState ==
    ASSUME Init
    PROVE  ShadowInv /\ CellInv
<1> USE DEF Init, ShadowInit
<1>1. updates \in Seq(Content) /\ Len(updates) = 0
  BY EmptySeq
<1>2. 0 \in 0..MaxFaults
  BY BoundsAssumption
<1>3. ShadowTypeOK
  BY <1>1, <1>2, EmptyIsShadow, BoundsAssumption DEF ShadowTypeOK
<1>4. ObjectsAreOfOneReport
  BY EmptyIsShadow, OneReportOfAll
<1>5. OverlapIsKnown /\ HandledIsShown
  BY <1>1 DEF OverlapIsKnown, HandledIsShown, UnderWay
<1>6. TypeOK
  <2>1. /\ NotUnderWay \in Phase({"none", "queued"})
        /\ NotUnderWay \in Phase({"none", "queued", "told"})
    BY PhaseFacts
  <2> QED
    BY <1>3, <2>1 DEF TypeOK
<1>7. RequestsHaveCells /\ AttemptsAreFaults /\ ToldFirst
  BY DEF RequestsHaveCells, AttemptsAreFaults, ToldFirst, NotUnderWay
<1>8. CellsAreInHand
  BY <1>1 DEF CellsAreInHand
<1> QED
  BY <1>3, <1>4, <1>5, <1>6, <1>7, <1>8 DEF ShadowInv, CellInv

\* The inductive invariant: of the shadow, and of the cells.
THEOREM Invariance == Spec => [](ShadowInv /\ CellInv)
<1>1. Init => ShadowInv /\ CellInv
  BY InitialState
<1>2. ShadowInv /\ CellInv /\ [Next]_vars => (ShadowInv /\ CellInv)'
  <2> SUFFICES ASSUME ShadowInv, CellInv, [Next]_vars
               PROVE  (ShadowInv /\ CellInv)'
    OBVIOUS
  <2>1. ShadowStep /\ (faults' = faults \/ Fault)
    BY NextIsShadowStep
  <2>2. ShadowInv'
    BY <2>1, ShadowTypeStep, OverlapStep, HandledStep DEF ShadowInv
  <2>3. CellInv'
    BY <2>2, CellInvStep DEF ShadowInv
  <2> QED
    BY <2>2, <2>3
<1> QED
  BY <1>1, <1>2, PTL DEF Spec

\* Every variable keeps its type; in particular attempts stay below their bound.
THEOREM CellTypes == Spec => []TypeOK
<1>1. CellInv => TypeOK
  BY DEF CellInv
<1> QED
  BY <1>1, Invariance, PTL

\* Resources of two reports are never mixed: not in the shadow, and neither in
\* the index nor in the file that are taken from it.
THEOREM ReportsAreNotMixed == Spec => []ObjectsAreOfOneReport
<1>1. ShadowInv => ObjectsAreOfOneReport
  BY DEF ShadowInv
<1> QED
  BY <1>1, Invariance, PTL

\* The shadow comes to rest on the latest reports, but for those that were lost
\* or overlapped a later one.
THEOREM RestsOnLatest == Spec => []RestIsLatest
<1>1. ShadowInv => RestIsLatest
  BY DEF ShadowInv, HandledIsShown, RestIsLatest
<1> QED
  BY <1>1, Invariance, PTL

\* No cell is forgotten: where nothing is under way any more, clients were told
\* of every cell that can be located and whose result is valid, or nobody
\* listened, or all attempts of an event have failed.
THEOREM NoCellIsForgotten == Spec => []CellsAreTold
<1>1. ShadowInv /\ CellInv => CellsAreTold
  <2> SUFFICES ASSUME ShadowInv, CellInv,
                      Settled, NEW u \in 1..Len(updates)
               PROVE  \/ CellOf(u) \in told \cup skipped \cup {NoCell}
                      \/ SourceOf[CellOf(u)] \notin LocationSource
                      \/ geo[CellOf(u)] = "failed" \/ faults >= MaxAttempts
    BY DEF CellsAreTold
  <2>1. CellOf(u) \in Cell \cup {NoCell} /\ u \in 1..MaxUpdates
    BY CellOfType, LenProperties, BoundsAssumption DEF ShadowInv, ShadowTypeOK
  <2> QED
    BY <2>1 DEF CellInv, CellsAreInHand, Settled
<1> QED
  BY <1>1, Invariance, PTL

=============================================================================
