------------------------ MODULE NetworkSurveysProofs ------------------------
(***************************************************************************)
(* Proofs about NetworkSurveys: for any surveys and devices, any age of    *)
(* the list of clients, and any number of attempts and faults.             *)
(***************************************************************************)
EXTENDS NetworkSurveys, SequenceTheorems, TLAPS

\* A list of clients that is still used is younger than CacheFor; if it says
\* that nobody listens, nobody has been listening for longer than it is old and
\* its scan may have taken, and so it is with the answer of a scan.
CacheIsYoung ==
    /\ cache # "unknown" => age < CacheFor
    /\ cache = "none" => heard <= age + Timeout
    /\ scan # "no" => cache = "unknown"
    /\ scan = "none" => heard <= wait
    /\ ~listening => heard = 0

\* A survey is found once, when its execution succeeds, and stays so.
FoundOnce ==
    /\ \A i \in DOMAIN found : row[found[i]] = "located"
    /\ \A i, j \in DOMAIN found : i < j => found[i] # found[j]

\* Events, and what clients are told, are of located surveys.
EventsOfLocated ==
    \A s \in Survey : row[s] # "located" => located[s] = "none" /\ told[s] = 0

\* While an event is handled clients were told at most once per failure; it
\* tells them once more, and the shadow is updated after that.
ToldPerFault ==
    \A s \in Survey :
        /\ tries[s] <= faults
        /\ told[s] <= faults + IF located[s] \in {"queued", "read"} THEN 0 ELSE 1
        /\ located[s] = "told" => told[s] >= 1

\* A located survey is in the hands of its event until it is told and shown.
LocatedInHand ==
    \A s \in Survey : row[s] = "located" =>
        \/ located[s] # "none"
        \/ s \in shown /\ told[s] >= 1
        \/ faults >= MaxAttempts

\* An event that is being handled overlaps those that were found later.
OverlapIsKnown ==
    \A i, j \in DOMAIN found :
        (i < j /\ DeviceOf[found[i]] = DeviceOf[found[j]] /\ located[found[i]] # "none")
        => <<found[i], found[j]>> \in overlap

\* The shadow of a device has the location of one of its surveys.
ShadowOfDevice == \A d \in Device : shadow[d] # None => DeviceOf[shadow[d]] = d

SurveyInv ==
    /\ FoundOnce /\ EventsOfLocated
    /\ ToldPerFault /\ LocatedInHand
    /\ OverlapIsKnown /\ ShadowOfDevice

Inv == TypeOK /\ CacheIsYoung /\ SurveyInv

-----------------------------------------------------------------------------
(* Types.                                                                  *)

LEMMA Bounds ==
    /\ CacheFor \in Nat /\ CacheFor # 0 /\ Timeout \in Nat
    /\ MaxAttempts \in Nat /\ MaxAttempts # 0
    /\ MaxFaults \in Nat
BY BoundsAssumption

Record == Survey \X State

\* What is left of the stream when a record was handled or has failed is a
\* stream, to which a change can be appended.
LEMMA StreamTypes ==
    ASSUME TypeOK
    PROVE  /\ \A s \in Survey, state \in State, records \in Seq(Record) :
                 Append(records, <<s, state>>) \in Seq(Record)
           /\ stream # <<>> => /\ Head(stream) \in Record
                               /\ Handled \in Seq(Record) /\ Kept \in Seq(Record)
<1>1. stream \in Seq(Record)
  BY DEF TypeOK, Record
<1>2. ASSUME NEW s \in Survey, NEW state \in State, NEW records \in Seq(Record)
      PROVE  Append(records, <<s, state>>) \in Seq(Record)
  BY <1>2, AppendProperties DEF Record
<1>3. ASSUME stream # <<>>
      PROVE  Head(stream) \in Record /\ Tail(stream) \in Seq(Record)
  BY <1>1, <1>3, HeadTailProperties
<1> QED
  BY <1>1, <1>2, <1>3 DEF Handled, Kept

LEMMA NextAttempt ==
    ASSUME attempts \in 0..(MaxAttempts - 1)
    PROVE  (attempts + 1) % MaxAttempts \in 0..(MaxAttempts - 1)
BY Bounds

LEMMA PutTypes ==
    ASSUME TypeOK, NEW s \in Survey, NEW state \in State, NEW records \in Seq(Record),
           Put(s, state, records)
    PROVE  row' \in [Survey -> State] /\ stream' \in Seq(Record)
BY StreamTypes DEF Put, TypeOK

\* What the lambda does with a record, as far as the table and the stream are
\* concerned.
LEMMA ResolveTypes ==
    ASSUME TypeOK, stream # <<>>, NEW s \in Survey,
           \/ Resolve(s) \/ Notify
           \/ stream' = Handled /\ attempts' = 0 /\ UNCHANGED row
           \/ Retry /\ UNCHANGED row
           \/ Start(s, Kept) /\ attempts' = (attempts + 1) % MaxAttempts
    PROVE  /\ row' \in [Survey -> State] /\ stream' \in Seq(Record)
           /\ attempts' \in 0..(MaxAttempts - 1)
<1>1. 0 \in 0..(MaxAttempts - 1) /\ (attempts + 1) % MaxAttempts \in 0..(MaxAttempts - 1)
  BY Bounds, NextAttempt DEF TypeOK
<1>2. Handled \in Seq(Record) /\ Kept \in Seq(Record)
  BY StreamTypes
<1>3. "inProgress" \in State
  BY DEF State
<1>4. CASE Retry /\ UNCHANGED row
  BY <1>1, <1>2, <1>4 DEF Retry, TypeOK
<1>5. CASE stream' = Handled /\ attempts' = 0 /\ UNCHANGED row
  BY <1>1, <1>2, <1>5 DEF TypeOK
<1>6. CASE Start(s, Handled) /\ attempts' = 0
  BY <1>1, <1>2, <1>3, <1>6, PutTypes DEF Start
<1>7. CASE Start(s, Kept) /\ attempts' = (attempts + 1) % MaxAttempts
  BY <1>1, <1>2, <1>3, <1>7, PutTypes DEF Start
<1>8. Resolve(s) => \/ Start(s, Handled) /\ attempts' = 0
                    \/ stream' = Handled /\ attempts' = 0 /\ UNCHANGED row
                    \/ Notify
                    \/ Retry /\ UNCHANGED row
  BY DEF Resolve, Notify
<1> QED
  BY <1>4, <1>5, <1>6, <1>7, <1>8 DEF Notify

\* A record that is handled, or that fails: what changes of clients and history.
LEMMA RecordEffects ==
    ASSUME HandleRecord \/ RecordFails
    PROVE  /\ stream # <<>>
           /\ \/ GetActive
              \/ cache' = "unknown" /\ age' = 0 /\ scan' = "no" /\ wait' = 0
           /\ UNCHANGED <<listening, heard, eventVars, told, found, overlap, shown>>
           /\ faults' = faults \/ Fault
           /\ dropped' = dropped \/ (dropped' = dropped \cup {Head(stream)[1]} /\
                                     Believed = "none" /\ GetActive)
           /\ LET s == Head(stream)[1]
              IN \/ Resolve(s) \/ Notify
                 \/ stream' = Handled /\ attempts' = 0 /\ UNCHANGED row
                 \/ Retry /\ UNCHANGED row
                 \/ row[s] = "new" /\ Start(s, Kept) /\ attempts' = (attempts + 1) % MaxAttempts
<1>1. CASE HandleRecord
  <2> DEFINE s == Head(stream)[1]
             image == Head(stream)[2]
  <2>1. /\ stream # <<>> /\ GetActive
        /\ UNCHANGED <<listening, heard, eventVars, told, found, overlap, shown, faults>>
    BY <1>1 DEF HandleRecord
  <2>2. \/ /\ Believed = "none" \/ image = "inProgress"
           /\ stream' = Handled /\ attempts' = 0
           /\ dropped' = IF image = "new" THEN dropped \cup {s} ELSE dropped
           /\ UNCHANGED row
        \/ Notify /\ UNCHANGED dropped
        \/ Resolve(s) /\ UNCHANGED dropped
    BY <1>1 DEF HandleRecord
  <2> QED
    BY <2>1, <2>2
<1>2. CASE RecordFails
  BY <1>2 DEF RecordFails, historyVars
<1> QED
  BY <1>1, <1>2

LEMMA TypeStep ==
    ASSUME TypeOK, CacheIsYoung, [Next]_vars
    PROVE  TypeOK'
<1> USE DEF TypeOK, cacheVars
<1>1. stream \in Seq(Record)
  BY DEF Record
<1>2. State = {"absent", "new", "inProgress", "located", "unresolved"}
  BY DEF State
<1>3. Fault => faults' \in 0..MaxFaults
  BY Bounds DEF Fault
<1>4. ASSUME NEW s \in Survey, Store(s)
      PROVE  TypeOK'
  <2>1. row' \in [Survey -> State] /\ stream' \in Seq(Record)
    BY <1>1, <1>2, <1>4, PutTypes DEF Store
  <2> QED
    BY <1>4, <2>1 DEF Store, clientVars, eventVars, historyVars, Record
<1>5. ASSUME NEW s \in Survey, Succeed(s)
      PROVE  TypeOK'
  <2>1. row' \in [Survey -> State] /\ stream' \in Seq(Record)
    BY <1>1, <1>2, <1>5, PutTypes DEF Succeed
  <2>2. found' \in Seq(Survey) /\ located' \in [Survey -> {"none", "queued", "read", "told"}]
    BY <1>5, AppendProperties DEF Succeed
  <2>3. overlap' \subseteq Survey \X Survey
    <3>1. Earlier(s) \subseteq Survey
      BY ElementOfSeq, LenProperties DEF Earlier
    <3> QED
      BY <1>5, <3>1 DEF Succeed
  <2> QED
    BY <1>5, <2>1, <2>2, <2>3 DEF Succeed, clientVars, Record
<1>6. ASSUME NEW s \in Survey, GiveUp(s)
      PROVE  TypeOK'
  <2>1. row' \in [Survey -> State] /\ stream' \in Seq(Record)
    BY <1>1, <1>2, <1>6, PutTypes DEF GiveUp
  <2> QED
    BY <1>6, <2>1 DEF GiveUp, clientVars, eventVars, historyVars, Record
<1>7. CASE Listen
  <2>1. listening' \in BOOLEAN /\ heard' \in 0..(CacheFor + Timeout)
    BY <1>7, Bounds DEF Listen
  <2> QED
    BY <1>7, <2>1 DEF Listen, streamVars, eventVars, historyVars
<1>8. CASE Tick
  <2>1. heard' \in 0..(CacheFor + Timeout) /\ wait' \in 0..Timeout
    BY <1>8, Bounds DEF Tick, Passes
  <2>2. cache' \in {"unknown", "some", "none"} /\ age' \in 0..CacheFor
    <3>1. CASE cache = "unknown" \/ age + 1 = CacheFor
      BY <1>8, <3>1, Bounds DEF Tick
    <3>2. CASE ~(cache = "unknown" \/ age + 1 = CacheFor)
      <4>1. age + 1 \in 0..CacheFor
        BY <3>2, Bounds DEF CacheIsYoung
      <4> QED
        BY <1>8, <3>2, <4>1 DEF Tick
    <3> QED
      BY <3>1, <3>2
  <2> QED
    BY <1>8, <2>1, <2>2 DEF Tick, streamVars, eventVars, historyVars
<1>9. CASE HandleRecord \/ RecordFails
  <2>1. Head(stream)[1] \in Survey
    BY <1>9, RecordEffects, StreamTypes DEF Record
  <2>2. /\ row' \in [Survey -> State] /\ stream' \in Seq(Record)
        /\ attempts' \in 0..(MaxAttempts - 1)
    BY <1>9, <2>1, RecordEffects, ResolveTypes
  <2>3. /\ cache' \in {"unknown", "some", "none"} /\ age' \in 0..CacheFor
        /\ scan' \in {"no", "some", "none"} /\ wait' \in 0..Timeout
    BY <1>9, RecordEffects, Bounds DEF GetActive, Believed
  <2>4. dropped' \subseteq Survey /\ faults' \in 0..MaxFaults
    BY <1>3, <1>9, <2>1, RecordEffects
  <2> QED
    BY <1>9, <2>2, <2>3, <2>4, RecordEffects DEF eventVars, Record
<1>10. ASSUME NEW s \in Survey, ReadSurvey(s)
       PROVE  TypeOK'
  BY <1>10 DEF ReadSurvey, streamVars, clientVars, historyVars
<1>11. ASSUME NEW s \in Survey, Tell(s)
       PROVE  TypeOK'
  BY <1>11 DEF Tell, streamVars, clientVars
<1>12. ASSUME NEW s \in Survey, UpdateShadow(s)
       PROVE  TypeOK'
  <2>1. shadow' \in [Device -> Survey \cup {None}]
    BY <1>12, DeviceAssumption DEF UpdateShadow
  <2>2. tries' \in [Survey -> 0..(MaxAttempts - 1)]
    BY <1>12, Bounds DEF UpdateShadow
  <2>3. located' \in [Survey -> {"none", "queued", "read", "told"}] /\ shown' \subseteq Survey
    BY <1>12 DEF UpdateShadow
  <2> QED
    BY <1>12, <2>1, <2>2, <2>3 DEF UpdateShadow, streamVars, clientVars
<1>13. ASSUME NEW s \in Survey, EventFails(s)
       PROVE  TypeOK'
  <2>1. /\ tries' \in [Survey -> 0..(MaxAttempts - 1)]
        /\ located' \in [Survey -> {"none", "queued", "read", "told"}]
    <3>1. CASE tries[s] + 1 = MaxAttempts
      <4>1. 0 \in 0..(MaxAttempts - 1)
        BY Bounds
      <4> QED
        BY <1>13, <3>1, <4>1 DEF EventFails
    <3>2. CASE tries[s] + 1 # MaxAttempts
      <4>1. tries[s] + 1 \in 0..(MaxAttempts - 1)
        BY <3>2, Bounds
      <4> QED
        BY <1>13, <3>2, <4>1 DEF EventFails
    <3> QED
      BY <3>1, <3>2
  <2> QED
    BY <1>3, <1>13, <2>1 DEF EventFails, streamVars, clientVars, historyVars
<1>14. ASSUME NEW s \in Survey, Redeliver(s)
       PROVE  TypeOK'
  <2>1. Earlier(s) \subseteq Survey
    BY ElementOfSeq, LenProperties DEF Earlier
  <2>2. overlap' \subseteq Survey \X Survey
    BY <1>14, <2>1 DEF Redeliver
  <2> QED
    BY <1>3, <1>14, <2>2 DEF Redeliver, streamVars, clientVars
<1>15. CASE ReadTable
  BY <1>15, Bounds DEF ReadTable, streamVars, eventVars, historyVars
<1>16. CASE UNCHANGED vars
  BY <1>16 DEF vars, streamVars, clientVars, eventVars, historyVars
<1> QED
  BY <1>4, <1>5, <1>6, <1>7, <1>8, <1>9, <1>10, <1>11, <1>12, <1>13, <1>14, <1>15, <1>16
     DEF Next

-----------------------------------------------------------------------------
(* The list of clients.                                                    *)

\* Steps that have to do with neither clients nor time.
LEMMA OtherSteps ==
    ASSUME [Next]_vars
    PROVE  \/ Listen \/ Tick \/ ReadTable \/ HandleRecord \/ RecordFails
           \/ UNCHANGED <<clientVars, dropped>>
<1>1. ASSUME NEW s \in Survey, Store(s) \/ Succeed(s) \/ GiveUp(s)
      PROVE  UNCHANGED <<clientVars, dropped>>
  BY <1>1 DEF Store, Succeed, GiveUp, historyVars
<1>2. ASSUME NEW s \in Survey, ReadSurvey(s) \/ Tell(s) \/ UpdateShadow(s)
      PROVE  UNCHANGED <<clientVars, dropped>>
  BY <1>2 DEF ReadSurvey, Tell, UpdateShadow, historyVars
<1>3. ASSUME NEW s \in Survey, EventFails(s) \/ Redeliver(s)
      PROVE  UNCHANGED <<clientVars, dropped>>
  BY <1>3 DEF EventFails, Redeliver, historyVars
<1>4. CASE UNCHANGED vars
  BY <1>4 DEF vars, historyVars
<1> QED
  BY <1>1, <1>2, <1>3, <1>4 DEF Next

LEMMA CacheStep ==
    ASSUME TypeOK, CacheIsYoung, [Next]_vars
    PROVE  CacheIsYoung'
<1> USE DEF CacheIsYoung
<1>1. /\ heard \in Nat /\ age \in Nat /\ wait \in 0..Timeout
      /\ CacheFor \in Nat /\ CacheFor # 0 /\ Timeout \in Nat
      /\ cache \in {"unknown", "some", "none"} /\ scan \in {"no", "some", "none"}
      /\ listening \in BOOLEAN
  BY Bounds DEF TypeOK
<1>2. CASE Listen
  BY <1>1, <1>2 DEF Listen, cacheVars
<1>3. CASE Tick
  <2>1. /\ UNCHANGED <<listening, scan>>
        /\ heard' = heard \/ (listening /\ heard' = heard + 1)
        /\ scan # "no" => wait' = wait + 1
    BY <1>3 DEF Tick, Passes
  <2>2. CASE cache = "unknown" \/ age + 1 = CacheFor
    <3>1. cache' = "unknown" /\ age' = 0
      BY <1>3, <2>2 DEF Tick
    <3> QED
      BY <1>1, <2>1, <3>1
  <2>3. CASE ~(cache = "unknown" \/ age + 1 = CacheFor)
    <3>1. cache' = cache /\ age' = age + 1
      BY <1>3, <2>3 DEF Tick
    <3> QED
      BY <1>1, <2>1, <2>3, <3>1
  <2> QED
    BY <2>2, <2>3
<1>4. CASE HandleRecord \/ RecordFails
  <2>1. UNCHANGED <<listening, heard>>
    BY <1>4, RecordEffects
  <2>2. CASE GetActive
    <3>1. scan' = "no"
      BY <2>2 DEF GetActive
    <3>2. CASE cache = "unknown"
      <4>1. cache' = scan /\ age' = 0
        BY <2>2, <3>2 DEF GetActive, Believed
      <4> QED
        BY <1>1, <2>1, <3>1, <4>1
    <3>3. CASE cache # "unknown"
      <4>1. cache' = cache /\ age' = age
        BY <2>2, <3>3 DEF GetActive, Believed
      <4> QED
        BY <2>1, <3>1, <4>1
    <3> QED
      BY <3>2, <3>3
  <2>3. CASE cache' = "unknown" /\ age' = 0 /\ scan' = "no" /\ wait' = 0
    BY <2>1, <2>3
  <2> QED
    BY <1>4, <2>2, <2>3, RecordEffects
\* The table is read: nobody listens now, or somebody does.
<1>5. CASE ReadTable
  BY <1>1, <1>5 DEF ReadTable
<1>6. CASE UNCHANGED <<clientVars, dropped>>
  BY <1>6 DEF clientVars, cacheVars
<1> QED
  BY <1>2, <1>3, <1>4, <1>5, <1>6, OtherSteps

\* A survey that is dropped was dropped by a list that is young, or has just
\* come: nobody can have been listening for longer than it is old.
LEMMA DropStep ==
    ASSUME TypeOK, CacheIsYoung, [Next]_vars, dropped' # dropped
    PROVE  heard < CacheFor + Timeout
<1>1. /\ heard \in Nat /\ age \in Nat /\ wait \in 0..Timeout
      /\ CacheFor \in Nat /\ CacheFor # 0 /\ Timeout \in Nat
  BY Bounds DEF TypeOK
<1>2. CASE HandleRecord \/ RecordFails
  <2>1. Believed = "none"
    BY <1>2, RecordEffects
  <2>2. cache = "none" \/ scan = "none"
    BY <2>1 DEF Believed
  <2> QED
    BY <1>1, <2>2 DEF CacheIsYoung
<1>3. ~(Listen \/ Tick \/ ReadTable \/ UNCHANGED <<clientVars, dropped>>)
  BY DEF Listen, Tick, ReadTable, historyVars
<1> QED
  BY <1>2, <1>3, OtherSteps

-----------------------------------------------------------------------------
(* The surveys that are located.                                           *)

SameLocated == \A s \in Survey : row'[s] = "located" <=> row[s] = "located"

LEMMA PutKeepsLocated ==
    ASSUME TypeOK, NEW s \in Survey, NEW state, NEW records, Put(s, state, records),
           row[s] # "located", state # "located"
    PROVE  SameLocated
BY DEF Put, TypeOK, SameLocated

LEMMA RecordKeepsLocated ==
    ASSUME TypeOK, HandleRecord \/ RecordFails
    PROVE  SameLocated
<1> DEFINE s == Head(stream)[1]
<1>1. s \in Survey
  BY RecordEffects, StreamTypes DEF Record
<1>2. \/ Resolve(s) \/ Notify
      \/ stream' = Handled /\ attempts' = 0 /\ UNCHANGED row
      \/ Retry /\ UNCHANGED row
      \/ row[s] = "new" /\ Start(s, Kept) /\ attempts' = (attempts + 1) % MaxAttempts
  BY RecordEffects
<1>3. Resolve(s) => (row[s] = "new" /\ Start(s, Handled)) \/ UNCHANGED row
  BY DEF Resolve, Notify
<1>4. UNCHANGED row => SameLocated
  BY DEF SameLocated
<1>5. ASSUME row[s] = "new", Start(s, Handled) \/ Start(s, Kept)
      PROVE  SameLocated
  BY <1>1, <1>5, PutKeepsLocated DEF Start
<1> QED
  BY <1>2, <1>3, <1>4, <1>5 DEF Notify

\* Steps that leave events, history and located surveys alone.
LEMMA QuietStep ==
    ASSUME TypeOK, SurveyInv, SameLocated, faults' = faults \/ Fault,
           UNCHANGED <<eventVars, told, found, overlap, shown>>
    PROVE  SurveyInv'
<1>1. UNCHANGED <<located, tries, shadow, told, found, overlap, shown>>
  BY DEF eventVars
<1>2. /\ faults \in Nat /\ faults' \in Nat /\ faults' >= faults /\ MaxAttempts \in Nat
      /\ found \in Seq(Survey)
  BY Bounds DEF TypeOK, Fault
<1>3. FoundOnce' /\ EventsOfLocated'
  <2>1. \A i \in DOMAIN found : found[i] \in Survey
    BY <1>2, ElementOfSeq, LenProperties
  <2> QED
    BY <1>1, <2>1 DEF SurveyInv, FoundOnce, EventsOfLocated, SameLocated
<1>4. ToldPerFault'
  <2> SUFFICES ASSUME NEW s \in Survey
               PROVE  /\ tries[s] <= faults'
                      /\ told[s] <= faults' +
                            IF located[s] \in {"queued", "read"} THEN 0 ELSE 1
                      /\ located[s] = "told" => told[s] >= 1
    BY <1>1 DEF ToldPerFault
  <2>1. tries[s] \in Int /\ told[s] \in Int
    BY Bounds DEF TypeOK
  <2> QED
    BY <1>2, <2>1 DEF SurveyInv, ToldPerFault
<1>5. LocatedInHand'
  BY <1>1, <1>2 DEF SurveyInv, LocatedInHand, SameLocated
<1>6. OverlapIsKnown' /\ ShadowOfDevice'
  BY <1>1 DEF SurveyInv, OverlapIsKnown, ShadowOfDevice
<1> QED
  BY <1>3, <1>4, <1>5, <1>6 DEF SurveyInv

\* An execution succeeds: the survey is found for the first time.
LEMMA SucceedStep ==
    ASSUME TypeOK, SurveyInv, NEW s \in Survey, Succeed(s)
    PROVE  SurveyInv'
<1> DEFINE n == Len(found)
<1>1. /\ row[s] = "inProgress" /\ row' = [row EXCEPT ![s] = "located"]
      /\ located' = [located EXCEPT ![s] = "queued"]
      /\ found' = Append(found, s)
      /\ overlap' = overlap \cup {<<t, s>> : t \in {t \in Earlier(s) : located[t] # "none"}}
      /\ UNCHANGED <<tries, shadow, told, shown, faults>>
  BY DEF Succeed, Put
<1>2. /\ n \in Nat /\ DOMAIN found = 1..n /\ DOMAIN found' = 1..(n + 1)
      /\ found'[n + 1] = s
      /\ \A i \in 1..n : found'[i] = found[i] /\ found[i] \in Survey
  BY <1>1, AppendProperties, LenProperties, ElementOfSeq DEF TypeOK
<1>3. \A i \in 1..n : found[i] # s
  BY <1>1, <1>2 DEF SurveyInv, FoundOnce
<1>4. /\ row'[s] = "located" /\ located'[s] = "queued"
      /\ \A t \in Survey : t # s => row'[t] = row[t] /\ located'[t] = located[t]
  BY <1>1 DEF TypeOK
<1>5. faults \in Nat /\ told[s] = 0
  BY <1>1 DEF TypeOK, SurveyInv, EventsOfLocated
<1>6. FoundOnce'
  BY <1>2, <1>3, <1>4 DEF SurveyInv, FoundOnce
<1>7. EventsOfLocated' /\ LocatedInHand'
  BY <1>1, <1>4 DEF SurveyInv, EventsOfLocated, LocatedInHand
<1>8. ToldPerFault'
  BY <1>1, <1>4, <1>5 DEF SurveyInv, ToldPerFault
<1>9. OverlapIsKnown'
  <2> SUFFICES ASSUME NEW i \in 1..(n + 1), NEW j \in 1..(n + 1), i < j,
                      DeviceOf[found'[i]] = DeviceOf[found'[j]],
                      located'[found'[i]] # "none"
               PROVE  <<found'[i], found'[j]>> \in overlap'
    BY <1>2 DEF OverlapIsKnown
  <2>1. i \in 1..n /\ found'[i] = found[i] /\ located[found[i]] # "none"
    BY <1>2, <1>3, <1>4
  <2>2. CASE j \in 1..n
    BY <1>1, <1>2, <2>1, <2>2 DEF SurveyInv, OverlapIsKnown
  <2>3. CASE j = n + 1
    <3>1. found[i] \in Earlier(s)
      BY <1>2, <2>1, <2>3 DEF Earlier
    <3> QED
      BY <1>1, <1>2, <2>1, <2>3, <3>1
  <2> QED
    BY <1>2, <2>2, <2>3
<1>10. ShadowOfDevice'
  BY <1>1 DEF SurveyInv, ShadowOfDevice
<1> QED
  BY <1>6, <1>7, <1>8, <1>9, <1>10 DEF SurveyInv

\* The event of a survey goes one step on: it does not touch the others, and no
\* survey that was not in its hands comes into them.
LEMMA EventStep ==
    ASSUME TypeOK, SurveyInv, NEW s \in Survey, ReadSurvey(s) \/ Tell(s) \/ UpdateShadow(s)
    PROVE  SurveyInv'
<1>1. /\ UNCHANGED <<row, found, overlap, faults>>
      /\ shown \subseteq shown' /\ located[s] # "none"
      /\ \A t \in Survey : t # s =>
            located'[t] = located[t] /\ tries'[t] = tries[t] /\ told'[t] = told[t]
  BY DEF ReadSurvey, Tell, UpdateShadow, streamVars, historyVars, TypeOK
<1>2. \/ /\ located[s] = "queued" /\ located'[s] = "read"
         /\ UNCHANGED <<tries, told, shadow>>
      \/ /\ located[s] = "read" /\ located'[s] = "told" /\ told'[s] = told[s] + 1
         /\ UNCHANGED <<tries, shadow>>
      \/ /\ located[s] = "told" /\ located'[s] = "none" /\ tries'[s] = 0
         /\ s \in shown' /\ shadow' = [shadow EXCEPT ![DeviceOf[s]] = s]
         /\ UNCHANGED told
  BY DEF ReadSurvey, Tell, UpdateShadow, streamVars, historyVars, TypeOK
<1>3. faults \in Nat /\ \A t \in Survey : told[t] \in Nat /\ tries[t] \in Nat
  BY Bounds DEF TypeOK
<1>4. row[s] = "located"
  BY <1>1 DEF SurveyInv, EventsOfLocated
<1>5. FoundOnce' /\ EventsOfLocated'
  BY <1>1, <1>4 DEF SurveyInv, FoundOnce, EventsOfLocated
<1>6. ToldPerFault'
  <2> SUFFICES ASSUME NEW t \in Survey
               PROVE  /\ tries'[t] <= faults
                      /\ told'[t] <= faults +
                            IF located'[t] \in {"queued", "read"} THEN 0 ELSE 1
                      /\ located'[t] = "told" => told'[t] >= 1
    BY <1>1 DEF ToldPerFault
  <2>1. CASE t # s
    BY <1>1, <2>1 DEF SurveyInv, ToldPerFault
  <2>2. CASE t = s
    BY <1>2, <1>3, <2>2 DEF SurveyInv, ToldPerFault
  <2> QED
    BY <2>1, <2>2
<1>7. LocatedInHand'
  <2> SUFFICES ASSUME NEW t \in Survey, row[t] = "located"
               PROVE  \/ located'[t] # "none"
                      \/ t \in shown' /\ told'[t] >= 1
                      \/ faults >= MaxAttempts
    BY <1>1 DEF LocatedInHand
  <2>1. CASE t # s
    BY <1>1, <2>1 DEF SurveyInv, LocatedInHand
  <2>2. CASE t = s
    BY <1>2, <2>2 DEF SurveyInv, ToldPerFault
  <2> QED
    BY <2>1, <2>2
<1>8. OverlapIsKnown'
  <2>1. \A i \in DOMAIN found : found[i] \in Survey
    BY ElementOfSeq, LenProperties DEF TypeOK
  <2>2. \A t \in Survey : located'[t] # "none" => located[t] # "none"
    BY <1>1
  <2> QED
    BY <1>1, <2>1, <2>2 DEF SurveyInv, OverlapIsKnown
<1>9. ShadowOfDevice'
  BY <1>2, DeviceAssumption DEF SurveyInv, ShadowOfDevice, TypeOK
<1> QED
  BY <1>5, <1>6, <1>7, <1>8, <1>9 DEF SurveyInv

\* An event fails: it is handled again, unless all attempts were used up, which
\* takes as many failures.
LEMMA EventFailsStep ==
    ASSUME TypeOK, SurveyInv, NEW s \in Survey, EventFails(s)
    PROVE  SurveyInv'
<1>1. /\ UNCHANGED <<row, found, overlap, shown, told, shadow>> /\ faults' = faults + 1
      /\ located[s] # "none"
      /\ \A t \in Survey : t # s => located'[t] = located[t] /\ tries'[t] = tries[t]
  BY DEF EventFails, Fault, streamVars, historyVars, TypeOK
<1>2. \/ /\ tries[s] + 1 = MaxAttempts
         /\ located'[s] = "none" /\ tries'[s] = 0
      \/ located'[s] = "queued" /\ tries'[s] = tries[s] + 1
  <2>1. CASE tries[s] + 1 = MaxAttempts
    BY <2>1 DEF EventFails, TypeOK
  <2>2. CASE tries[s] + 1 # MaxAttempts
    BY <2>2 DEF EventFails, TypeOK
  <2> QED
    BY <2>1, <2>2
<1>3. /\ faults \in Nat /\ MaxAttempts \in Nat
      /\ \A t \in Survey : told[t] \in Nat /\ tries[t] \in Nat
  BY Bounds DEF TypeOK
<1>4. row[s] = "located"
  BY <1>1 DEF SurveyInv, EventsOfLocated
<1>5. FoundOnce' /\ EventsOfLocated' /\ ShadowOfDevice'
  BY <1>1, <1>4 DEF SurveyInv, FoundOnce, EventsOfLocated, ShadowOfDevice
<1>6. ToldPerFault'
  <2> SUFFICES ASSUME NEW t \in Survey
               PROVE  /\ tries'[t] <= faults + 1
                      /\ told[t] <= faults + 1 +
                            IF located'[t] \in {"queued", "read"} THEN 0 ELSE 1
                      /\ located'[t] = "told" => told[t] >= 1
    BY <1>1 DEF ToldPerFault
  <2>1. /\ tries[t] <= faults
        /\ told[t] <= faults + IF located[t] \in {"queued", "read"} THEN 0 ELSE 1
        /\ located[t] = "told" => told[t] >= 1
    BY DEF SurveyInv, ToldPerFault
  <2>2. CASE t # s
    BY <1>1, <1>3, <2>1, <2>2
  <2>3. CASE t = s
    BY <1>2, <1>3, <2>1, <2>3
  <2> QED
    BY <2>2, <2>3
<1>7. LocatedInHand'
  <2> SUFFICES ASSUME NEW t \in Survey, row[t] = "located"
               PROVE  \/ located'[t] # "none"
                      \/ t \in shown /\ told[t] >= 1
                      \/ faults + 1 >= MaxAttempts
    BY <1>1 DEF LocatedInHand
  <2>1. CASE t # s
    BY <1>1, <1>3, <2>1 DEF SurveyInv, LocatedInHand
  <2>2. CASE t = s
    BY <1>2, <1>3, <2>2 DEF SurveyInv, ToldPerFault
  <2> QED
    BY <2>1, <2>2
<1>8. OverlapIsKnown'
  <2>1. \A i \in DOMAIN found : found[i] \in Survey
    BY ElementOfSeq, LenProperties DEF TypeOK
  <2>2. \A t \in Survey : located'[t] # "none" => located[t] # "none"
    BY <1>1
  <2> QED
    BY <1>1, <2>1, <2>2 DEF SurveyInv, OverlapIsKnown
<1> QED
  BY <1>5, <1>6, <1>7, <1>8 DEF SurveyInv

\* An event comes a second time: it overlaps all surveys of the device that
\* were found so far.
LEMMA RedeliverStep ==
    ASSUME TypeOK, SurveyInv, NEW s \in Survey, Redeliver(s)
    PROVE  SurveyInv'
<1>1. /\ UNCHANGED <<row, found, shown, told, tries, shadow>> /\ faults' = faults + 1
      /\ row[s] = "located" /\ located[s] = "none" /\ located'[s] = "queued"
      /\ \A t \in Survey : t # s => located'[t] = located[t]
      /\ overlap' = overlap \cup {<<s, t>> : t \in Earlier(s)}
  BY DEF Redeliver, Fault, streamVars, TypeOK
<1>2. /\ faults \in Nat /\ MaxAttempts \in Nat
      /\ \A t \in Survey : told[t] \in Nat /\ tries[t] \in Nat
  BY Bounds DEF TypeOK
<1>3. FoundOnce' /\ EventsOfLocated' /\ ShadowOfDevice'
  BY <1>1 DEF SurveyInv, FoundOnce, EventsOfLocated, ShadowOfDevice
<1>4. ToldPerFault'
  <2> SUFFICES ASSUME NEW t \in Survey
               PROVE  /\ tries[t] <= faults + 1
                      /\ told[t] <= faults + 1 +
                            IF located'[t] \in {"queued", "read"} THEN 0 ELSE 1
                      /\ located'[t] = "told" => told[t] >= 1
    BY <1>1 DEF ToldPerFault
  <2>1. /\ tries[t] <= faults
        /\ told[t] <= faults + IF located[t] \in {"queued", "read"} THEN 0 ELSE 1
        /\ located[t] = "told" => told[t] >= 1
    BY DEF SurveyInv, ToldPerFault
  <2>2. CASE t # s
    BY <1>1, <1>2, <2>1, <2>2
  <2>3. CASE t = s
    BY <1>1, <1>2, <2>1, <2>3
  <2> QED
    BY <2>2, <2>3
<1>5. LocatedInHand'
  BY <1>1, <1>2 DEF SurveyInv, LocatedInHand
<1>6. OverlapIsKnown'
  <2> SUFFICES ASSUME NEW i \in DOMAIN found, NEW j \in DOMAIN found, i < j,
                      DeviceOf[found[i]] = DeviceOf[found[j]], located'[found[i]] # "none"
               PROVE  <<found[i], found[j]>> \in overlap'
    BY <1>1 DEF OverlapIsKnown
  <2>1. CASE found[i] = s
    BY <1>1, <2>1 DEF Earlier
  <2>2. CASE found[i] # s
    <3>1. found[i] \in Survey
      BY ElementOfSeq, LenProperties DEF TypeOK
    <3> QED
      BY <1>1, <2>2, <3>1 DEF SurveyInv, OverlapIsKnown
  <2> QED
    BY <2>1, <2>2
<1> QED
  BY <1>3, <1>4, <1>5, <1>6 DEF SurveyInv

LEMMA SurveyStep ==
    ASSUME TypeOK, SurveyInv, [Next]_vars
    PROVE  SurveyInv'
<1>1. ASSUME NEW s \in Survey, Store(s)
      PROVE  SurveyInv'
  <2>1. SameLocated
    BY <1>1, PutKeepsLocated DEF Store
  <2> QED
    BY <1>1, <2>1, QuietStep DEF Store, historyVars
<1>2. ASSUME NEW s \in Survey, Succeed(s)
      PROVE  SurveyInv'
  BY <1>2, SucceedStep
<1>3. ASSUME NEW s \in Survey, GiveUp(s)
      PROVE  SurveyInv'
  <2>1. SameLocated
    BY <1>3, PutKeepsLocated DEF GiveUp
  <2> QED
    BY <1>3, <2>1, QuietStep DEF GiveUp, historyVars
<1>4. CASE Listen \/ Tick \/ ReadTable
  <2>1. UNCHANGED <<row, eventVars, told, found, overlap, shown, faults>>
    BY <1>4 DEF Listen, Tick, ReadTable, streamVars, historyVars
  <2> QED
    BY <2>1, QuietStep DEF SameLocated
<1>5. CASE HandleRecord \/ RecordFails
  BY <1>5, RecordEffects, RecordKeepsLocated, QuietStep
<1>6. ASSUME NEW s \in Survey, ReadSurvey(s) \/ Tell(s) \/ UpdateShadow(s)
      PROVE  SurveyInv'
  BY <1>6, EventStep
<1>7. ASSUME NEW s \in Survey, EventFails(s) \/ Redeliver(s)
      PROVE  SurveyInv'
  BY <1>7, EventFailsStep, RedeliverStep
<1>8. CASE UNCHANGED vars
  <2>1. UNCHANGED <<row, eventVars, told, found, overlap, shown, faults>>
    BY <1>8 DEF vars, streamVars, historyVars
  <2> QED
    BY <2>1, QuietStep DEF SameLocated
<1> QED
  BY <1>1, <1>2, <1>3, <1>4, <1>5, <1>6, <1>7, <1>8 DEF Next

-----------------------------------------------------------------------------
(* Theorems.                                                               *)

LEMMA InitialState ==
    ASSUME Init
    PROVE  Inv
<1> USE DEF Init
<1>1. /\ stream \in Seq(Survey \X State) /\ found \in Seq(Survey)
      /\ DOMAIN found = {}
  BY EmptySeq
<1>2. TypeOK
  <2>1. /\ attempts \in 0..(MaxAttempts - 1) /\ heard \in 0..(CacheFor + Timeout)
        /\ age \in 0..CacheFor /\ wait \in 0..Timeout
        /\ faults \in 0..MaxFaults /\ 0 \in 0..(MaxAttempts - 1)
    BY Bounds
  <2>2. /\ row \in [Survey -> State] /\ shadow \in [Device -> Survey \cup {None}]
        /\ located \in [Survey -> {"none", "queued", "read", "told"}]
        /\ told \in [Survey -> Nat]
    BY DEF State
  <2>3. tries \in [Survey -> 0..(MaxAttempts - 1)]
    BY <2>1
  <2>4. /\ listening \in BOOLEAN /\ cache \in {"unknown", "some", "none"}
        /\ scan \in {"no", "some", "none"}
        /\ overlap \subseteq Survey \X Survey /\ shown \subseteq Survey
        /\ dropped \subseteq Survey
    OBVIOUS
  <2> QED
    BY ONLY <1>1, <2>1, <2>2, <2>3, <2>4 DEF TypeOK
<1>3. CacheIsYoung
  BY DEF CacheIsYoung
<1>4. SurveyInv
  BY <1>1 DEF SurveyInv, FoundOnce, EventsOfLocated, ToldPerFault, LocatedInHand,
              OverlapIsKnown, ShadowOfDevice
<1> QED
  BY <1>2, <1>3, <1>4 DEF Inv

\* The inductive invariant.
THEOREM Invariance == Spec => []Inv
<1>1. Init => Inv
  BY InitialState
<1>2. Inv /\ [Next]_vars => Inv'
  BY TypeStep, CacheStep, SurveyStep DEF Inv
<1> QED
  BY <1>1, <1>2, PTL DEF Spec

\* Every variable keeps its type: no record or event is tried more often than it
\* may be, and the list of clients does not grow old.
THEOREM SurveyTypes == Spec => []TypeOK
<1>1. Inv => TypeOK
  BY DEF Inv
<1> QED
  BY <1>1, Invariance, PTL

\* At rest every located survey was told and shown, unless there were as many
\* faults as attempts; and it was told at most once more than there were faults.
THEOREM LocatedSurveysAreTold == Spec => []ToldAtRest
<1>1. Inv => ToldAtRest
  <2> SUFFICES ASSUME Inv, NEW s \in Survey, located[s] = "none", row[s] = "located"
               PROVE  /\ s \in shown \/ faults >= MaxAttempts
                      /\ told[s] >= 1 \/ faults >= MaxAttempts
                      /\ told[s] <= 1 + faults
    BY DEF ToldAtRest
  <2>1. told[s] \in Nat /\ faults \in Nat
    BY DEF Inv, TypeOK
  <2> QED
    BY <2>1 DEF Inv, SurveyInv, ToldPerFault, LocatedInHand
<1> QED
  BY <1>1, Invariance, PTL

\* A survey is dropped only if at some time in the age of the list of clients,
\* and the time its scan may take, nobody was listening.
THEOREM OnlySilenceDrops == Spec => DroppedOnlyInSilence
<1>1. Inv /\ [Next]_vars => [dropped' # dropped => heard < CacheFor + Timeout]_vars
  BY DropStep DEF Inv
<1> QED
  BY <1>1, Invariance, PTL DEF Spec, DroppedOnlyInSilence

\* An earlier location replaces a later one in the shadow only if its event
\* overlapped the later one.
THEOREM OnlyOverlapOverwrites == Spec => NoLateOverwrite
<1> DEFINE InOrder == \A d \in Device : \A i, j \in DOMAIN found :
                          (/\ i < j /\ shadow[d] = found[j] /\ shadow'[d] = found[i])
                          => <<found[i], found[j]>> \in overlap
<1>1. ASSUME Inv, [Next]_vars, NEW d \in Device, NEW i \in DOMAIN found,
             NEW j \in DOMAIN found,
             i < j, shadow[d] = found[j], shadow'[d] = found[i]
      PROVE  <<found[i], found[j]>> \in overlap
  <2>1. found[i] \in Survey /\ found[j] \in Survey /\ found[i] # found[j]
    BY <1>1, ElementOfSeq, LenProperties DEF Inv, TypeOK, SurveyInv, FoundOnce
  <2>2. PICK s \in Survey : UpdateShadow(s)
    <3>1. ASSUME NEW s \in Survey, Store(s) \/ Succeed(s) \/ GiveUp(s) \/ ReadSurvey(s)
                                   \/ Tell(s) \/ EventFails(s) \/ Redeliver(s)
          PROVE  UNCHANGED shadow
      BY <3>1 DEF Store, Succeed, GiveUp, ReadSurvey, Tell, EventFails, Redeliver, eventVars
    <3>2. ASSUME Listen \/ Tick \/ ReadTable \/ HandleRecord \/ RecordFails \/ UNCHANGED vars
          PROVE  UNCHANGED shadow
      BY <3>2 DEF Listen, Tick, ReadTable, HandleRecord, RecordFails, eventVars, vars
    <3>3. shadow' # shadow
      BY <1>1, <2>1
    <3> QED
      BY <1>1, <3>1, <3>2, <3>3 DEF Next
  <2>3. d = DeviceOf[s] /\ found[i] = s
    BY <1>1, <2>1, <2>2 DEF UpdateShadow, Inv, TypeOK
  <2>4. DeviceOf[found[j]] = d /\ located[found[i]] # "none"
    BY <1>1, <2>1, <2>2, <2>3, NoneAssumption DEF UpdateShadow, Inv, SurveyInv, ShadowOfDevice
  <2> QED
    BY <1>1, <2>3, <2>4 DEF Inv, SurveyInv, OverlapIsKnown
<1>2. Inv /\ [Next]_vars => [InOrder]_vars
  BY <1>1
<1> QED
  BY <1>2, Invariance, PTL DEF Spec, NoLateOverwrite

=============================================================================
