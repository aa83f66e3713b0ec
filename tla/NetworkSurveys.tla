--------------------------- MODULE NetworkSurveys ---------------------------
(***************************************************************************)
(* The location of network surveys.  Surveys are stored by another system, *)
(* whose table is streamed to a lambda (onNewNetworkSurvey), one record at *)
(* a time.  If somebody listens, the lambda asks the geolocation API of    *)
(* that system for the location, which starts an execution of its state    *)
(* machine.  When that has succeeded another lambda                        *)
(* (onNetworkSurveyLocated) tells the clients where the device is, and     *)
(* puts the location in the shadow of the device.                          *)
(*                                                                         *)
(* The table, the stream, the API, the state machine and the shadow are    *)
(* outside the repository: they are what the two lambdas take them for.    *)
(* Of time only the age of the list of clients that a container keeps is   *)
(* counted, the time the scan takes that gives the list, and how long      *)
(* somebody has been listening.                                            *)
(***************************************************************************)
EXTENDS Naturals, Sequences, FiniteSets

CONSTANTS
    Survey,         \* the surveys
    Device,
    DeviceOf,       \* the device of a survey
    None,           \* no survey
    CacheFor,       \* ticks a list of clients is kept (60 seconds)
    Timeout,        \* ticks the lambda may run (60 seconds)
    MaxAttempts,    \* how often an event is handled before it is given up
    MaxFaults       \* bound: requests that fail, reads that are stale, and
                    \*   events that are delivered twice

ASSUME DeviceAssumption == DeviceOf \in [Survey -> Device]
ASSUME NoneAssumption == None \notin Survey
ASSUME BoundsAssumption ==
    {CacheFor, MaxAttempts} \subseteq Nat \ {0} /\ {Timeout, MaxFaults} \subseteq Nat

VARIABLES
    row,        \* the state of a survey's item in the table
    stream,     \* the changes of items that were not yet handled
    attempts,   \* of the lambda to handle the first of them
    listening,  \* whether somebody is connected
    heard,      \* history: the ticks somebody has been, up to CacheFor + Timeout
    cache,      \* the container's list of clients: "unknown", "some", "none"
    age,        \* of that list
    scan,       \* the answer of a scan that is on its way: "no", "some", "none"
    wait,       \* the ticks since the table was read for it
    located,    \* the phase of a survey's success event: "none", "queued",
                \*   "read", "told"
    tries,      \* how often that event was handled
    shadow,     \* the survey a device's location (14201/1) is from
    told,       \* history: how often clients were told a survey's location
    found,      \* history: the located surveys, in the order of the events
    overlap,    \* history: <<s, t>>: s was not handled, or was handled again,
                \*   when t was located
    shown,      \* history: the surveys that were put in a shadow
    dropped,    \* history: surveys that were dropped because nobody listens
    faults      \* the number of faults so far

cacheVars == <<cache, age, scan, wait>>
clientVars == <<listening, heard, cacheVars>>
eventVars == <<located, tries, shadow>>
streamVars == <<row, stream, attempts>>
historyVars == <<told, found, overlap, shown, dropped>>
vars == <<streamVars, clientVars, eventVars, historyVars, faults>>

State == {"absent", "new", "inProgress", "located", "unresolved"}

TypeOK ==
    /\ row \in [Survey -> State]
    /\ stream \in Seq(Survey \X State)
    /\ attempts \in 0..(MaxAttempts - 1)
    /\ listening \in BOOLEAN /\ heard \in 0..(CacheFor + Timeout)
    /\ cache \in {"unknown", "some", "none"} /\ age \in 0..CacheFor
    /\ scan \in {"no", "some", "none"} /\ wait \in 0..Timeout
    /\ located \in [Survey -> {"none", "queued", "read", "told"}]
    /\ tries \in [Survey -> 0..(MaxAttempts - 1)]
    /\ shadow \in [Device -> Survey \cup {None}]
    /\ told \in [Survey -> Nat]
    /\ found \in Seq(Survey)
    /\ overlap \subseteq Survey \X Survey
    /\ shown \subseteq Survey /\ dropped \subseteq Survey
    /\ faults \in 0..MaxFaults

Init ==
    /\ row = [s \in Survey |-> "absent"] /\ stream = <<>> /\ attempts = 0
    /\ listening = FALSE /\ heard = 0 /\ cache = "unknown" /\ age = 0
    /\ scan = "no" /\ wait = 0
    /\ located = [s \in Survey |-> "none"]
    /\ tries = [s \in Survey |-> 0]
    /\ shadow = [d \in Device |-> None]
    /\ told = [s \in Survey |-> 0]
    /\ found = <<>> /\ overlap = {} /\ shown = {} /\ dropped = {}
    /\ faults = 0

Fault ==
    /\ faults < MaxFaults
    /\ faults' = faults + 1

\* An item is written, and its change goes to the end of the stream.
Put(s, state, records) ==
    /\ row' = [row EXCEPT ![s] = state]
    /\ stream' = Append(records, <<s, state>>)

-----------------------------------------------------------------------------
(* Clients, devices and time.                                              *)

\* A device's survey is stored.
Store(s) ==
    /\ row[s] = "absent"
    /\ Put(s, "new", stream)
    /\ UNCHANGED <<attempts, clientVars, eventVars, historyVars, faults>>

\* The first client connects, or the last one leaves.
Listen ==
    /\ listening' = ~listening
    /\ heard' = 0
    /\ UNCHANGED <<streamVars, cacheVars, eventVars, historyVars, faults>>

\* The lambda does not run longer than its timeout: a scan is answered, or
\* the run is cut off (RecordFails).
Passes ==
    /\ scan # "no" => wait < Timeout
    /\ wait' = IF scan = "no" THEN 0 ELSE wait + 1
    /\ heard' = IF listening /\ heard < CacheFor + Timeout THEN heard + 1 ELSE heard

\* Bug: a list of clients does not get too old.
TickWithoutExpiry ==
    /\ Passes
    /\ UNCHANGED <<streamVars, listening, cache, age, scan, eventVars, historyVars, faults>>

\* Time passes: a list of clients that is too old is not used again.
Tick ==
    /\ Passes
    /\ IF cache = "unknown" \/ age + 1 = CacheFor
       THEN cache' = "unknown" /\ age' = 0
       ELSE UNCHANGED cache /\ age' = age + 1
    /\ UNCHANGED <<streamVars, listening, scan, eventVars, historyVars, faults>>

-----------------------------------------------------------------------------
(* The geolocation API and its state machine.                              *)

\* A request for a survey that is new starts an execution.
Start(s, records) == Put(s, "inProgress", records)

Earlier(s) == {t \in {found[i] : i \in DOMAIN found} : DeviceOf[t] = DeviceOf[s]}

\* An execution succeeds: the item is updated, and an event is sent.
Succeed(s) ==
    /\ row[s] = "inProgress"
    /\ Put(s, "located", stream)
    /\ located' = [located EXCEPT ![s] = "queued"]
    /\ found' = Append(found, s)
    /\ overlap' = overlap \cup {<<t, s>> : t \in {t \in Earlier(s) : located[t] # "none"}}
    /\ UNCHANGED <<attempts, clientVars, tries, shadow, told, shown, dropped, faults>>

\* An execution ends without a location; of that there is no event.
GiveUp(s) ==
    /\ row[s] = "inProgress"
    /\ Put(s, "unresolved", stream)
    /\ UNCHANGED <<attempts, clientVars, eventVars, historyVars, faults>>

-----------------------------------------------------------------------------
(* onNewNetworkSurvey.                                                     *)

\* getActiveConnections, up to the await: a record waits, and there is no list
\* that is young enough.  The table is read for the scan.
ReadTable ==
    /\ stream # <<>>
    /\ cache = "unknown" /\ scan = "no"
    /\ scan' = IF listening THEN "some" ELSE "none"
    /\ wait' = 0
    /\ UNCHANGED <<streamVars, listening, heard, cache, age, eventVars, historyVars, faults>>

\* The list the lambda goes by: the cached one, or else the scan's answer.
Believed == IF cache # "unknown" THEN cache ELSE scan

\* getActiveConnections: there is a list.  One that comes from a scan is kept,
\* and is taken to be as old as its answer, not as its reading.
GetActive ==
    /\ Believed # "no"
    /\ cache' = Believed
    /\ age' = IF cache = "unknown" THEN 0 ELSE age
    /\ scan' = "no" /\ wait' = 0

\* What is left of the stream when a record was handled.
Handled == Tail(stream)

\* What is left of it when a record fails: it is given up in the end.
Kept == IF attempts + 1 = MaxAttempts THEN Handled ELSE stream

\* Bug: a record that fails is handled again without end (retryAttempts).
RetryForever == UNCHANGED stream /\ attempts' = attempts + 1

\* Bug: a record that fails is not handled again.
RetryNever == stream' = Handled /\ attempts' = 0

Retry == stream' = Kept /\ attempts' = (attempts + 1) % MaxAttempts

\* The notifier asks for the alias of the device, for which this lambda has
\* no permission: it always fails.
Notify == Retry /\ UNCHANGED row

\* The request to the geolocation API, and the switch on its status.
Resolve(s) ==
    CASE row[s] = "new" -> Start(s, Handled) /\ attempts' = 0       \* 409
      [] row[s] = "inProgress" ->                                    \* 409
            stream' = Handled /\ attempts' = 0 /\ UNCHANGED row
      [] row[s] = "located" -> Notify                                \* 200
      [] OTHER -> Retry /\ UNCHANGED row                             \* an error
         \* of a survey that was given up, too: the API has no location of it

\* Bug: a location that comes with a record is put in the shadow, too.
HandleRecordAndShow ==
    /\ stream # <<>>
    /\ GetActive
    /\ LET s == Head(stream)[1]
       IN IF Head(stream)[2] = "located"
          THEN /\ stream' = Handled /\ attempts' = 0 /\ UNCHANGED row
               /\ shadow' = [shadow EXCEPT ![DeviceOf[s]] = s]
          ELSE Resolve(s) /\ UNCHANGED shadow
    /\ UNCHANGED <<listening, heard, located, tries, historyVars, faults>>

\* A survey that was given up is not told apart from a new one: the lambda
\* looks for unresolved = false, which those that are located have.
HandleRecord ==
    /\ stream # <<>>
    /\ GetActive
    /\ LET s == Head(stream)[1]
           image == Head(stream)[2]
       IN \/ /\ Believed = "none" \/ image = "inProgress"
             /\ stream' = Handled /\ attempts' = 0
             /\ dropped' = IF image = "new" THEN dropped \cup {s} ELSE dropped
             /\ UNCHANGED row
          \/ /\ Believed = "some" /\ image = "located"
             /\ Notify
             /\ UNCHANGED dropped
          \/ /\ Believed = "some" /\ image \in {"new", "unresolved"}
             /\ Resolve(s)
             /\ UNCHANGED dropped
    /\ UNCHANGED <<listening, heard, eventVars, told, found, overlap, shown, faults>>

\* The scan fails, or the run is cut off and its container lost; or the
\* request fails.  The request may have started the execution.
RecordFails ==
    /\ stream # <<>>
    /\ Fault
    /\ \/ cache' = "unknown" /\ age' = 0 /\ scan' = "no" /\ wait' = 0
       \/ Believed = "some" /\ GetActive
    /\ LET s == Head(stream)[1]
       IN \/ Retry /\ UNCHANGED row
          \/ /\ Believed = "some" /\ Head(stream)[2] = "new" /\ row[s] = "new"
             /\ Start(s, Kept) /\ attempts' = (attempts + 1) % MaxAttempts
    /\ UNCHANGED <<listening, heard, eventVars, historyVars>>

-----------------------------------------------------------------------------
(* onNetworkSurveyLocated.                                                 *)

\* The survey is read from the table, and checked.
ReadSurvey(s) ==
    /\ located[s] = "queued"
    /\ located' = [located EXCEPT ![s] = "read"]
    /\ UNCHANGED <<streamVars, clientVars, tries, shadow, historyVars, faults>>

\* Clients are told where the device is.
Tell(s) ==
    /\ located[s] = "read"
    /\ located' = [located EXCEPT ![s] = "told"]
    /\ told' = [told EXCEPT ![s] = @ + 1]
    /\ UNCHANGED <<streamVars, clientVars, tries, shadow, found, overlap, shown, dropped,
                   faults>>

\* The location is put in the shadow.
UpdateShadow(s) ==
    /\ located[s] = "told"
    /\ located' = [located EXCEPT ![s] = "none"]
    /\ tries' = [tries EXCEPT ![s] = 0]
    /\ shadow' = [shadow EXCEPT ![DeviceOf[s]] = s]
    /\ shown' = shown \cup {s}
    /\ UNCHANGED <<streamVars, clientVars, told, found, overlap, dropped, faults>>

\* Bug: an update of the shadow that fails is not noticed.
EventFailsUnnoticed(s) ==
    /\ located[s] # "none"
    /\ Fault
    /\ located' = [located EXCEPT ![s] = IF @ = "told" THEN "none" ELSE "queued"]
    /\ UNCHANGED <<streamVars, clientVars, tries, shadow, historyVars>>

\* The item is not up to date, or a request fails: the event is handled again
\* from the start.
EventFails(s) ==
    /\ located[s] # "none"
    /\ Fault
    /\ IF tries[s] + 1 = MaxAttempts
       THEN /\ located' = [located EXCEPT ![s] = "none"]
            /\ tries' = [tries EXCEPT ![s] = 0]
       ELSE /\ located' = [located EXCEPT ![s] = "queued"]
            /\ tries' = [tries EXCEPT ![s] = @ + 1]
    /\ UNCHANGED <<streamVars, clientVars, shadow, historyVars>>

\* An event is delivered a second time.
Redeliver(s) ==
    /\ row[s] = "located" /\ located[s] = "none"
    /\ Fault
    /\ located' = [located EXCEPT ![s] = "queued"]
    /\ overlap' = overlap \cup {<<s, t>> : t \in Earlier(s)}
    /\ UNCHANGED <<streamVars, clientVars, tries, shadow, told, found, shown, dropped>>

Next ==
    \/ \E s \in Survey : Store(s) \/ Succeed(s) \/ GiveUp(s)
    \/ Listen \/ Tick
    \/ ReadTable \/ HandleRecord \/ RecordFails
    \/ \E s \in Survey : ReadSurvey(s) \/ Tell(s) \/ UpdateShadow(s)
    \/ \E s \in Survey : EventFails(s) \/ Redeliver(s)

\* Scans are made and answered, records and events are handled, and executions
\* come to an end.
Fairness ==
    /\ WF_vars(ReadTable) /\ WF_vars(HandleRecord)
    /\ \A s \in Survey : /\ WF_vars(Succeed(s) \/ GiveUp(s))
                        /\ WF_vars(ReadSurvey(s) \/ Tell(s) \/ UpdateShadow(s))

Spec == Init /\ [][Next]_vars /\ Fairness

-----------------------------------------------------------------------------
(* Properties.                                                             *)

\* When nothing is left to do, the location of every survey that has one was
\* put in the shadow, and clients were told: by onNetworkSurveyLocated alone,
\* and again only after a failure or a second delivery; unless all attempts to
\* do so have failed.
ToldAtRest ==
    (stream = <<>> /\ \A s \in Survey : located[s] = "none" /\ row[s] # "inProgress") =>
        \A s \in Survey : row[s] = "located" =>
            /\ s \in shown \/ faults >= MaxAttempts
            /\ told[s] >= 1 \/ faults >= MaxAttempts
            /\ told[s] <= 1 + faults

\* A survey is dropped because nobody listens only if nobody did at some time
\* in the last 60 seconds, the age of the list (getActiveConnections), and the
\* time the scan took that gave it: at most as long as the lambda may run.
DroppedOnlyInSilence == [][dropped' # dropped => heard < CacheFor + Timeout]_vars

\* A survey without a location is left alone, as the log line says ("No geo
\* location resolved for survey", onNewNetworkSurvey.ts): its record is not
\* tried again.
UnresolvedAreLeft ==
    [][HandleRecord /\ Head(stream)[2] = "unresolved" => stream' = Handled]_vars

\* The location in the shadow is replaced by one that was found earlier only
\* if that one's event was still being handled, or came again
\* (onNetworkSurveyLocated has no other order than that of its events).
NoLateOverwrite ==
    [][\A d \in Device : \A i, j \in DOMAIN found :
          (/\ i < j /\ shadow[d] = found[j] /\ shadow'[d] = found[i])
          => <<found[i], found[j]>> \in overlap]_vars

\* Every survey is located and shown, or its execution gives up, or nobody
\* was listening: none is left behind by fewer failures than there are
\* attempts, nor by one before it that was given up and is asked for again.
SurveysSettle ==
    \A s \in Survey :
        row[s] = "new" ~> (\/ s \in shown \/ s \in dropped
                            \/ row[s] = "unresolved" \/ faults >= MaxAttempts)

=============================================================================
