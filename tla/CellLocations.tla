---------------------------- MODULE CellLocations ----------------------------
(***************************************************************************)
(* The location of cells.  When a device's shadow has a cell, a lambda     *)
(* (resolveCellLocation) asks another system's geolocation API where it    *)
(* is, if somebody listens.  The answer is known and the clients are told; *)
(* or an execution of that system's state machine is under way, and when   *)
(* it succeeds another lambda (onCellGeoLocationResolved) tells the        *)
(* clients, and puts the location in the shadow lwm2m of the things that   *)
(* are in that cell, as the index has it.                                  *)
(*                                                                         *)
(* The connection of a thing is put in the shadow by LwM2MShadow, from the *)
(* same updates of the device's shadow.                                    *)
(***************************************************************************)
EXTENDS LwM2MShadow

CONSTANTS
    NetworkOf,      \* the network of a cell, as devices report it
    SourceOf,       \* the source that the state machine's result names for it
    MaxAttempts     \* how often an event is handled before it is given up

ASSUME NetworkAssumption == NetworkOf \in [Cell -> {"LTE-M", "NB-IoT"}]

\* The sources the lambda knows (notifyClients.ts); a result has any.
LocationSource == {"MCELL", "SCELL", "WIFI"}
ASSUME SourceAssumption == SourceOf \in [Cell -> LocationSource \cup {"nrfcloud"}]

ASSUME AttemptsAssumption == MaxAttempts \in Nat \ {0}

VARIABLES
    requests,   \* per update, the phase of its invocation and its attempts
    geo,        \* per cell, what the API knows
    results,    \* per cell, the phase of its success event and the attempts
    location,   \* the cell the thing's location (14201/2) is of
    told,       \* history: the cells whose location clients were told
    skipped     \* history: cells not resolved because nobody listens

cellVars == <<requests, geo, results, location, told, skipped>>
vars == <<shadowVars, cellVars, faults>>

NotUnderWay == [phase |-> "none", attempts |-> 0]
Queued == [phase |-> "queued", attempts |-> 0]
Phase(phases) == [phase : phases, attempts : 0..(MaxAttempts - 1)]

TypeOK ==
    /\ ShadowTypeOK
    /\ requests \in [1..MaxUpdates -> Phase({"none", "queued"})]
    /\ geo \in [Cell -> {"unknown", "running", "known", "failed"}]
    /\ results \in [Cell -> Phase({"none", "queued", "told"})]
    /\ location \in Cell \cup {NoCell}
    /\ told \subseteq Cell /\ skipped \subseteq Cell

Init ==
    /\ ShadowInit
    /\ requests = [u \in 1..MaxUpdates |-> NotUnderWay]
    /\ geo = [c \in Cell |-> "unknown"]
    /\ results = [c \in Cell |-> NotUnderWay]
    /\ location = NoCell
    /\ told = {} /\ skipped = {}
    /\ faults = 0

\* A function's invocation is handled again after a failure, or given up.
Again(i) == IF i.attempts + 1 = MaxAttempts THEN NotUnderWay
            ELSE [phase |-> "queued", attempts |-> i.attempts + 1]

-----------------------------------------------------------------------------
(* resolveCellLocation.                                                    *)

\* The cell in the device's shadow after an update: that of the last roam.
CurrentCell(reported) ==
    LET roams == {i \in DOMAIN reported : reported[i].roam # NoCell}
    IN IF roams = {} THEN NoCell ELSE reported[Max(roams)].roam

\* Bug: the rule takes documents that have no cell, too.
UpdateDeviceAnyDocument(content) ==
    /\ Report(content)
    /\ requests' = [requests EXCEPT ![Len(updates')] = Queued]
    /\ UNCHANGED <<geo, results, location, told, skipped, faults>>

\* The device updates its shadow: one rule takes the update (Report), another
\* the document that comes of it, once that has a cell.
UpdateDevice(content) ==
    /\ Report(content)
    /\ requests' = IF CurrentCell(updates') = NoCell THEN requests
                   ELSE [requests EXCEPT ![Len(updates')] = Queued]
    /\ UNCHANGED <<geo, results, location, told, skipped, faults>>

\* The cell an update's document has.
CellOf(u) == CurrentCell(SubSeq(updates, 1, u))

Done(u) == requests' = [requests EXCEPT ![u] = NotUnderWay]

\* Nobody listens, as far as the container knows (see NetworkSurveys).
Skip(u) ==
    /\ requests[u].phase = "queued"
    /\ Done(u)
    /\ skipped' = skipped \cup {CellOf(u)}
    /\ UNCHANGED <<shadowVars, geo, results, location, told, faults>>

\* The request to the geolocation API, and the switch on its status.
Resolve(u) ==
    /\ requests[u].phase = "queued"
    /\ LET c == CellOf(u)
       IN \/ /\ geo[c] = "unknown"                                  \* 409
             /\ geo' = [geo EXCEPT ![c] = "running"] /\ Done(u) /\ UNCHANGED told
          \/ /\ geo[c] = "running"                                  \* 409
             /\ Done(u) /\ UNCHANGED <<geo, told>>
          \/ /\ geo[c] = "known"                                    \* 200
             /\ told' = told \cup {c} /\ Done(u) /\ UNCHANGED geo
          \/ /\ geo[c] = "failed"                                   \* an error
             /\ requests' = [requests EXCEPT ![u] = Again(@)] /\ UNCHANGED <<geo, told>>
    /\ UNCHANGED <<shadowVars, results, location, skipped, faults>>

\* The scan for clients, the request or the notification fails.
RequestFails(u) ==
    /\ requests[u].phase = "queued"
    /\ Fault
    /\ requests' = [requests EXCEPT ![u] = Again(@)]
    /\ geo' \in {geo, IF geo[CellOf(u)] = "unknown"
                     THEN [geo EXCEPT ![CellOf(u)] = "running"] ELSE geo}
    /\ UNCHANGED <<shadowVars, results, location, told, skipped>>

\* An execution of the state machine succeeds, and an event is sent; or fails.
Succeed(c) ==
    /\ geo[c] = "running"
    /\ geo' = [geo EXCEPT ![c] = "known"]
    /\ results' = [results EXCEPT ![c] = Queued]
    /\ UNCHANGED <<shadowVars, requests, location, told, skipped, faults>>

GiveUp(c) ==
    /\ geo[c] = "running"
    /\ geo' = [geo EXCEPT ![c] = "failed"]
    /\ UNCHANGED <<shadowVars, requests, results, location, told, skipped, faults>>

-----------------------------------------------------------------------------
(* onCellGeoLocationResolved.                                              *)

\* The result is validated: one that names another source is an error, and is
\* so on every attempt.  The clients are told of a valid one.
TellCell(c) ==
    /\ results[c].phase = "queued"
    /\ \/ /\ SourceOf[c] \in LocationSource
          /\ results' = [results EXCEPT ![c].phase = "told"]
          /\ told' = told \cup {c}
       \/ /\ SourceOf[c] \notin LocationSource
          /\ results' = [results EXCEPT ![c] = Again(@)] /\ UNCHANGED told
    /\ UNCHANGED <<shadowVars, requests, geo, location, skipped, faults>>

\* The network as the API is asked for it, and answers.
Nw(c) == IF NetworkOf[c] = "NB-IoT" THEN "nbiot" ELSE "ltem"

\* The thing's connection in the index.
ThingCell ==
    LET u == ReportOf(index, "ConnectionInformation_14203")[1]
    IN IF u = 0 THEN NoCell ELSE updates[u].roam

Matches(c) == ThingCell # NoCell /\ NetworkOf[ThingCell] = Nw(c) /\ ThingCell = c

\* The things in the index that are in the cell get its location.
UpdateThings(c) ==
    /\ results[c].phase = "told"
    /\ results' = [results EXCEPT ![c] = NotUnderWay]
    /\ location' = IF Matches(c) THEN c ELSE location
    /\ UNCHANGED <<shadowVars, requests, geo, told, skipped, faults>>

\* Bug: a failure is logged, and the event is not handled again.
ResultFailsForGood(c) ==
    /\ results[c].phase # "none"
    /\ Fault
    /\ results' = [results EXCEPT ![c] = NotUnderWay]
    /\ UNCHANGED <<shadowVars, requests, geo, location, told, skipped>>

\* A notification, the search or an update fails: the event is handled again.
ResultFails(c) ==
    /\ results[c].phase # "none"
    /\ Fault
    /\ results' = [results EXCEPT ![c] = Again(@)]
    /\ UNCHANGED <<shadowVars, requests, geo, location, told, skipped>>

Next ==
    \/ \E content \in Content : UpdateDevice(content)
    \/ ShadowNext /\ UNCHANGED cellVars
    \/ \E u \in 1..MaxUpdates : Skip(u) \/ Resolve(u) \/ RequestFails(u)
    \/ \E c \in Cell : Succeed(c) \/ GiveUp(c)
    \/ \E c \in Cell : TellCell(c) \/ UpdateThings(c) \/ ResultFails(c)

Spec == Init /\ [][Next]_vars

-----------------------------------------------------------------------------
(* Properties.                                                             *)

\* Nothing is under way.
Settled ==
    /\ \A u \in 1..MaxUpdates : requests[u].phase = "none"
    /\ \A c \in Cell : results[c].phase = "none" /\ geo[c] # "running"

\* When nothing is left to do, clients were told the location of every cell
\* the device has been in, by one lambda or the other; unless there is none,
\* or its result is not valid (as that of the comment at line 73 of
\* onCellGeoLocationResolved.ts is not: clients learn of the cell only if
\* another request for it is answered 200, which is not validated), or nobody
\* was listening, or all attempts have failed.
CellsAreTold ==
    Settled => \A u \in 1..Len(updates) :
        \/ CellOf(u) \in told \cup skipped \cup {NoCell}
        \/ SourceOf[CellOf(u)] \notin LocationSource
        \/ geo[CellOf(u)] = "failed" \/ faults >= MaxAttempts

\* onCellGeoLocationResolved.ts: the things that are in the cell whose location
\* is resolved get it, those that are not get "No match".
ThingsInCellAreLocated ==
    [][\A c \in Cell : UpdateThings(c) /\ ThingCell = c => location' = c]_vars

=============================================================================
