----------------------------- MODULE LwM2MShadow -----------------------------
(***************************************************************************)
(* The LwM2M shadow of a device.  Every update of a device's shadow is     *)
(* sent to a lambda (updatesToLwM2M), which converts what the device       *)
(* reports to LwM2M objects and puts these in the named shadow lwm2m.  The *)
(* things with such a shadow are found in an index, and published as a     *)
(* file every minute (publishLwM2MShadowsToJSON).                          *)
(*                                                                         *)
(* The device, the rule, the shadow and the index are outside the          *)
(* repository, and so are the transforms of the package proto-map, of      *)
(* which three are kept: the connection (roam), and two that report the    *)
(* same object, the battery (bat, fg).  A resource has the report it is    *)
(* from as its value.                                                      *)
(***************************************************************************)
EXTENDS Naturals, Sequences, FiniteSetsExt

CONSTANTS
    Cell, NoCell,   \* the cells a device connects to
    Content,        \* what updates may have: the cell, if they have roam; bat
                    \*   and fg, or not; and which of these has the later
                    \*   timestamp
    MaxUpdates,     \* bound: updates of the device's shadow
    MaxFaults       \* bound: requests that fail, events that come twice

ASSUME NoCellAssumption == NoCell \notin Cell
ASSUME ContentAssumption ==
    Content \subseteq [roam : Cell \cup {NoCell}, bat : BOOLEAN, fg : BOOLEAN,
                       later : {"bat", "fg"}]
ASSUME BoundsAssumption == {MaxUpdates, MaxFaults} \subseteq Nat

\* LwM2M objects and their resources; those of which no transform has a value
\* are left out.
Resources == [ConnectionInformation_14203 |-> {"0", "3", "4", "5", "99"},
              BatteryAndPower_14202 |-> {"0", "1", "2", "3", "99"}]
Object == DOMAIN Resources

\* The transforms: the object of a report, and the resources it has a value for.
Transform == [roam |-> [of |-> "ConnectionInformation_14203",
                        has |-> Resources.ConnectionInformation_14203],
              bat |-> [of |-> "BatteryAndPower_14202", has |-> {"1", "99"}],
              fg |-> [of |-> "BatteryAndPower_14202",
                      has |-> Resources.BatteryAndPower_14202]]
Source == DOMAIN Transform

\* A value: update number and source; or none, as in a resource that is unset.
Unset == <<0, "none">>

VARIABLES
    updates,        \* the updates of the device's shadow, in their order
    invocations,    \* the updates whose invocation was not yet handled
    held,           \* requests of handlers that did not wait for them
    lwm2m,          \* the reported state of the shadow lwm2m
    index,          \* that state as the index has it
    published,      \* that state as the file has it
    overlap,        \* history: <<u, v>>: u was under way after v was reported
    lost,           \* history: updates whose request failed
    faults          \* the number of faults so far

shadowVars == <<updates, invocations, held, lwm2m, index, published, overlap, lost>>

Value == {Unset} \cup (1..MaxUpdates) \X Source
Empty == [o \in Object |-> [r \in Resources[o] |-> Unset]]

IsShadow(s) == /\ DOMAIN s = Object
               /\ \A o \in Object : s[o] \in [Resources[o] -> Value]

ShadowTypeOK ==
    /\ updates \in Seq(Content) /\ Len(updates) <= MaxUpdates
    /\ invocations \cup held \cup lost \subseteq 1..Len(updates)
    /\ IsShadow(lwm2m) /\ IsShadow(index) /\ IsShadow(published)
    /\ overlap \subseteq (1..MaxUpdates) \X (1..MaxUpdates)
    /\ faults \in 0..MaxFaults

ShadowInit ==
    /\ updates = <<>> /\ invocations = {} /\ held = {}
    /\ lwm2m = Empty /\ index = Empty /\ published = Empty
    /\ overlap = {} /\ lost = {}

Fault ==
    /\ faults < MaxFaults
    /\ faults' = faults + 1

-----------------------------------------------------------------------------
(* The conversion of an update.                                            *)

\* The sources an update has a report of.
Sources(content) ==
    {s \in Source : \/ s = "roam" /\ content.roam # NoCell
                    \/ s = "bat" /\ content.bat
                    \/ s = "fg" /\ content.fg}

SourcesOf(content, o) == {s \in Sources(content) : Transform[s].of = o}

\* The source of an object with the latest timestamp.
Latest(content, o) ==
    CHOOSE s \in SourcesOf(content, o) :
        content.later \in SourcesOf(content, o) => s = content.later

\* Bug: resources that are omitted are not mentioned, and stay what they are.
transformKeepsOmitted(u, source) ==
    [r \in Transform[source].has |-> <<u, source>>]

\* A matching transform gives an object; resources it omits are marked as unset.
transformShadowUpdateToLwM2M(u, source) ==
    [r \in Resources[Transform[source].of] |->
        IF r \in Transform[source].has THEN <<u, source>> ELSE Unset]

\* Bug: the objects are sorted the other way round.
objectsToShadowReversed(u) ==
    [o \in {Transform[s].of : s \in Sources(updates[u])} |->
        transformShadowUpdateToLwM2M(u, CHOOSE s \in SourcesOf(updates[u], o) :
            s = updates[u].later => SourcesOf(updates[u], o) = {s})]

\* The objects are sorted by their timestamps.  One that comes later replaces
\* an earlier one of the same object: all have a resource "0", so that of the
\* earlier instance, which is spread among the resources, nothing remains.
objectsToShadow(u) ==
    [o \in {Transform[s].of : s \in Sources(updates[u])} |->
        transformShadowUpdateToLwM2M(u, Latest(updates[u], o))]

\* The shadow merges what is reported, and removes what is null.
Merge(shadow, objects) ==
    [o \in Object |-> IF o \notin DOMAIN objects THEN shadow[o]
                      ELSE [r \in Resources[o] |-> IF r \in DOMAIN objects[o]
                                                   THEN objects[o][r] ELSE shadow[o][r]]]

-----------------------------------------------------------------------------
(* Operations.                                                             *)

UnderWay == invocations \cup held

\* The device's shadow is updated: an update is sent to the lambda.
Report(content) ==
    LET u == Len(updates) + 1
    IN /\ u <= MaxUpdates
       /\ updates' = Append(updates, content)
       /\ invocations' = invocations \cup {u}
       /\ overlap' = overlap \cup UnderWay \X {u}
       /\ UNCHANGED <<held, lwm2m, index, published, lost>>

\* handler of updatesToLwM2M: the update is converted, and the request for the
\* shadow made, but not waited for (void updateShadow).
Convert(u) ==
    /\ u \in invocations
    /\ invocations' = invocations \ {u}
    /\ held' = held \cup {u}
    /\ UNCHANGED <<updates, lwm2m, index, published, overlap, lost, faults>>

\* An event is delivered, and handled, a second time.
Redeliver(u) ==
    /\ u \in 1..Len(updates) /\ u \notin UnderWay
    /\ Fault
    /\ invocations' = invocations \cup {u}
    /\ overlap' = overlap \cup {u} \X ((u + 1)..Len(updates))
    /\ UNCHANGED <<updates, held, lwm2m, index, published, lost>>

\* UpdateThingShadow, when its request is sent.
UpdateLwM2M(u) ==
    /\ u \in held
    /\ held' = held \ {u}
    /\ lwm2m' = Merge(lwm2m, objectsToShadow(u))
    /\ UNCHANGED <<updates, invocations, index, published, overlap, lost, faults>>

\* The request fails, or its container does not live on to send it: the
\* handler has returned, and nobody notices.
LoseUpdate(u) ==
    /\ u \in held
    /\ Fault
    /\ held' = held \ {u}
    /\ lost' = lost \cup {u}
    /\ UNCHANGED <<updates, invocations, lwm2m, index, published, overlap>>

\* The index catches up.
Index ==
    /\ index' = lwm2m
    /\ UNCHANGED <<updates, invocations, held, lwm2m, published, overlap, lost, faults>>

\* handler of publishLwM2MShadowsToJSON, every minute: the objects of the
\* index that are not older than 30 days (fetchLwM2MShadows).
Publish(recent) ==
    /\ published' = [o \in Object |-> IF o \in recent THEN index[o] ELSE Empty[o]]
    /\ UNCHANGED <<updates, invocations, held, lwm2m, index, overlap, lost, faults>>

ShadowNext ==
    \/ \E u \in 1..MaxUpdates :
          Convert(u) \/ Redeliver(u) \/ UpdateLwM2M(u) \/ LoseUpdate(u)
    \/ Index
    \/ \E recent \in SUBSET Object : Publish(recent)

-----------------------------------------------------------------------------
(* Properties.                                                             *)

\* The report a shadow has an object from.
ReportOf(shadow, o) == shadow[o]["99"]

\* Everywhere an object is as one report had it: resources of two reports are
\* never mixed, whatever order they come in and whatever each of them omits
\* (transformShadowUpdateToLwM2M: "Mark omitted properties as unset").
ObjectsAreOfOneReport ==
    \A shadow \in {lwm2m, index, published} : \A o \in Object :
        ReportOf(shadow, o) # Unset =>
            LET source == ReportOf(shadow, o)[2] IN
            \A r \in Resources[o] : shadow[o][r] =
                IF r \in Transform[source].has THEN ReportOf(shadow, o) ELSE Unset

\* When no update is under way, every object is from the last update that has
\* it, in this from the source with the latest timestamp; unless that one was
\* lost, or is overwritten by one that was handled after it.
RestIsLatest ==
    UnderWay = {} => \A o \in Object : \A u \in 1..Len(updates) :
        LET shown == ReportOf(lwm2m, o)
        IN SourcesOf(updates[u], o) # {} =>
              \/ shown = <<u, Latest(updates[u], o)>>
              \/ shown[1] > u
              \/ u \in lost \/ <<shown[1], u>> \in overlap

=============================================================================
