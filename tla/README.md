# A model of the thingy.rocks backend

TLA+ specifications of the serverless backend behind thingy.rocks: lambdas,
shadows and a gateway process that collect what IoT devices report and show it
to the browsers connected by WebSocket. The modules describe the code under
`src/`; TLC checks small instances of them and TLAPS proves the main results
for every instance. Section 6 says how to run both.

## 1. The system

| Component | State it keeps | Operations | Talks to |
|---|---|---|---|
| Client registry and notification (`lambda/onConnect.ts`, `onDisconnect.ts`, the PING branch of `onMessage.ts`, `notifyClients.ts`, `publishToWebsocketClients.ts`, `withDeviceAlias.ts`) | the connections table with its `ttl`; per lambda container a 60-second copy of the list of connections, and the alias cache | connect, ping, disconnect, expiry of a row, notify all clients, forget a client that is gone | API gateway (routes, `PostToConnection`), DynamoDB, IoT rules |
| Wirepas gateway bridge (`wirepas-5g-mesh-gateway/gateway.ts`, `cloudToGateway.ts`, `publish.ts`) | buffer of node messages, set of nodes already queried, throttle queue | receive, flush every minute, query LEDs, turn a shadow delta into commands and acknowledge it | mesh gateway by MQTT, the gateway's shadow |
| Wirepas payload decoder (`decodePayload.ts`, `ScannableArray.ts`) | none | decode TLV payloads and three special cases | bridge |
| NR+ sink (`lambda/parseSinkMessages.ts`, `nrplus/`) | per container and device a parser with its unfinished lines | parse a Kinesis batch, update the shadow for each message | Kinesis, shadow of the sink |
| Geolocation of network surveys (`onNewNetworkSurvey.ts`, `onNetworkSurveyLocated.ts`) | per container the 60-second list of clients; the survey table of another stack, positions in shadows | request the location of a survey while somebody listens, publish it, update the shadow | DynamoDB stream, geolocation API, EventBridge, registry, shadow service |
| Geolocation of cells (`resolveCellLocation.ts`, `onCellGeoLocationResolved.ts`) | the same list; positions in shadows | request the location of a cell, publish it, update the things in the cell | IoT rule, geolocation API, EventBridge, registry, index of things |
| LwM2M shadows (`lwm2m/`, `updatesToLwM2M.ts`, `publishLwM2MShadowsToJSON.ts`) | none of its own: a named shadow | convert an update to LwM2M objects, publish all shadows as a file | IoT rule, shadow service, index of things, S3 |
| Device control (`onMessage.ts`) | none | check the device's code, publish NR+ control or set a desired state | IoT topics, bridge |
| Memfault (`memfault.ts`, `memfaultPollForReboots.ts`) | none | export reboots to a file, poll for the reboot of a device and announce it | Memfault API, S3, registry |
| Chart summaries (`chartSummary.ts`, `publishSummaries.ts`) | none | every minute, query and publish | Timestream, registry |
| Lambda packaging (`cdk/commonParent.ts`, `findDependencies.ts`, `packLambda.ts`, `packLayer.ts`) | none | collect the files of a lambda | build |
| Wirepas bindings (`wirepas-5g-mesh-gateway/protobuf/ts/`) | none | create, read and write each of 32 types of messages | bridge |
| Infrastructure (`cdk/`), validation and listing helpers | none | | |

What makes each part hard, and what would make it correct:

- **Registry.** Any number of containers write and cache one table, calls fail
  or are retried, `$disconnect` may be lost, pings arrive late. It is correct
  if departed clients are not posted to for more than a bounded time, no
  registered one is skipped for longer, only clients that are gone are
  removed, and those that are gone are all forgotten in the end.
- **Bridge.** Nothing it sends is awaited or caught; deltas are acknowledged
  before the command is even published, and nobody learns of a command that
  does not arrive; messages of one flush window are merged. It is correct if
  LEDs, reported and desired state agree whenever nothing is on its way and
  nothing was lost, and if what was lost harms no other LED and no later process.
- **NR+ sink.** Lines are lost or overtake each other on the way to the
  stream, batches are sorted as text, messages span batches and containers,
  updates are not awaited. It is correct if it recovers from whatever is
  missing, and never shows a value of a message that did not arrive, or of
  another node, without such a disturbance.
- **Geolocation.** Lists of clients are stale, reads are stale, requests fail
  after they had their effect, events come twice, results are not valid. It is
  correct if each survey and cell is told and shown in the end, and only silence
  drops one.
- **LwM2M shadows.** Requests outlive their handlers, and the shadow merges
  what it is sent. Correct: an object is never a mixture of two reports, and
  the last report stays.
- **Bindings.** Presence of optional fields, repeated elements, fields of other
  versions. Correct: what was written is what is read.
- **Memfault, device control, decoder, packaging.** Retries of half-done work; a
  request that falls through to another branch; pure conversions.

`PROJECT.json` lists the hazards one by one, at their lines, with the
properties that cover them.

## 2. Modules

| Module | Contents |
|---|---|
| `ClientNotification` | the registry, its clients, its table and its containers |
| `MCClientNotification` | symmetry sets for TLC |
| `ClientNotificationProofs` | theorems and proofs about `ClientNotification` |
| `WirepasGateway` | the bridge, its shadow and its nodes |
| `MCWirepasGateway` | symmetry set for TLC |
| `WirepasGatewayProofs` | theorems and proofs about `WirepasGateway` |
| `NRPlusSink` | the way of console lines to the stream, the lambda with its parser, the shadows |
| `NodeReports` | what the sink promises: the abstract specification of `NRPlusSink` |
| `MCNRPlusSink` | a script of messages for TLC |
| `NRPlusParserProofs` | lemmas about the console, the order of a batch, and the parser |
| `NRPlusSinkProofs` | theorems and proofs about `NRPlusSink` |
| `NetworkSurveys` | the life of surveys, from the table to clients and shadow |
| `MCNetworkSurveys` | the device of the surveys for TLC |
| `NetworkSurveysProofs` | theorems and proofs about `NetworkSurveys` |
| `LwM2MShadow` | conversion of shadow updates, the shadow, the index and the file |
| `CellLocations` | the life of cells; extends `LwM2MShadow`, whose steps are among its own |
| `MCCellLocations` | contents of updates for TLC |
| `CellLocationsProofs` | theorems and proofs about `CellLocations`, and with it about `LwM2MShadow` |
| `WirepasMessages` | the bindings: tables of fields, reading and writing |
| `MCWirepasMessages` | types of messages for TLC |
| `WirepasMessagesProofs` | theorems and proofs about `WirepasMessages` |
| `LibraryLemmas` | lemmas about operators of the libraries: least and greatest numbers, elements of sequences, recursive functions on an interval, sorted listings |

### 2.1 ClientNotification

*State.* `rows`, `ttl` are the connections table. `cached`, `cacheAge` are
`lastResult` of `getActiveConnections` in each container. `phase`, `ev`,
`todo`, `tried`, `target`, `runFor` are a running `notifyClients`: it awaits
the device's alias, then the scan, then one post after another. `socket`,
`hello`, `pings`, `bye` are a client as the API gateway has it, with its
requests on their way. `stage`, `retries` are an event source: an IoT rule, or
the schedule of the summaries. `since` and `openFor` are history: they only
count ticks for the properties and no guard reads them.

*Actions.* Each route handler is one action, with a second one for a rejected
call: its only await is the call that writes the table. `notifyClients` is cut
at every await, because other handlers and other containers run in between:

| Code | Actions |
|---|---|
| `withDeviceAlias` awaits `DescribeThing`, then `getActive()` | `Invoke`, then `GetCached` or `StartScan` |
| `ScanCommand`: the table is read, the answer comes later | `ReadTable`, `ScanReturns` |
| one turn of the loop | `PostOk`, `UnknownContext` (the error thrown for an unknown event is caught in the same turn), `PostFails`, `PostGone` |
| `DeleteItem` after `GoneException`, then `continue` | `DeleteGone`, `DeleteGoneFails` |
| end of the loop | `Complete` |
| rejected promise, retry by the lambda service | `LookupFails`, `DeleteGoneFails`, `Kill`, through `Abort` |

*Time.* A `Tick` ages rows, caches and invocations by one; its length is not
specified. Ages stop at the largest value anything is compared with
(`Horizon` for `since`). `Tick` waits for an invocation that has reached the
lambda's timeout, so none outlives it. A row may be expired at any time after
its ttl is reached, which is all DynamoDB promises. Tick counts are smaller
than in the code (60 seconds, one hour, one minute) but keep their order: the
cache outlives an invocation, a row outlives the cache or equals it.

*Left out.* The event's text, the alias cache (it changes nothing but the
text), paging of the scan (a page holds some ten thousand rows), the
`dropMessage` parameter (no caller passes it). One source has one event
at a time on its way; concurrent events come from different sources.

*Properties.*

- `NoPostToDeparted`, `NoRegisteredClientSkipped`: a list of connections may be
  stale, but not by more than the cache time, the invocation that filled the
  cache and the invocation that uses it: `CacheFor + Timeout + runFor`. Any
  smaller bound is violated. The extra `Timeout` is there because
  `notifyClients.ts:187` stamps the list when the answer arrives, not when the
  table was read.
- `OpenClientKept`: a connected client loses its row only by its ttl, or by an
  invocation that met it before its handshake was complete.
- `GoneClientsAreForgotten`, `OpenClientsAreRegistered`, `EventsAreSettled`:
  liveness. The first one is what makes a lost `$disconnect` and a late PING
  harmless; the second one is not obvious either, because `ttl` is written by
  `$connect` only, so a client loses its row after an hour whatever it does,
  and has it back with its next PING.

*A disagreement with the code's own description.* `WebsocketAPI.ts:197` says
that the `onDisconnect` lambda "De-registers disconnected clients". A PING
handled after it re-creates the row, without a ttl, because `onMessage.ts:99`
updates without a condition. Run `late_ping` shows it
(`DisconnectedStayDeregistered`). The row goes when a later post is answered
by `GoneException`, which is why `GoneClientsAreForgotten` still holds.

### 2.2 WirepasGateway

*State.* `asked` is `ledState`, `buffered` and `buffer` are `nodes`,
`throttled` is the queue of `p-throttle` (one for queries and commands: both
functions come from the same `throttle`), `jobs` are the calls of `onDesired`
that wait at `await Promise.all(updates)` before their next node. `updates`
and `deltas` are requests to and events from the shadow, `sent` and `uplink`
commands to and messages from the nodes. `reported`, `desired` and `led` are
outside the process. An LED is a pair of a node and a colour.

*Actions.* `Receive`, `Flush`, `OnDelta` and `NextNode` are the callbacks of
the process, each up to its next await; `OnDelta` includes the acknowledgement
that is sent without waiting for `onDesired`. `PublishCommand` is the throttle
releasing one call. `Crash` stands for every unhandled rejection (a failing
flush, acknowledgement or publication, a delta without `nodes`, or one that
comes before `toState` is initialised), and for a kill: the buffer, the throttle and the
deltas are lost, and some of the requests on their way. `Restart` is the
operator: the README starts the process by `systemd-run` without a
restart policy.

*Outside.* The shadow applies requests in any order and publishes the
difference after each; a node reports an LED that has changed and answers
queries; deltas and commands (both QoS 1) may be delivered again.

*Losses.* Messages of the nodes may be lost in the mesh (`LoseMessage`), and so
may commands, or the gateway refuses them (`LoseCommand`). The process
subscribes to `gw-event/#` only (`gateway.ts:88`), so it never sees the gateway's
answer to a command, and sends none again; the delta it came from was acknowledged
long before (`cloudToGateway.ts:110`). The connection to the shadow may break
while the process lives (`Disconnect`): `cloudToGateway.ts:46` logs it, and with a
clean session the deltas on their way and those published meanwhile are gone. That
the SDK connects and subscribes again by itself is an assumption about code
outside the repository. All three share the bound `MaxLost`.

*Properties.* `RestIsDesired`, `RestIsReported`, `RestIsSettled` look at the
states in which nothing is on its way: LEDs, reported and desired state
agree. `LedsFollowDesired` is the same as liveness. They make exceptions, which
say how far a loss reaches:

- `missed`: LEDs of which the process running now, having asked their nodes, has
  missed a report, a command or a delta, because one was lost or
  because `merge({ new }, nodes[gwId])` at `gateway.ts:154` kept an older report of
  the same flush window (the values already in the buffer win over the new
  ones). Such an LED may stay off what is desired, and off what is reported, for
  as long as the process runs: after a lost command all of the shadow is in
  agreement, and only the LED is not. `RestIsDesired`, `RestIsReported` and
  `LedsFollowDesired` except these LEDs and no others, in no other process: `Crash`
  empties `missed`, so that the properties claim that the next process heals
  them. It does, because it queries each node once; the report it gets brings
  the difference back as a delta.
- `unheard`: a disconnect took a delta, and no update was accepted since. Each
  accepted update publishes the whole difference again. `RestIsSettled` excepts
  this state only: lost commands and reports never leave a delta.

The exception for `merge` is not for faults only. Without it TLC refutes
`RestIsDesired` with two nodes and no fault at all: a delta for both nodes is
waiting for the first node while a newer delta switches the second one, then the
older loop goes on and switches it back; both reports fall into one flush window,
the later one is dropped, and the shadow goes on reporting what is desired. No
comment or test says that any of these LEDs would be followed, so this is recorded
here and not as a finding. What was not missed heals by itself: a crash between
acknowledgement and publication, a second delivery, acknowledgements and
flushes in any order, and whatever was lost before the node was asked.

*A disagreement with a comment.* `publish.ts:27` says that commands are sent
"with MQTT QoS 2 so that they are delivered only once to the gateway"; the
publication at line 109 uses `{ qos: 1 }` (`Qos`). A second delivery of a command
is one of the faults of `leds`: the properties do not need that it is delivered once.

### 2.3 NRPlusSink and NodeReports

*State.* `passed`, `stream`, `batch`, `phase` are the rule, the Kinesis shard
and the one invocation it allows (`shardCount: 1`, `parallelizationFactor: 1`).
`buffer` is `lines` of each `StreamParser` of `parserInstance`. `updates` are
the `UpdateThingShadow` requests that `updateNodeData` does not wait for, and
`shown` is what the shadows have, as the number of the message each value is
from. `fed`, `since`, `parsed` and `disturbed` are history.

*Actions.* `Put` and `Lose` are the IoT rule: every line is put on its own, so
lines may overtake each other, and a put that fails goes to the topic of
errors. `Invoke` is the whole handler, which has no await: it sorts the
lines of each gateway (`LinesOf`, with the order of decimal counters as
text), takes each through `add`, and makes the requests. `Apply`, `Fail` are
the answers. A rejected request is not caught, so the process ends, with all
parsers and other requests, and the same batch comes again to a new container.
`Finish`: the handler is not async, therefore Lambda waits until
its event loop is empty before the next batch is handed over. `Recycle`
replaces an idle container.

*Data.* A script says which messages a gateway's console shows, and which node
and section each is about. A line is its place in a message; of the 13
lines of a PDC and the 4 of a PCC those are kept that decide what is reported,
in their order: the status before the node in a PCC, the node before the
payload in a PDC. Lines of no known message are among them (kind `log`). The
counter that a line is prefixed with is kept as its place in the order of
texts, for counters of up to four digits (`TextOrder`).

*Properties.* `RecoversAtOnce`: whatever broken messages leave in the buffer,
of two whole messages, with only unknown lines in between, the second is
found, and so is the first one a new parser is given. This is far from obvious
in `parseMessages`, which skips lines it does not expect: after a lost line it
puts lines of two messages together and takes both from the buffer.
`FoundUnlessDisturbed`: a message whose lines were all parsed is found, unless
a line of it or of an earlier message was disturbed: it was missing when a
later line was parsed, or went down with a parser. Only lines of messages the
parser knows count: a lost `log` line disturbs nothing.
`NoOldValueReturns`: a value gives way to an older one only within a batch,
whose updates overtake each other, or if lines of the older one came late. It
holds over retries as well: a rejected update may leave a value in the shadow
while the batch it is from is parsed again, by a parser that has lost the lines
of earlier batches and may put the lines of two messages together differently.
`RefinesReports`: the shadow is one of `NodeReports`, in which a value appears
for the node it is about and not before its message began. The parser does put
a value to another node when it takes two broken messages for one; in
`NodeReports` this needs a disturbance at or before the earlier one of the two
messages. One disturbance is enough in general: where two messages of a kind
follow each other, the loss of the last line of the first, and of nothing else,
lets the value of one be reported for the node of the other. In the order in which
a gateway prints messages (`messages.ts:7`: a PCC before each PDC) it takes
two, because what is left of one kind is taken from the buffer by the other.

*Left out.* Values (`ts`, temperatures), all fields but the node and the value,
the age limit of records (one day), several topics of one gateway.

### 2.4 NetworkSurveys

*State.* `row` and `stream` are the survey table of another stack and its
stream; `attempts` those of the record at its head. `cache`, `age` are
`lastResult` in the container of `onNewNetworkSurvey`, `scan` and `wait` the answer
of a scan that is on its way and the time since the table was read for it,
`listening` whether the
table of connections has a row (see `ClientNotification` for it). `located`
and `tries` are a survey's success event at `onNetworkSurveyLocated`,
cut at its awaits: `queued` until it has read the survey, `read` until clients
are notified, `told` until the shadow is updated. `shadow` is whose location
object 14201/1 of a device has. `heard`, `told`, `found`, `overlap`, `shown`
and `dropped` are history.

*Actions.* `onNewNetworkSurvey` is cut at the scan: `ReadTable` reads the table,
and `HandleRecord` has the list of clients, the switch on the record and the
request. The list is stamped when the answer comes (`GetActive`,
`notifyClients.ts:187`), up to `Timeout` after the reading, and is kept for
`CacheFor` from then. `RecordFails` is the failure of either, in which
the execution may have been started all the same. The source hands over one
record at a time and repeats it twice (`Retry`), so a record that fails holds
up those behind it. The role of this lambda lacks `iot:DescribeThing`
(`ResolveNetworkSurveyGeoLocation.ts:63`), which `withDeviceAlias` needs:
its notifications always fail (`Notify`). Clients learn the location from
`onNetworkSurveyLocated` (`ReadSurvey`, `Tell`, `UpdateShadow`), whose
failures (`EventFails`) include a stale read of the item: `GetItem` is
eventually consistent, and a survey without its location is an error.

*Properties.* `ToldAtRest`: nothing is lost between the two lambdas unless every
attempt fails, and nobody is told twice without a fault. `DroppedOnlyInSilence`: what is dropped is
dropped rightly, up to the age of the list and the time of the scan that gave it:
`CacheFor + Timeout`, for the reason given in 2.1. `NoLateOverwrite`: there is no
order of surveys in `onNetworkSurveyLocated`, which gives each location the
time of its update; but an older location replaces a newer one only if their
events were handled at the same time or one came again. `SurveysSettle`:
liveness, for the surveys behind one that was given up, too.

*A disagreement with the code's own messages.* `onNewNetworkSurvey.ts:84` returns
with "No geo location resolved for survey ..." if `unresolved === false`. Located
surveys have this value (`onNetworkSurveyLocated.ts:57`), those that were given up
have not: their record goes on to the request, the API answers with an error, the
lambda throws, and the record is tried until its attempts are used up, with the
records behind it waiting. Run `surveys_unresolved` shows it without any fault
(`UnresolvedAreLeft`). The stream recovers by its bound on attempts, which is
part of `SurveysSettle`.

*Left out.* Rows expire (a `REMOVE` record is skipped by the first
condition of the loop), and records are given up after ten minutes: the model
gives them up by their attempts only.

### 2.5 LwM2MShadow and CellLocations

*State.* `updates` are the updates of a device's shadow. Each goes to two rules:
one takes the update as it is (`invocations` of `updatesToLwM2M`), the other
the document that comes of it (`requests` to `resolveCellLocation`). `held` are
requests of handlers that have returned: `void updateShadow(...)`. `lwm2m`,
`index` and `published` are one object model at three places. `geo` is what
the geolocation API knows, `results` are the success events at
`onCellGeoLocationResolved`, `location` is object 14201/2 of the thing.

*Data.* A resource has as its value the report it is from: an update and a
source in it. Three sources stand for the transforms of the package
`proto-map`: the connection, and the two forms of the battery, which make the
same object with different resources. An update has the order of their
timestamps, which is what `objectsToShadow` sorts by.

*Actions.* `Convert` is the handler of `updatesToLwM2M`, `UpdateLwM2M` and
`LoseUpdate` the fate of its request, which is sent when the container is
thawed, or never. `Publish` is the lambda that writes the file, with the objects
that are recent enough. `Resolve`, `Skip` and `RequestFails` are
`resolveCellLocation`; `TellCell`, `UpdateThings` and `ResultFails` are
`onCellGeoLocationResolved`, cut at its notification. `TellCell` validates the
result first: one whose source (`SourceOf`) is not among those of `LocationSource`
throws, and uses up an attempt. The other fields of a result are taken to be valid.

*Properties.* `ObjectsAreOfOneReport`: in the shadow, the index and the file, an
object has the resources of one report, although the shadow merges what it is
sent and reports omit resources. `RestIsLatest`: when nothing is under
way, each object is from the last update that has it, and within it from the
later timestamp; except where the request was lost or the handling of updates
overlapped. `CellsAreTold`: between the two lambdas no location is lost whose
result is valid; the success event is not needed for a client that asks later, and
the request not by one that waits. Of a result that is not valid clients learn only
if they ask later, because the answer 200 to `resolveCellLocation` is not validated.

*Left out.* In `transformShadowUpdateToLwM2M` a transform that fails loses its
object (`null` is filtered out) and a match that throws is caught with the whole
update; either is taken to lose the whole update, as a rejected request does.

*A disagreement with a comment.* The comment at `onCellGeoLocationResolved.ts:73`
has an example of the event that is handled, with `"source":"nrfcloud"`. The schema
at line 64 takes `MCELL`, `SCELL` and `WIFI`, so this event throws on every attempt,
without any fault. One of the two cells of the runs has this source. `CellsAreTold`
excepts it; without that exception TLC refutes it.

*A disagreement with the tests.* `onCellGeoLocationResolved.ts:142` compares
the network of the resolved cell, `'ltem'` or `'nbiot'`, with what the
thing's shadow has, `'LTE-M'` or `'NB-IoT'` (`objectsToShadow.spec.ts:54`).
They are never equal: no thing ever gets the location of its cell. Run
`cells_unmatched` shows it without any fault (`ThingsInCellAreLocated`).

### 2.6 WirepasMessages

The bindings are 32 classes of one shape. So a class is a table of its fields
(plain, optional, repeated, submessage), and `create`, `internalBinaryRead` and
`internalBinaryWrite` are stated once for all tables. The state machine is a
peer that writes elements one by one (`Write`), each read into the message so
far; `Publish`, the one message the gateway makes itself; and
`Relay`, which writes the message and reads it back, through bindings that
lack one of its fields, as those of an older version would.

Reading and writing recur over the submessages. `Reading` and `Writing` are
functions of the level: what is read on level `d` has submessages of level
`d - 1`. `Levels` = 4 is the deepest there is (`GenericMessage`,
`WirepasMessage`, `GetConfigsResp`, `SinkReadConfig`, `NodeRole`), so nothing is
cut off. `Bytes` and `Object` are all wires and messages of a level whatever
their type, on which the functions are defined; `Wire` and `Message` those of
each type, which `TypeOK` is about.

*Property.* `NothingLost`: the message is always what reading the original wire
gives. This needs that optional fields are written although they have their
default and plain ones are not, that repeated scalars are read packed and
unpacked, that a submessage in pieces is merged, and that unknown fields are
kept and written again at every level.

*Left out.* Bytes: an element is a field number with its content, so lengths,
varints and malformed input do not occur. Enums are scalars. The `.proto` files
call some fields `required`; the bindings treat them as plain and do not write
them when they are 0 (`data_message.ts:275`), which a strict peer would refuse.
No command of the gateway has such a 0.

## 3. Runs

| Run | Instance | Shows |
|---|---|---|
| `clients` | 2 clients, 1 container, 1 event source, 1 fault | types, the two staleness bounds, `OpenClientKept` |
| `containers` | 1 client, 2 containers, a known and an unknown event source, 2 faults | the bounds when one container deletes what the other has cached |
| `liveness` | 1 client, 2 containers, 1 source, 2 faults | the three liveness properties |
| `late_ping` | 1 client, no fault | violation of `DisconnectedStayDeregistered` |
| `leds` | 1 node, 1 colour, 2 changes, a crash, a loss and a second delivery | `RestIs...` and `LedsFollowDesired` with every kind of fault |
| `mesh` | 2 nodes, 2 changes, process running for some time, no fault | `RestIsDesired`, `RestIsSettled` with overlapping loops |
| `lines` | 1 gateway, 6 messages of 11 lines, batches of up to 4, 2 faults | the five properties of the sink, refinement of `NodeReports` included |
| `surveys` | 2 surveys of 1 device, 2 attempts, 2 faults, scans of up to 1 tick | the properties of `NetworkSurveys`, liveness included |
| `surveys_unresolved` | as `surveys`, no fault | violation of `UnresolvedAreLeft` |
| `cells` | 2 cells, one with a source that is not valid, 2 updates of 5 contents, 2 attempts, 2 faults | the properties of `LwM2MShadow` and `CellLocations` |
| `cells_unmatched` | as `cells`, no fault | violation of `ThingsInCellAreLocated` |
| `wire` | every type of message but `WirepasMessage` itself, 2 elements, 1 level of submessages that are not empty, 1 relay | `NothingLost` |

*Bounds and why they are enough.* Clients do not interact except through
todo lists, which a second client fills and a container empties one by one: two clients are enough
to skip one because of another. Containers interact through the table only:
two are enough for one to delete what another has cached. The proofs of
section 5 remove these bounds for safety. `MaxPings` = 1 still lets a ping be
late; in `containers` and `liveness`, `MaxFaults` and `MaxRetries` allow a
retry, a retry that fails again, and the drop of an event (`clients` has no
retries: a failed event is dropped). In the bridge two changes are the least for an old
and a new delta to meet, and two nodes the least for a loop that waits; the
run with two nodes starts with all nodes asked and reported (`Warm`) and
without data messages (`Chatty` is false), which leaves the start-up to the run
with one node. `MaxQueue` bounds what is on its way on each side of the
process. One loss is enough for a command, a report or a delta of an LED to be
missed, in either process; any number is covered by the proofs. In `mesh` the system may come to rest, so deadlock is not checked
there. In `lines` the script ends, and in `wire` the relays do; in all other
runs deadlock is checked.

In `lines` the counters run from 8 to 18, so that the text sort puts lines
10 to 18 before those with 8 and 9 whenever a batch has both; 9 and 10 are the
two lines of one message. The script has two
nodes in turn, messages of both kinds one after the other, and one that reports
nothing; two lines at a time may be on the wire. Two faults are enough for
two losses to meet in one buffer, or a loss and a new container. Several
gateways share only the order of the stream and the failure of a container;
one is checked. In `surveys` two surveys of one device are the least
for one location to replace another. An event is tried twice in `surveys` and
`cells`, three times in the system, so that two faults can make all attempts
fail; what is said of the state at rest then excepts as many
faults as attempts, and no fewer. A list of clients is kept for one tick there, and
its scan takes up to another, so that the two times add up to more than each. In
`cells` two updates are the least for one to
overtake the other, and the contents are chosen so that they share an object
with different resources. In `wire` two elements are the least for one to come twice or
in two pieces; the cost of a third is mostly in the tables of 17 fields.

## 4. Fairness

*ClientNotification.* Weak fairness for a running invocation (the event loop
runs it, and a container does not sleep in the middle of it) and for the
route handlers; strong fairness for `Invoke`, because lambdas scale out, so a
queued event is not passed over for ever; weak fairness for `Publish`, because
`PublishSummaries.ts` schedules one every minute; for pings, because the web
application sends them periodically; and for time. No fairness for clients
that connect or leave, nor for faults, recycling or expiry.

*WirepasGateway.* Weak fairness for everything that is on its way (requests,
deltas, messages, and commands: one that is not lost is executed, and losses are
bounded), for the throttle, the flush interval and the
restart; strong fairness for the data a node sends, because the bound on the
queue may keep disabling it. None for changes of the desired state, crashes
and losses.

*NetworkSurveys.* Weak fairness for `ReadTable` and `HandleRecord`, because the stream hands over
its oldest record until it is handled or given up; for an execution of the state
machine, which ends one way or the other; and for the steps of an event's
handler. None for clients, surveys, time and failures: that a
failing record does not stop the stream follows from the bound on its attempts.

*The other modules* state no fairness: what they promise is safety, or a
state at rest.

## 5. Proofs

Six modules hold theorems of specifications, for every value of the constants
that the assumptions of the modules allow. These say that times, bounds and
attempts are natural numbers (and positive where the code has them so), that
"none" is no element of the set it is added to, that each survey has a device
and each cell a network and a source, that updates have one of the known contents, that
colours are finitely many, that a message's layout has its node and its value
among its lines, and that messages which show the same section are of one kind
(`SectionAssumption`: in `parseSinkMessages.ts:38`-`65` a PCC gives the status
and a PDC the button or the sensors), that types of messages have a table of
fields, and that the elements a peer writes are nested no deeper than those tables.
TLC evaluates all of them in the runs. The state spaces are not bounded by
anything TLC needs:
all numbers of clients, containers, nodes, colours, surveys, cells, updates,
gateways, messages, faults, attempts and relays are covered, and every length of a
queue or a wire.

| Theorem | Module | Property |
|---|---|---|
| `Invariance` | each of the six | the inductive invariant |
| `TypeCorrect` | `ClientNotificationProofs` | `TypeOK` |
| `DepartedNotPosted` | | `NoPostToDeparted` |
| `RegisteredServed` | | `NoRegisteredClientSkipped` |
| `OpenClientKeepsRow` | | `OpenClientKept`, an action property |
| `GatewayTypes` | `WirepasGatewayProofs` | `TypeOK` |
| `RestsAsDesired` | | `RestIsDesired` |
| `RestsAsReported` | | `RestIsReported` |
| `RestsSettled` | | `RestIsSettled` |
| `SinkTypes` | `NRPlusSinkProofs` | `TypeOK` |
| `RecoversAlways` | | `RecoversAtOnce` |
| `UndisturbedAreFound` | | `FoundUnlessDisturbed` |
| `NoOldValueComesBack` | | `NoOldValueReturns`, an action property |
| `Implementation` | | `RefinesReports`: `NRPlusSink` implements `NodeReports` |
| `SurveyTypes` | `NetworkSurveysProofs` | `TypeOK` |
| `LocatedSurveysAreTold` | | `ToldAtRest` |
| `OnlySilenceDrops` | | `DroppedOnlyInSilence`, an action property |
| `OnlyOverlapOverwrites` | | `NoLateOverwrite`, an action property |
| `CellTypes` | `CellLocationsProofs` | `TypeOK` |
| `ReportsAreNotMixed` | | `ObjectsAreOfOneReport` |
| `RestsOnLatest` | | `RestIsLatest` |
| `NoCellIsForgotten` | | `CellsAreTold` |
| `MessageTypes` | `WirepasMessagesProofs` | `TypeOK` |
| `NothingIsLost` | | `NothingLost` |
| `EveryMessageComesThrough` | | a theorem about the operators: writing, reading and relaying a message gives it back |
| `WhatIsReadHasItsType` | | a theorem about the operators: reading keeps the types of messages |

Every safety property that a passing run checks is proved.

### 5.1 ClientNotificationProofs

`NoPostToDeparted` is not inductive: a loop's list comes from
a cache, which comes from a scan, which reads the table earlier than its answer
arrives. `IInv` follows the list along that way. Whatever row has not changed
since the scan began is rightly on the answer (`ScanInv`: older than
`runFor`), on the cached list (`CacheInv`: older than `cacheAge + Timeout`),
and on the list of the loop (`ListInv`: older than
`CacheFor + Timeout + runFor`, the clients still to come and those already
tried taken together). All three are equivalences, so the same invariant gives
"nobody departed" and "nobody skipped". Each write of the table resets `since`
of the row it changes, so it makes the premises false (`BoundsRows`); a `Tick`
adds one to both sides of each comparison. `ClientInv` and `RunInv` say that a
connection about to be deleted was not open when the invocation met it, which
bounds `openFor` and gives `OpenClientKept`.

### 5.2 WirepasGatewayProofs

Nothing in the code compares an LED with the shadow, so what holds at rest must
be carried by what is on its way before. `LedIsFollowed`: of an LED whose node
was asked and which was not `missed`, there is a question (`Queried`), a
message, buffered value, request or delta with what it shows (`Said`, `Told`),
or a delta, job or command that will switch it (`Switched`), or all three
agree. It is inductive because each step that takes one of these away without
a successor, `LoseMessage`, `LoseCommand`, `Disconnect` or a `Receive` that drops,
counts the LED as missed if its node was asked (`MissFacts`), and because a
crash, after which nothing is asked, makes the premise false. `DeltaIsPending`: what
differs between desired and reported has a delta, a request, or a filled buffer
before it, or a disconnect has taken the delta (`unheard`); this is what makes
`RestIsSettled` hold whatever was missed. `UnsetIsLeft` covers LEDs that nobody has
ever set, for which only what the LED shows may be on its way. With empty queues
all alternatives but agreement are gone. Losses have no bound in these proofs.

### 5.3 NRPlusParserProofs and NRPlusSinkProofs

The properties are about a greedy parser and a buffer that survives batches,
so the invariant says what the parser does as a function of all lines it was
given (`fed`), not of its last batch:

- `Held`: the buffer has the lines of `fed` since the last reset, which came
  with the end of a message that the parser knows.
- `Matched`: for each definition, the lines that match it are its first parts,
  picked in order (`Picked`); a message that stands in the buffer in one
  piece is matched up to where it stands (`Reached`); lines of two messages
  are among them only if a line of the earlier one, or of one before, was missing
  (`Mixed`, which gives `NodeReports` its disturbance). No definition is matched
  in full (`Incomplete`).
- `Recovers`: `RecoversAtOnce` itself. By `Reached` a whole message that
  begins after a reset completes its definition with its last line, unless
  another one completes before, which takes a line of a message it knows.
- `InOrder`: as long as nothing was missed or lost up to a message, its lines and no
  others match, and it is found with its last one.
- `WholeFound`: what was found was given in full.

`StreamInv` says that a line is on its way to a parser once, `PhaseInv` that
the lines of a running batch are the last ones parsed (those a failure takes
back), `UpdatesInv` that each request has its reason in a message, or in a
disturbed line, `DisturbedInv` that what was missed has been recorded. That
these are inductive under `Invoke` is shown line by line: `AddKeepsParser` is
one call of `add`, and `ParseKeepsParser` takes it along a batch. A new parser
holds nothing, and every message that was begun and not found is then lost
(`NewParserHolds`).

`NoOldValueReturns` needs a second invariant, `NInv`, because a shadow may
show what only a failed attempt at the present batch has found. It is about the
line of each value that is shown or on its way (`ReportedInv`):

- `InPlace`: the line was parsed in an earlier batch; or it is of this one, and
  then so are all lines of its definition that follow it, in this order
  (`Completed`). So an attempt that begins with an empty parser, and meets the
  line, or one of the same part before it, completes a message just the same.
  This is `NotCompleted`, which rests on the parser being greedy: it has
  taken the first line that fits behind each line it has (`Greedy`, `Rising`).
- `BufferNotOlder`: the parser holds no older line of that part and kind, unless
  it came late. What a parser holds it held before the batch, or it is a line
  of the batch (`FromBatch`), which comes after those of earlier ones; if it is
  older all the same, it was missing when they were parsed, and is recorded as
  late (`LateInv`).
- `UpdatesNotOlder`: hence no update shows an older value that came before the
  batch either, unless it came late.

`Implementation` maps the steps: `Put` and `Lose` begin a message or stutter,
`Invoke`, `Fail` and `Recycle` are `Disturb`, `Apply` is `Report` or
`Misreport`, the rest stutters. Nothing in these proofs depends on which order
the lines of a batch are sorted in, only that the order tells any two counters
apart (`TextOrderInjective`).

### 5.4 NetworkSurveysProofs

`CacheIsYoung` relates the answer of a scan, and then the cached list, to the
time somebody has been listening. Both age by the same ticks: "nobody" in an answer
is wrong for no longer than its reading is past (`wait`, at most `Timeout`), and on
the list for no longer than the list is old and its scan may have taken (`age +
Timeout`). A list that is used is younger than `CacheFor`. `LocatedInHand`: a located survey is in the hands of its event,
or shown and told, or all attempts were used up by faults (`ToldPerFault`).
`OverlapIsKnown`: an event that is handled when a later survey of its device is
found is on `overlap`, so only such an event can put its location over the later
one.

### 5.5 CellLocationsProofs

The lemmas about the steps of `LwM2MShadow` come first, those about cells rest on
them. For the conversion, a lemma per operator: objects of an update, each from its
latest source and with every resource set or unset (`ReportFacts`), and what a
merge makes of them (`MergeFacts`). From these `OneReport` holds for the
shadow, the index and the file. `HandledIsShown` is `RestIsLatest` for the
updates that are no longer under way, `OverlapIsKnown` what a later update can
count on. `CellsAreInHand` says who has a cell until clients know of it: the
request of an update, an execution, or the success event; `AttemptsAreFaults`
that attempts are used up by faults only, except those of a request for a cell that
cannot be located and those of a result that is not valid.

### 5.6 WirepasMessagesProofs

`TypeOK` and `NothingLost` are inductive together; all the work is in the
operators. Three kinds of induction are needed, none of which the prover has, and
each is put in terms of what it has:

- *Over the levels.* There are five, so `EveryMessageComesThrough` is
  `LevelTrip`, from the level below to the next, used five times. `BytesByLevel`
  to `ElementsByLevel` show that the recursive functions are what their
  definitions say, by giving the value of each on every level.
- *Over the elements of a wire.* `Shortest`: of the wires for which a statement
  fails a shortest is empty, or one element longer than one for which it holds.
  From it `ReadConcat`: a wire may be cut anywhere and read piece by piece.
- *Over the fields of a message.* `ReadPieces`: if the piece of the wire that was
  written for a field sets that field of a message in which it is new, and no other,
  then the whole wire sets all of them. The pieces are found with
  `FlattenPrefixes`, which unfolds the fold of the library.

What remains is one field. `ReadWritten`: what was written for it, none, one or many
values, is read into it value by value; here it matters that a plain field with
its default is left out (and reading begins with the default), that an optional
one is not, that values of a repeated field come behind each other, and that a
submessage is merged into nothing. In bindings that lack the field, its elements
go behind what is unknown (`ReadUnknowns`), are written behind the
known fields, and are found there by these bindings (`MessageTrip`): as no
element of the field came before, they are read as they would have been in their
place. The proof holds for any set of fields lacked, at every level, where the
runs try one at a time.

`NothingLost` is kept by `Write` because reading one more element is the last
turn of the loop over the whole wire (`ReadOneMore`), and by `Relay` and
`Publish` by `EveryMessageComesThrough`. `WhatIsReadHasItsType` gives the types.

### 5.7 Only model-checked

The liveness properties: no backend proves them under fairness.

## 6. Running the checks

    tlc -workers 2 -config ClientNotification_clients.cfg MCClientNotification
    tlc -workers 2 -config WirepasGateway_leds.cfg MCWirepasGateway
    tlc -workers 2 -config NRPlusSink_lines.cfg MCNRPlusSink
    tlc -workers 2 -config NetworkSurveys_located.cfg MCNetworkSurveys
    tlc -workers 2 -config CellLocations_cells.cfg MCCellLocations
    tlc -workers 2 -config WirepasMessages_wire.cfg MCWirepasMessages
    tlapm LibraryLemmas.tla
    tlapm ClientNotificationProofs.tla
    tlapm WirepasGatewayProofs.tla
    tlapm NRPlusParserProofs.tla
    tlapm NRPlusSinkProofs.tla
    tlapm NetworkSurveysProofs.tla
    tlapm CellLocationsProofs.tla
    tlapm WirepasMessagesProofs.tla

`PROJECT.json` has for each run its configuration and properties, for each
definition the lines of code it stands for, and for each property a mutant of
a definition that makes TLC refute it. The mutants stand next to the
definition they change, marked as such; no specification uses them.

## 7. Plan

The modules of the plan are written, and their safety is proved. What could be
added, the most important first:

1. The NR+ control message of `onMessage`, with its answer, as an action of
   `NRPlusSink`.
2. The bound of one page of `ScanCommand` (`notifyClients.ts:175`), which would make
   the list of clients partial.
3. `decodePayload` on payloads that end inside an element.

## 8. Not modelled

- *Wirepas payload decoder* (`decodePayload.ts`, `ScannableArray.ts`): bytes to
  values, without state. `WirepasGateway` has the messages that come of it.
- *Memfault*: an export and a poller without state of their own; the
  announcement is an event like any other of `ClientNotification`. Its retries
  are listed as hazards.
- *Chart summaries*: their schedule and their notification are in
  `ClientNotification`; the query and the grouping of rows are not.
- *Device control*: PING and the desired state of LEDs are modelled; the NR+
  control message and the request for shadows are one call each.
- *Lambda packaging*: functions of the build.
- *CDK constructs, IAM and log groups* are declarations: the timeouts, retries,
  rules, ttl and permissions they configure are parameters or guards of the
  modules.
- *Options of the bindings* (`nanopb.ts`, `google/protobuf/descriptor.ts`):
  generated with the bindings, and read by no code of the program. Of the
  bindings themselves JSON, reflection and enums.
- `validateWithTypeBox` and `listThingsInGroup` are thin wrappers of libraries
  without state.

Wording, formatting and logging are left out everywhere.
