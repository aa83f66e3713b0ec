------------------------- MODULE ClientNotification -------------------------
(***************************************************************************)
(* The WebSocket side of the backend: the connections table, the lambdas   *)
(* that write it (onConnect, the PING branch of onMessage, onDisconnect),  *)
(* the time-to-live of its rows, and notifyClients, which every publishing *)
(* lambda uses to post an event to each registered client through a        *)
(* 60-second cache of the table kept in the lambda's container.            *)
(*                                                                         *)
(* Time is counted in ticks of unspecified length.  The API gateway, the   *)
(* table, the scheduling of the lambdas and the browsers are not part of   *)
(* the repository; they appear as their effect on the code's state.        *)
(***************************************************************************)
EXTENDS Naturals, FiniteSets

CONSTANTS
    Conn,           \* connection ids the API gateway may hand out
    Container,      \* lambda containers that run notifyClients
    Event,          \* sources of events: IoT rules, the summaries' schedule
    UnknownEvent,   \* those for which getEventContext returns null
    CacheFor,       \* ticks a cached scan is used for ("60 * 1000")
    RowTTL,         \* ticks from onConnect to the row's ttl ("60 * 60")
    Timeout,        \* ticks an invocation may take (the lambda's timeout)
    MaxRetries,     \* retries of a failed asynchronous invocation
    MaxPings,       \* bound: PING messages of one client in flight
    MaxFaults,      \* bound: failing calls and killed containers
    NoTTL,          \* a row without the ttl attribute, or no row
    NoConn, NoEvent \* "none"

ASSUME TimesAssumption ==
    /\ CacheFor \in Nat \ {0}
    /\ RowTTL \in Nat \ {0}
    /\ Timeout \in Nat \ {0}

ASSUME BoundsAssumption ==
    /\ MaxRetries \in Nat
    /\ MaxPings \in Nat \ {0}
    /\ MaxFaults \in Nat

ASSUME NoneAssumption ==
    /\ NoTTL \notin Nat
    /\ NoConn \notin Conn
    /\ NoEvent \notin Event
    /\ UnknownEvent \subseteq Event

VARIABLES
    socket,    \* per connection: where the API gateway has it
    hello,     \* per connection: its $connect request is in flight
    pings,     \* per connection: PING messages in flight
    bye,       \* per connection: its $disconnect request is in flight
    openFor,   \* history: ticks since the handshake ended, saturating
    rows,      \* the connections table: ids with a row
    ttl,       \* per connection: ticks until its row expires
    since,     \* history: ticks since its row appeared or went, saturating
    cached,    \* per container: lastResult.connectionIds
    cacheAge,  \* per container: age of lastResult; CacheFor: none usable
    phase,     \* per container: where its invocation is
    ev,        \* per container: the event of its invocation
    todo,      \* per container: connectionIds still to be posted to
    tried,     \* per container: connectionIds already posted to
    target,    \* per container: the id being deleted after GoneException
    runFor,    \* per container: ticks since the invocation began
    stage,     \* per event source: no event, event queued, event running
    retries,   \* per event source: failed invocations of its event
    faults     \* faults that may still happen

clientVars    == <<socket, hello, pings, bye, openFor>>
tableVars     == <<rows, ttl, since>>
cacheVars     == <<cached, cacheAge>>
runVars       == <<phase, ev, todo, tried, target, runFor>>
eventVars     == <<stage, retries>>
vars == <<clientVars, tableVars, cacheVars, runVars, eventVars, faults>>

Lower(S, T) == IF S < T THEN S ELSE T

\* The largest age any property compares with: a scan, a cached list and an
\* invocation that uses it to its last moment.
Horizon == CacheFor + 2 * Timeout

Phase == {"idle", "alias", "active", "scanned", "sending", "deleting"}

TypeOK ==
    /\ socket \in [Conn -> {"new", "connecting", "accepted", "open", "closed"}]
    /\ hello \in [Conn -> BOOLEAN]
    /\ pings \in [Conn -> 0..MaxPings]
    /\ bye \in [Conn -> BOOLEAN]
    /\ openFor \in [Conn -> 0..(Timeout + 1)]
    /\ rows \in SUBSET Conn
    /\ ttl \in [Conn -> (0..RowTTL) \cup {NoTTL}]
    /\ since \in [Conn -> 0..Horizon]
    /\ cached \in [Container -> SUBSET Conn]
    /\ cacheAge \in [Container -> 0..CacheFor]
    /\ phase \in [Container -> Phase]
    /\ ev \in [Container -> Event \cup {NoEvent}]
    /\ todo \in [Container -> SUBSET Conn]
    /\ tried \in [Container -> SUBSET Conn]
    /\ target \in [Container -> Conn \cup {NoConn}]
    /\ runFor \in [Container -> 0..Timeout]
    /\ stage \in [Event -> {"none", "queued", "running"}]
    /\ retries \in [Event -> 0..MaxRetries]
    /\ faults \in 0..MaxFaults

Init ==
    /\ socket = [c \in Conn |-> "new"]
    /\ hello = [c \in Conn |-> FALSE]
    /\ pings = [c \in Conn |-> 0]
    /\ bye = [c \in Conn |-> FALSE]
    /\ openFor = [c \in Conn |-> 0]
    /\ rows = {}
    /\ ttl = [c \in Conn |-> NoTTL]
    /\ since = [c \in Conn |-> Horizon]
    /\ cached = [k \in Container |-> {}]
    /\ cacheAge = [k \in Container |-> CacheFor]
    /\ phase = [k \in Container |-> "idle"]
    /\ ev = [k \in Container |-> NoEvent]
    /\ todo = [k \in Container |-> {}]
    /\ tried = [k \in Container |-> {}]
    /\ target = [k \in Container |-> NoConn]
    /\ runFor = [k \in Container |-> 0]
    /\ stage = [e \in Event |-> "none"]
    /\ retries = [e \in Event |-> 0]
    /\ faults = MaxFaults

\* A call that can fail does so at the expense of one fault.
Fault == faults > 0 /\ faults' = faults - 1

-----------------------------------------------------------------------------
(* The table.  A row is written whole by PutItem, in part by UpdateItem    *)
(* (which creates a missing row), and removed by DeleteItem or by its ttl. *)

SinceChanged(c, present) ==
    IF (c \in rows) = present THEN since ELSE [since EXCEPT ![c] = 0]

\* Mutant: the ttl in milliseconds, as Date.now() has it.
PutRow_Millis(c) ==
    /\ rows' = rows \cup {c}
    /\ ttl' = [ttl EXCEPT ![c] = 1000 * RowTTL]
    /\ since' = SinceChanged(c, TRUE)

PutRow(c) ==
    /\ rows' = rows \cup {c}
    /\ ttl' = [ttl EXCEPT ![c] = RowTTL]
    /\ since' = SinceChanged(c, TRUE)

TouchRow(c) ==
    /\ rows' = rows \cup {c}
    /\ since' = SinceChanged(c, TRUE)
    /\ UNCHANGED ttl

RemoveRow(c) ==
    /\ rows' = rows \ {c}
    /\ ttl' = [ttl EXCEPT ![c] = NoTTL]
    /\ since' = SinceChanged(c, FALSE)

-----------------------------------------------------------------------------
(* Clients and the three route handlers.                                   *)

Connect(c) ==
    /\ socket[c] = "new"
    /\ socket' = [socket EXCEPT ![c] = "connecting"]
    /\ hello' = [hello EXCEPT ![c] = TRUE]
    /\ UNCHANGED <<pings, bye, openFor, tableVars, cacheVars, runVars, eventVars, faults>>

\* onConnect: PutItem with lastSeen and ttl, then status 200.
OnConnect(c) ==
    /\ hello[c]
    /\ hello' = [hello EXCEPT ![c] = FALSE]
    /\ PutRow(c)
    /\ socket' = IF socket[c] = "connecting"
                 THEN [socket EXCEPT ![c] = "accepted"] ELSE socket
    /\ UNCHANGED <<pings, bye, openFor, cacheVars, runVars, eventVars, faults>>

\* PutItem rejects: the $connect route fails and the client is refused.
OnConnectFails(c) ==
    /\ hello[c]
    /\ Fault
    /\ hello' = [hello EXCEPT ![c] = FALSE]
    /\ socket' = [socket EXCEPT ![c] = "closed"]
    /\ UNCHANGED <<pings, bye, openFor, tableVars, cacheVars, runVars, eventVars>>

\* The gateway completes the handshake after the handler returned; until
\* then posting to the connection answers GoneException.
HandshakeDone(c) ==
    /\ socket[c] = "accepted"
    /\ socket' = [socket EXCEPT ![c] = "open"]
    /\ UNCHANGED <<hello, pings, bye, openFor, tableVars, cacheVars, runVars, eventVars, faults>>

SendPing(c) ==
    /\ socket[c] = "open"
    /\ pings[c] < MaxPings
    /\ pings' = [pings EXCEPT ![c] = @ + 1]
    /\ UNCHANGED <<socket, hello, bye, openFor, tableVars, cacheVars, runVars, eventVars, faults>>

\* Mutant: the update is conditional on an existing row.
OnPing_Conditional(c) ==
    /\ pings[c] > 0
    /\ pings' = [pings EXCEPT ![c] = @ - 1]
    /\ UNCHANGED <<socket, hello, bye, openFor, tableVars, cacheVars, runVars, eventVars, faults>>

\* onMessage, data = 'PING': UpdateItem SET lastSeen, without a condition.
OnPing(c) ==
    /\ pings[c] > 0
    /\ pings' = [pings EXCEPT ![c] = @ - 1]
    /\ TouchRow(c)
    /\ UNCHANGED <<socket, hello, bye, openFor, cacheVars, runVars, eventVars, faults>>

OnPingFails(c) ==
    /\ pings[c] > 0
    /\ Fault
    /\ pings' = [pings EXCEPT ![c] = @ - 1]
    /\ UNCHANGED <<socket, hello, bye, openFor, tableVars, cacheVars, runVars, eventVars>>

\* The client leaves or its network fails.  $disconnect is sent at best
\* effort, and only for a connection that was accepted.
Leave(c) ==
    /\ socket[c] \in {"connecting", "accepted", "open"}
    /\ socket' = [socket EXCEPT ![c] = "closed"]
    /\ openFor' = [openFor EXCEPT ![c] = 0]
    /\ \E sent \in BOOLEAN :
         /\ sent => socket[c] # "connecting"
         /\ bye' = [bye EXCEPT ![c] = sent]
    /\ UNCHANGED <<hello, pings, tableVars, cacheVars, runVars, eventVars, faults>>

OnDisconnect(c) ==
    /\ bye[c]
    /\ bye' = [bye EXCEPT ![c] = FALSE]
    /\ RemoveRow(c)
    /\ UNCHANGED <<socket, hello, pings, openFor, cacheVars, runVars, eventVars, faults>>

OnDisconnectFails(c) ==
    /\ bye[c]
    /\ Fault
    /\ bye' = [bye EXCEPT ![c] = FALSE]
    /\ UNCHANGED <<socket, hello, pings, openFor, tableVars, cacheVars, runVars, eventVars>>

\* timeToLiveAttribute: 'ttl'.
ExpireRow(c) ==
    /\ c \in rows
    /\ ttl[c] = 0
    /\ RemoveRow(c)
    /\ UNCHANGED <<clientVars, cacheVars, runVars, eventVars, faults>>

-----------------------------------------------------------------------------
(* Events and the invocations they cause.                                  *)

Publish(e) ==
    /\ stage[e] = "none"
    /\ stage' = [stage EXCEPT ![e] = "queued"]
    /\ UNCHANGED <<clientVars, tableVars, cacheVars, runVars, retries, faults>>

\* The handler starts; withDeviceAlias awaits DescribeThing first.
Invoke(k, e) ==
    /\ stage[e] = "queued"
    /\ phase[k] = "idle"
    /\ stage' = [stage EXCEPT ![e] = "running"]
    /\ phase' = [phase EXCEPT ![k] = "alias"]
    /\ ev' = [ev EXCEPT ![k] = e]
    /\ runFor' = [runFor EXCEPT ![k] = 0]
    /\ UNCHANGED <<clientVars, tableVars, cacheVars, todo, tried, target, retries, faults>>

\* The container is free again.
Rest(k) ==
    /\ phase' = [phase EXCEPT ![k] = "idle"]
    /\ ev' = [ev EXCEPT ![k] = NoEvent]
    /\ todo' = [todo EXCEPT ![k] = {}]
    /\ tried' = [tried EXCEPT ![k] = {}]
    /\ target' = [target EXCEPT ![k] = NoConn]
    /\ runFor' = [runFor EXCEPT ![k] = 0]

\* The handler's promise rejects, or the container dies: the invocation is
\* queued again until its retries are used up, then its event is dropped.
Abort(k) ==
    /\ LET e == ev[k] IN
         IF retries[e] < MaxRetries
         THEN /\ stage' = [stage EXCEPT ![e] = "queued"]
              /\ retries' = [retries EXCEPT ![e] = @ + 1]
         ELSE /\ stage' = [stage EXCEPT ![e] = "none"]
              /\ retries' = [retries EXCEPT ![e] = 0]
    /\ Rest(k)

\* lastResult.ts > Date.now() - 60 * 1000
UseCache(k) == cacheAge[k] < CacheFor

LoopOver(k, ids) ==
    /\ phase' = [phase EXCEPT ![k] = "sending"]
    /\ todo' = [todo EXCEPT ![k] = ids]

\* Mutant: using the cached list renews its timestamp.
GetCached_Sliding(k) ==
    /\ phase[k] = "alias"
    /\ UseCache(k)
    /\ LoopOver(k, cached[k])
    /\ cacheAge' = [cacheAge EXCEPT ![k] = 0]
    /\ UNCHANGED <<clientVars, tableVars, cached, ev, tried, target, runFor, eventVars, faults>>

\* DescribeThing answers; getActive() returns lastResult ...
GetCached(k) ==
    /\ phase[k] = "alias"
    /\ UseCache(k)
    /\ LoopOver(k, cached[k])
    /\ UNCHANGED <<clientVars, tableVars, cacheVars, ev, tried, target, runFor, eventVars, faults>>

\* ... or sends a ScanCommand.
StartScan(k) ==
    /\ phase[k] = "alias"
    /\ ~UseCache(k)
    /\ phase' = [phase EXCEPT ![k] = "active"]
    /\ UNCHANGED <<clientVars, tableVars, cacheVars, ev, todo, tried, target, runFor, eventVars, faults>>

\* The table is read ...
ReadTable(k) ==
    /\ phase[k] = "active"
    /\ phase' = [phase EXCEPT ![k] = "scanned"]
    /\ todo' = [todo EXCEPT ![k] = rows]
    /\ UNCHANGED <<clientVars, tableVars, cacheVars, ev, tried, target, runFor, eventVars, faults>>

\* ... and only when the answer arrives is lastResult set, with ts = now.
ScanReturns(k) ==
    /\ phase[k] = "scanned"
    /\ cached' = [cached EXCEPT ![k] = todo[k]]
    /\ cacheAge' = [cacheAge EXCEPT ![k] = 0]
    /\ LoopOver(k, todo[k])
    /\ UNCHANGED <<clientVars, tableVars, ev, tried, target, runFor, eventVars, faults>>

\* DescribeThing or ScanCommand rejects, which nothing in the handler catches.
LookupFails(k) ==
    /\ phase[k] \in {"alias", "active", "scanned"}
    /\ Fault
    /\ Abort(k)
    /\ UNCHANGED <<clientVars, tableVars, cacheVars>>

\* One turn of the loop that leaves the table alone.
NextClient(k, c) ==
    /\ todo' = [todo EXCEPT ![k] = @ \ {c}]
    /\ tried' = [tried EXCEPT ![k] = @ \cup {c}]
    /\ UNCHANGED <<clientVars, tableVars, cacheVars, phase, ev, target, runFor, eventVars>>

\* PostToConnection succeeds.
PostOk(k, c) ==
    /\ phase[k] = "sending" /\ c \in todo[k]
    /\ ev[k] \notin UnknownEvent
    /\ socket[c] = "open"
    /\ NextClient(k, c)
    /\ UNCHANGED faults

\* Mutant: every failure to post is taken for GoneException.
PostFails_Deletes(k, c) ==
    /\ phase[k] = "sending" /\ c \in todo[k]
    /\ ev[k] \notin UnknownEvent
    /\ Fault
    /\ phase' = [phase EXCEPT ![k] = "deleting"]
    /\ target' = [target EXCEPT ![k] = c]
    /\ todo' = [todo EXCEPT ![k] = @ \ {c}]
    /\ tried' = [tried EXCEPT ![k] = @ \cup {c}]
    /\ UNCHANGED <<clientVars, tableVars, cacheVars, ev, runFor, eventVars>>

\* It fails in any other way than GoneException: logged, next client.
PostFails(k, c) ==
    /\ phase[k] = "sending" /\ c \in todo[k]
    /\ ev[k] \notin UnknownEvent
    /\ Fault
    /\ NextClient(k, c)

\* context === null: the error is thrown and logged for every client.
UnknownContext(k, c) ==
    /\ phase[k] = "sending" /\ c \in todo[k]
    /\ ev[k] \in UnknownEvent
    /\ NextClient(k, c)
    /\ UNCHANGED faults

\* Mutant: the loop stays at the client that is gone.
PostGone_Again(k, c) ==
    /\ phase[k] = "sending" /\ c \in todo[k]
    /\ ev[k] \notin UnknownEvent
    /\ socket[c] # "open"
    /\ phase' = [phase EXCEPT ![k] = "deleting"]
    /\ target' = [target EXCEPT ![k] = c]
    /\ UNCHANGED <<clientVars, tableVars, cacheVars, ev, todo, tried, runFor, eventVars, faults>>

\* Mutant: GoneException is only logged.
PostGone_Logged(k, c) ==
    /\ phase[k] = "sending" /\ c \in todo[k]
    /\ ev[k] \notin UnknownEvent
    /\ socket[c] # "open"
    /\ NextClient(k, c)
    /\ UNCHANGED faults

\* GoneException: the client's row is to be deleted ...
PostGone(k, c) ==
    /\ phase[k] = "sending" /\ c \in todo[k]
    /\ ev[k] \notin UnknownEvent
    /\ socket[c] # "open"
    /\ phase' = [phase EXCEPT ![k] = "deleting"]
    /\ target' = [target EXCEPT ![k] = c]
    /\ todo' = [todo EXCEPT ![k] = @ \ {c}]
    /\ tried' = [tried EXCEPT ![k] = @ \cup {c}]
    /\ UNCHANGED <<clientVars, tableVars, cacheVars, ev, runFor, eventVars, faults>>

\* Mutant: "return" in the place of "continue".
DeleteGone_Returns(k) ==
    /\ phase[k] = "deleting"
    /\ RemoveRow(target[k])
    /\ stage' = [stage EXCEPT ![ev[k]] = "none"]
    /\ retries' = [retries EXCEPT ![ev[k]] = 0]
    /\ Rest(k)
    /\ UNCHANGED <<clientVars, cacheVars, faults>>

\* ... by an unconditional DeleteItem, then the loop continues.
DeleteGone(k) ==
    /\ phase[k] = "deleting"
    /\ RemoveRow(target[k])
    /\ phase' = [phase EXCEPT ![k] = "sending"]
    /\ target' = [target EXCEPT ![k] = NoConn]
    /\ UNCHANGED <<clientVars, cacheVars, ev, todo, tried, runFor, eventVars, faults>>

\* DeleteItem rejects inside the catch block: the whole loop is abandoned.
DeleteGoneFails(k) ==
    /\ phase[k] = "deleting"
    /\ Fault
    /\ Abort(k)
    /\ UNCHANGED <<clientVars, tableVars, cacheVars>>

Complete(k) ==
    /\ phase[k] = "sending" /\ todo[k] = {}
    /\ stage' = [stage EXCEPT ![ev[k]] = "none"]
    /\ retries' = [retries EXCEPT ![ev[k]] = 0]
    /\ Rest(k)
    /\ UNCHANGED <<clientVars, tableVars, cacheVars, faults>>

\* The container is lost in the middle of an invocation, or times out.
Kill(k) ==
    /\ phase[k] # "idle"
    /\ Fault
    /\ Abort(k)
    /\ cached' = [cached EXCEPT ![k] = {}]
    /\ cacheAge' = [cacheAge EXCEPT ![k] = CacheFor]
    /\ UNCHANGED <<clientVars, tableVars>>

\* An idle container is reclaimed, and its cache with it.
Recycle(k) ==
    /\ phase[k] = "idle" /\ UseCache(k)
    /\ cached' = [cached EXCEPT ![k] = {}]
    /\ cacheAge' = [cacheAge EXCEPT ![k] = CacheFor]
    /\ UNCHANGED <<clientVars, tableVars, runVars, eventVars, faults>>

-----------------------------------------------------------------------------
\* No invocation outlives its timeout.
Tick ==
    /\ \A k \in Container : phase[k] # "idle" => runFor[k] < Timeout
    /\ runFor' = [k \in Container |-> IF phase[k] = "idle" THEN 0 ELSE runFor[k] + 1]
    /\ cacheAge' = [k \in Container |-> Lower(cacheAge[k] + 1, CacheFor)]
    /\ since' = [c \in Conn |-> Lower(since[c] + 1, Horizon)]
    /\ openFor' = [c \in Conn |-> IF socket[c] = "open"
                                  THEN Lower(openFor[c] + 1, Timeout + 1) ELSE 0]
    /\ ttl' = [c \in Conn |-> IF ttl[c] \in 1..RowTTL THEN ttl[c] - 1 ELSE ttl[c]]
    /\ UNCHANGED <<socket, hello, pings, bye, rows, cached,
                   phase, ev, todo, tried, target, eventVars, faults>>

ClientStep(c) ==
    \/ Connect(c) \/ OnConnect(c) \/ OnConnectFails(c) \/ HandshakeDone(c)
    \/ SendPing(c) \/ OnPing(c) \/ OnPingFails(c)
    \/ Leave(c) \/ OnDisconnect(c) \/ OnDisconnectFails(c) \/ ExpireRow(c)

\* The steps by which an invocation goes on when no call fails.
Progress(k) ==
    \/ GetCached(k) \/ StartScan(k) \/ ReadTable(k) \/ ScanReturns(k)
    \/ \E c \in Conn : PostOk(k, c) \/ UnknownContext(k, c) \/ PostGone(k, c)
    \/ DeleteGone(k) \/ Complete(k)

Disruption(k) ==
    \/ LookupFails(k) \/ DeleteGoneFails(k) \/ Kill(k) \/ Recycle(k)
    \/ \E c \in Conn : PostFails(k, c)

Next ==
    \/ \E c \in Conn : ClientStep(c)
    \/ \E e \in Event : Publish(e) \/ \E k \in Container : Invoke(k, e)
    \/ \E k \in Container : Progress(k) \/ Disruption(k)
    \/ Tick

Spec == Init /\ [][Next]_vars

-----------------------------------------------------------------------------
(* Safety.                                                                 *)

\* c has been a row, or has been without one, for longer than a scan under
\* way, the cache filled from it and the invocation of k using it can last.
Settled(c, k) == since[c] >= CacheFor + Timeout + runFor[k]

\* An invocation never has a client on its list whose row went longer ago
\* than the cache and the two invocations involved can hide: the stale list
\* of getActiveConnections is stale for a bounded time only, whatever the
\* order of scans, disconnects, pings and restarts of containers.
NoPostToDeparted ==
    \A k \in Container, c \in Conn :
        phase[k] \in {"sending", "deleting"} /\ c \in todo[k] /\ Settled(c, k)
            => c \in rows

\* An invocation that ends without a failure has tried to post to every
\* client registered for that long: no client is left out because another
\* one was gone, could not be reached, or registered after the last scan.
NoRegisteredClientSkipped ==
    [][\A k \in Container :
         /\ phase[k] \in {"sending", "deleting"}
         /\ phase'[k] = "idle"
         /\ faults' = faults
         => \A c \in rows : Settled(c, k) => c \in tried[k]]_vars

\* The row of a connected client is removed by its ttl, or by an invocation
\* that met the client before its handshake was complete, and by nothing
\* else: a failing post never unsubscribes a client.
OpenClientKept ==
    [][\A c \in Conn :
         /\ socket[c] = "open" /\ socket'[c] = "open"
         /\ c \in rows /\ c \notin rows'
         => ttl[c] = 0 \/ openFor[c] <= Timeout]_vars

\* What the description of onDisconnect promises ("De-registers disconnected
\* clients"): a disconnected client without a row does not get one again.
DisconnectedStayDeregistered ==
    [][\A c \in Conn :
         socket[c] = "closed" /\ ~hello[c] /\ c \notin rows => c \notin rows']_vars

-----------------------------------------------------------------------------
(* Liveness.                                                               *)

\* Invocations go on and a free container picks up what is queued (lambdas
\* scale out, so none waits for another forever); route requests in flight
\* are handled; clients ping, and the summaries are published every minute,
\* again and again.  Nothing obliges a client to connect or to leave, a
\* container to be recycled or a call to fail.
Fairness ==
    /\ \A k \in Container : WF_vars(Progress(k))
    /\ \A e \in Event : SF_vars(\E k \in Container : Invoke(k, e))
    /\ \A e \in Event : WF_vars(Publish(e))
    /\ \A c \in Conn : /\ WF_vars(OnConnect(c)) /\ WF_vars(HandshakeDone(c))
                       /\ WF_vars(SendPing(c)) /\ WF_vars(OnPing(c))
                       /\ WF_vars(OnDisconnect(c))
    /\ WF_vars(Tick)

FairSpec == Spec /\ Fairness

\* Every client that is gone is forgotten: also when $disconnect was lost,
\* and when a late PING gave it a row that no ttl will ever remove.
GoneClientsAreForgotten ==
    \A c \in Conn : <>[](socket[c] = "closed" => c \notin rows)

\* A client that stays connected and pings ends up with a row for good,
\* although its ttl is never renewed and a post sent before its handshake
\* was complete may remove it.
OpenClientsAreRegistered ==
    \A c \in Conn : <>[](socket[c] = "open" => c \in rows)

\* Every event queued is eventually done with, or dropped after its retries.
EventsAreSettled ==
    \A e \in Event : stage[e] = "queued" ~> stage[e] = "none"
=============================================================================
