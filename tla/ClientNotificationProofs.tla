---------------------- MODULE ClientNotificationProofs ----------------------
(***************************************************************************)
(* Proofs that ClientNotification keeps its types and its safety           *)
(* properties, for any number of connections, containers and event         *)
(* sources and any times and bounds.                                       *)
(***************************************************************************)
EXTENDS ClientNotification, TLAPS

-----------------------------------------------------------------------------
(* The inductive invariant.                                                *)

\* Route requests in flight agree with the gateway's state.
ClientInv ==
    \A c \in Conn :
        /\ hello[c] => socket[c] \in {"connecting", "closed"}
        /\ bye[c] => socket[c] = "closed"
        /\ socket[c] # "open" => openFor[c] = 0

\* What an invocation has set up in each of its phases.  A client whose row
\* is being deleted has not been connected for longer than the invocation.
RunInv ==
    \A k \in Container :
        /\ phase[k] # "idle" => ev[k] \in Event
        /\ phase[k] \notin {"sending", "deleting"} => tried[k] = {}
        /\ phase[k] = "deleting" =>
             /\ target[k] \in Conn
             /\ socket[target[k]] = "open" => openFor[target[k]] <= runFor[k]

\* A cached list that may still be used is right about every row that
\* changed before the scan it came from was begun.
CacheInv ==
    \A k \in Container, c \in Conn :
        cacheAge[k] < CacheFor /\ since[c] > cacheAge[k] + Timeout
            => (c \in cached[k] <=> c \in rows)

\* So is the answer of a scan on its way to the handler.
ScanInv ==
    \A k \in Container, c \in Conn :
        phase[k] = "scanned" /\ since[c] > runFor[k]
            => (c \in todo[k] <=> c \in rows)

\* And so is the list a loop started from: the ids posted to and to come.
ListInv ==
    \A k \in Container, c \in Conn :
        phase[k] \in {"sending", "deleting"} /\ Settled(c, k)
            => (c \in rows <=> c \in todo[k] \cup tried[k])

IInv == TypeOK /\ ClientInv /\ RunInv /\ CacheInv /\ ScanInv /\ ListInv

-----------------------------------------------------------------------------
(* Lemmas about the helpers.                                               *)

\* The row of each client stays as it is, or has just come or gone.
RowsMoved ==
    \A d \in Conn : \/ since'[d] = since[d] /\ (d \in rows' <=> d \in rows)
                    \/ since'[d] = 0

LEMMA HorizonType == /\ Horizon \in Nat
                     /\ Horizon > Timeout
                     /\ Horizon >= CacheFor + Timeout
                     /\ CacheFor \in Nat /\ RowTTL \in Nat /\ Timeout \in Nat
                     /\ CacheFor > 0 /\ RowTTL > 0 /\ Timeout > 0
  BY TimesAssumption DEF Horizon

LEMMA LowerType == \A x, y \in Nat : Lower(x, y) \in 0..y /\ Lower(x, y) <= x
  BY DEF Lower

\* Every way to write the table keeps its types, and moves rows.
LEMMA TableWrite ==
  ASSUME TypeOK, NEW c \in Conn, PutRow(c) \/ TouchRow(c) \/ RemoveRow(c)
  PROVE  /\ rows' \in SUBSET Conn
         /\ ttl' \in [Conn -> (0..RowTTL) \cup {NoTTL}]
         /\ since' \in [Conn -> 0..Horizon]
         /\ RowsMoved
<1>1. since' \in [Conn -> 0..Horizon] /\ RowsMoved
  <2>1. CASE PutRow(c)
    BY <2>1, HorizonType DEF TypeOK, PutRow, SinceChanged, RowsMoved
  <2>2. CASE TouchRow(c)
    BY <2>2, HorizonType DEF TypeOK, TouchRow, SinceChanged, RowsMoved
  <2>3. CASE RemoveRow(c)
    BY <2>3, HorizonType DEF TypeOK, RemoveRow, SinceChanged, RowsMoved
  <2> QED BY <2>1, <2>2, <2>3
<1>2. rows' \in SUBSET Conn /\ ttl' \in [Conn -> (0..RowTTL) \cup {NoTTL}]
  <2>1. RowTTL \in 0..RowTTL BY HorizonType
  <2>2. CASE PutRow(c) BY <2>1, <2>2 DEF TypeOK, PutRow
  <2>3. CASE TouchRow(c) BY <2>3 DEF TypeOK, TouchRow
  <2>4. CASE RemoveRow(c) BY <2>4 DEF TypeOK, RemoveRow
  <2> QED BY <2>2, <2>3, <2>4
<1> QED BY <1>1, <1>2

\* A failed invocation leaves a free container and a well-typed queue.
LEMMA AbortType ==
  ASSUME TypeOK, RunInv, NEW k \in Container, phase[k] # "idle", Abort(k)
  PROVE  /\ stage' \in [Event -> {"none", "queued", "running"}]
         /\ retries' \in [Event -> 0..MaxRetries]
         /\ phase' = [phase EXCEPT ![k] = "idle"]
         /\ ev' = [ev EXCEPT ![k] = NoEvent]
         /\ todo' = [todo EXCEPT ![k] = {}]
         /\ tried' = [tried EXCEPT ![k] = {}]
         /\ target' = [target EXCEPT ![k] = NoConn]
         /\ runFor' = [runFor EXCEPT ![k] = 0]
<1>1. ev[k] \in Event BY DEF RunInv
<1>2. retries[ev[k]] \in 0..MaxRetries BY <1>1 DEF TypeOK
<1>3. CASE retries[ev[k]] < MaxRetries
  BY <1>1, <1>2, <1>3, BoundsAssumption DEF TypeOK, Abort, Rest
<1>4. CASE ~(retries[ev[k]] < MaxRetries)
  BY <1>1, <1>2, <1>4, BoundsAssumption DEF TypeOK, Abort, Rest
<1> QED BY <1>3, <1>4

LEMMA FaultType == TypeOK /\ Fault => faults' \in 0..MaxFaults
  BY BoundsAssumption DEF TypeOK, Fault

-----------------------------------------------------------------------------
(* Type correctness, by groups of actions.                                 *)

LEMMA TypeClient ==
  ASSUME TypeOK, NEW c \in Conn, ClientStep(c)
  PROVE  TypeOK'
<1> USE HorizonType, BoundsAssumption
<1>1. CASE Connect(c) BY <1>1 DEF TypeOK, Connect, tableVars, cacheVars, runVars, eventVars
<1>2. CASE OnConnect(c)
  <2>1. PutRow(c) BY <1>2 DEF OnConnect
  <2>2. /\ rows' \in SUBSET Conn
        /\ ttl' \in [Conn -> (0..RowTTL) \cup {NoTTL}]
        /\ since' \in [Conn -> 0..Horizon]
    BY <2>1, TableWrite
  <2> QED BY <1>2, <2>2 DEF TypeOK, OnConnect, cacheVars, runVars, eventVars
<1>3. CASE OnConnectFails(c)
  BY <1>3, FaultType DEF TypeOK, OnConnectFails, tableVars, cacheVars, runVars, eventVars
<1>4. CASE HandshakeDone(c) BY <1>4 DEF TypeOK, HandshakeDone, tableVars, cacheVars, runVars, eventVars
<1>5. CASE SendPing(c) BY <1>5 DEF TypeOK, SendPing, tableVars, cacheVars, runVars, eventVars
<1>6. CASE OnPing(c)
  <2>1. TouchRow(c) BY <1>6 DEF OnPing
  <2>2. /\ rows' \in SUBSET Conn
        /\ ttl' \in [Conn -> (0..RowTTL) \cup {NoTTL}]
        /\ since' \in [Conn -> 0..Horizon]
    BY <2>1, TableWrite
  <2>3. pings' \in [Conn -> 0..MaxPings] BY <1>6 DEF TypeOK, OnPing
  <2> QED BY <1>6, <2>2, <2>3 DEF TypeOK, OnPing, cacheVars, runVars, eventVars
<1>7. CASE OnPingFails(c)
  BY <1>7, FaultType DEF TypeOK, OnPingFails, tableVars, cacheVars, runVars, eventVars
<1>8. CASE Leave(c) BY <1>8 DEF TypeOK, Leave, tableVars, cacheVars, runVars, eventVars
<1>9. CASE OnDisconnect(c)
  <2>1. RemoveRow(c) BY <1>9 DEF OnDisconnect
  <2>2. /\ rows' \in SUBSET Conn
        /\ ttl' \in [Conn -> (0..RowTTL) \cup {NoTTL}]
        /\ since' \in [Conn -> 0..Horizon]
    BY <2>1, TableWrite
  <2> QED BY <1>9, <2>2 DEF TypeOK, OnDisconnect, cacheVars, runVars, eventVars
<1>10. CASE OnDisconnectFails(c)
  BY <1>10, FaultType DEF TypeOK, OnDisconnectFails, tableVars, cacheVars, runVars, eventVars
<1>11. CASE ExpireRow(c)
  <2>1. RemoveRow(c) BY <1>11 DEF ExpireRow
  <2>2. /\ rows' \in SUBSET Conn
        /\ ttl' \in [Conn -> (0..RowTTL) \cup {NoTTL}]
        /\ since' \in [Conn -> 0..Horizon]
    BY <2>1, TableWrite
  <2> QED BY <1>11, <2>2 DEF TypeOK, ExpireRow, clientVars, cacheVars, runVars, eventVars
<1> QED
  BY <1>1, <1>2, <1>3, <1>4, <1>5, <1>6, <1>7, <1>8, <1>9, <1>10, <1>11 DEF ClientStep

LEMMA TypeEvent ==
  ASSUME TypeOK, NEW e \in Event, Publish(e) \/ \E k \in Container : Invoke(k, e)
  PROVE  TypeOK'
<1>1. CASE Publish(e)
  BY <1>1 DEF TypeOK, Publish, clientVars, tableVars, cacheVars, runVars
<1>2. ASSUME NEW k \in Container, Invoke(k, e) PROVE TypeOK'
  BY <1>2, HorizonType DEF TypeOK, Invoke, Phase, clientVars, tableVars, cacheVars
<1> QED BY <1>1, <1>2

LEMMA TypeProgress ==
  ASSUME TypeOK, RunInv, NEW k \in Container, Progress(k)
  PROVE  TypeOK'
<1> USE HorizonType
<1>1. CASE GetCached(k)
  BY <1>1 DEF TypeOK, GetCached, LoopOver, Phase, clientVars, tableVars, cacheVars, eventVars
<1>2. CASE StartScan(k)
  BY <1>2 DEF TypeOK, StartScan, Phase, clientVars, tableVars, cacheVars, eventVars
<1>3. CASE ReadTable(k)
  BY <1>3 DEF TypeOK, ReadTable, Phase, clientVars, tableVars, cacheVars, eventVars
<1>4. CASE ScanReturns(k)
  BY <1>4 DEF TypeOK, ScanReturns, LoopOver, Phase, clientVars, tableVars, eventVars
<1>5. ASSUME NEW c \in Conn, PostOk(k, c) \/ UnknownContext(k, c) PROVE TypeOK'
  <2>1. NextClient(k, c) /\ UNCHANGED faults BY <1>5 DEF PostOk, UnknownContext
  <2> QED BY <2>1 DEF TypeOK, NextClient, clientVars, tableVars, cacheVars, eventVars
<1>6. ASSUME NEW c \in Conn, PostGone(k, c) PROVE TypeOK'
  BY <1>6 DEF TypeOK, PostGone, Phase, clientVars, tableVars, cacheVars, eventVars
<1>7. CASE DeleteGone(k)
  <2>1. target[k] \in Conn /\ RemoveRow(target[k]) BY <1>7 DEF DeleteGone, RunInv
  <2>2. /\ rows' \in SUBSET Conn
        /\ ttl' \in [Conn -> (0..RowTTL) \cup {NoTTL}]
        /\ since' \in [Conn -> 0..Horizon]
    BY <2>1, TableWrite
  <2> QED BY <1>7, <2>2 DEF TypeOK, DeleteGone, Phase, clientVars, cacheVars, eventVars
<1>8. CASE Complete(k)
  <2>1. ev[k] \in Event BY <1>8 DEF Complete, RunInv
  <2> QED BY <1>8, <2>1, BoundsAssumption
       DEF TypeOK, Complete, Rest, Phase, clientVars, tableVars, cacheVars
<1> QED BY <1>1, <1>2, <1>3, <1>4, <1>5, <1>6, <1>7, <1>8 DEF Progress

LEMMA TypeDisruption ==
  ASSUME TypeOK, RunInv, NEW k \in Container, Disruption(k)
  PROVE  TypeOK'
<1> USE HorizonType
<1>1. CASE LookupFails(k)
  <2>1. phase[k] # "idle" /\ Abort(k) /\ Fault BY <1>1 DEF LookupFails
  <2>2. /\ stage' \in [Event -> {"none", "queued", "running"}]
        /\ retries' \in [Event -> 0..MaxRetries]
        /\ phase' = [phase EXCEPT ![k] = "idle"]
        /\ ev' = [ev EXCEPT ![k] = NoEvent]
        /\ todo' = [todo EXCEPT ![k] = {}]
        /\ tried' = [tried EXCEPT ![k] = {}]
        /\ target' = [target EXCEPT ![k] = NoConn]
        /\ runFor' = [runFor EXCEPT ![k] = 0]
        /\ faults' \in 0..MaxFaults
    BY <2>1, AbortType, FaultType
  <2> QED BY <1>1, <2>2
       DEF TypeOK, LookupFails, Phase, clientVars, tableVars, cacheVars
<1>2. CASE DeleteGoneFails(k)
  <2>1. phase[k] # "idle" /\ Abort(k) /\ Fault BY <1>2 DEF DeleteGoneFails
  <2>2. /\ stage' \in [Event -> {"none", "queued", "running"}]
        /\ retries' \in [Event -> 0..MaxRetries]
        /\ phase' = [phase EXCEPT ![k] = "idle"]
        /\ ev' = [ev EXCEPT ![k] = NoEvent]
        /\ todo' = [todo EXCEPT ![k] = {}]
        /\ tried' = [tried EXCEPT ![k] = {}]
        /\ target' = [target EXCEPT ![k] = NoConn]
        /\ runFor' = [runFor EXCEPT ![k] = 0]
        /\ faults' \in 0..MaxFaults
    BY <2>1, AbortType, FaultType
  <2> QED BY <1>2, <2>2
       DEF TypeOK, DeleteGoneFails, Phase, clientVars, tableVars, cacheVars
<1>3. CASE Kill(k)
  <2>1. phase[k] # "idle" /\ Abort(k) /\ Fault BY <1>3 DEF Kill
  <2>2. /\ stage' \in [Event -> {"none", "queued", "running"}]
        /\ retries' \in [Event -> 0..MaxRetries]
        /\ phase' = [phase EXCEPT ![k] = "idle"]
        /\ ev' = [ev EXCEPT ![k] = NoEvent]
        /\ todo' = [todo EXCEPT ![k] = {}]
        /\ tried' = [tried EXCEPT ![k] = {}]
        /\ target' = [target EXCEPT ![k] = NoConn]
        /\ runFor' = [runFor EXCEPT ![k] = 0]
        /\ faults' \in 0..MaxFaults
    BY <2>1, AbortType, FaultType
  <2> QED BY <1>3, <2>2
       DEF TypeOK, Kill, Phase, clientVars, tableVars
<1>4. CASE Recycle(k)
  BY <1>4 DEF TypeOK, Recycle, clientVars, tableVars, runVars, eventVars
<1>5. ASSUME NEW c \in Conn, PostFails(k, c) PROVE TypeOK'
  BY <1>5, FaultType
     DEF TypeOK, PostFails, NextClient, clientVars, tableVars, cacheVars, eventVars
<1> QED BY <1>1, <1>2, <1>3, <1>4, <1>5 DEF Disruption

LEMMA TypeTick == TypeOK /\ Tick => TypeOK'
<1> SUFFICES ASSUME TypeOK, Tick PROVE TypeOK'
  OBVIOUS
<1> USE HorizonType
<1>1. runFor' \in [Container -> 0..Timeout]
  BY DEF TypeOK, Tick
<1>2. cacheAge' \in [Container -> 0..CacheFor]
  BY LowerType DEF TypeOK, Tick
<1>3. since' \in [Conn -> 0..Horizon]
  BY LowerType DEF TypeOK, Tick
<1>4. openFor' \in [Conn -> 0..(Timeout + 1)]
  <2>1. \A c \in Conn : Lower(openFor[c] + 1, Timeout + 1) \in 0..(Timeout + 1)
    <3>1. \A c \in Conn : openFor[c] + 1 \in Nat /\ Timeout + 1 \in Nat BY DEF TypeOK
    <3> QED BY <3>1, LowerType
  <2>2. 0 \in 0..(Timeout + 1) OBVIOUS
  <2> QED BY <2>1, <2>2, Zenon DEF Tick
<1>5. ttl' \in [Conn -> (0..RowTTL) \cup {NoTTL}]
  <2> SUFFICES ASSUME NEW c \in Conn
               PROVE  (IF ttl[c] \in 1..RowTTL THEN ttl[c] - 1 ELSE ttl[c])
                         \in (0..RowTTL) \cup {NoTTL}
    BY DEF Tick
  <2>1. ttl[c] \in (0..RowTTL) \cup {NoTTL} BY DEF TypeOK
  <2>2. CASE ttl[c] \in 1..RowTTL BY <2>2
  <2>3. CASE ttl[c] \notin 1..RowTTL BY <2>1, <2>3
  <2> QED BY <2>2, <2>3
<1> QED BY <1>1, <1>2, <1>3, <1>4, <1>5 DEF TypeOK, Tick, eventVars

LEMMA TypeStep == TypeOK /\ RunInv /\ [Next]_vars => TypeOK'
<1> SUFFICES ASSUME TypeOK, RunInv, [Next]_vars PROVE TypeOK'
  OBVIOUS
<1>1. CASE UNCHANGED vars
  BY <1>1 DEF TypeOK, vars, clientVars, tableVars, cacheVars, runVars, eventVars
<1>2. CASE Next
  BY <1>2, TypeClient, TypeEvent, TypeProgress, TypeDisruption, TypeTick DEF Next
<1> QED BY <1>1, <1>2

-----------------------------------------------------------------------------
(* The connections and the invocations.                                    *)

LEMMA ClientInvStep == TypeOK /\ ClientInv /\ [Next]_vars => ClientInv'
<1> SUFFICES ASSUME TypeOK, ClientInv, [Next]_vars PROVE ClientInv'
  OBVIOUS
<1>1. CASE UNCHANGED clientVars
  BY <1>1 DEF ClientInv, clientVars
<1>2. ASSUME NEW c \in Conn, ClientStep(c) PROVE ClientInv'
  <2>1. CASE Connect(c) \/ OnConnect(c) \/ OnConnectFails(c)
    BY <1>2, <2>1 DEF TypeOK, ClientInv, Connect, OnConnect, OnConnectFails
  <2>2. CASE HandshakeDone(c)
    BY <1>2, <2>2 DEF TypeOK, ClientInv, HandshakeDone
  <2>3. CASE SendPing(c) \/ OnPing(c) \/ OnPingFails(c)
    BY <1>2, <2>3 DEF TypeOK, ClientInv, SendPing, OnPing, OnPingFails
  <2>4. CASE Leave(c)
    BY <1>2, <2>4 DEF TypeOK, ClientInv, Leave
  <2>5. CASE OnDisconnect(c) \/ OnDisconnectFails(c)
    BY <1>2, <2>5 DEF TypeOK, ClientInv, OnDisconnect, OnDisconnectFails
  <2>6. CASE ExpireRow(c)
    BY <1>1, <2>6 DEF ExpireRow
  <2> QED BY <1>2, <2>1, <2>2, <2>3, <2>4, <2>5, <2>6 DEF ClientStep
<1>3. ASSUME NEW e \in Event, Publish(e) \/ \E k \in Container : Invoke(k, e)
      PROVE  UNCHANGED clientVars
  BY <1>3 DEF Publish, Invoke
<1>4. ASSUME NEW k \in Container, Progress(k) PROVE UNCHANGED clientVars
  BY <1>4 DEF Progress, GetCached, StartScan, ReadTable, ScanReturns, PostOk,
              UnknownContext, NextClient, PostGone, DeleteGone, Complete
<1>5. ASSUME NEW k \in Container, Disruption(k) PROVE UNCHANGED clientVars
  BY <1>5 DEF Disruption, LookupFails, DeleteGoneFails, Kill, Recycle, PostFails, NextClient
<1>6. CASE Tick
  BY <1>6 DEF TypeOK, ClientInv, Tick
<1>7. CASE UNCHANGED vars
  BY <1>1, <1>7 DEF vars
<1> QED BY <1>1, <1>2, <1>3, <1>4, <1>5, <1>6, <1>7 DEF Next

LEMMA RunInvStep == TypeOK /\ ClientInv /\ RunInv /\ [Next]_vars => RunInv'
<1> SUFFICES ASSUME TypeOK, ClientInv, RunInv, [Next]_vars PROVE RunInv'
  OBVIOUS
<1> USE HorizonType
<1> DEFINE NotOlder(c) == \/ socket[c] = "open" /\ openFor'[c] = openFor[c]
                          \/ openFor'[c] = 0
<1>1. ASSUME UNCHANGED runVars, \A c \in Conn : socket'[c] = "open" => NotOlder(c)
      PROVE  RunInv'
  BY <1>1 DEF TypeOK, RunInv, runVars
<1>2. ASSUME NEW c \in Conn, ClientStep(c) PROVE RunInv'
  <2>1. UNCHANGED runVars
    BY <1>2 DEF ClientStep, Connect, OnConnect, OnConnectFails, HandshakeDone, SendPing,
                OnPing, OnPingFails, Leave, OnDisconnect, OnDisconnectFails, ExpireRow
  <2>2. \A d \in Conn : socket'[d] = "open" => NotOlder(d)
    BY <1>2 DEF TypeOK, ClientInv, ClientStep, Connect, OnConnect, OnConnectFails,
                HandshakeDone, SendPing, OnPing, OnPingFails, Leave, OnDisconnect,
                OnDisconnectFails, ExpireRow, clientVars
  <2> QED BY <1>1, <2>1, <2>2
<1>3. ASSUME NEW e \in Event, Publish(e) PROVE RunInv'
  BY <1>3 DEF RunInv, Publish, clientVars, runVars
<1>4. ASSUME NEW e \in Event, NEW k \in Container, Invoke(k, e) PROVE RunInv'
  BY <1>4 DEF TypeOK, RunInv, Invoke, clientVars
<1>5. ASSUME NEW k \in Container, Progress(k) PROVE RunInv'
  <2>1. CASE GetCached(k)
    BY <2>1 DEF TypeOK, RunInv, GetCached, LoopOver, clientVars
  <2>2. CASE StartScan(k) \/ ReadTable(k)
    BY <2>2 DEF TypeOK, RunInv, StartScan, ReadTable, clientVars
  <2>3. CASE ScanReturns(k)
    BY <2>3 DEF TypeOK, RunInv, ScanReturns, LoopOver, clientVars
  <2>4. ASSUME NEW c \in Conn, PostOk(k, c) \/ UnknownContext(k, c) PROVE RunInv'
    BY <2>4 DEF TypeOK, RunInv, PostOk, UnknownContext, NextClient, clientVars
  <2>5. ASSUME NEW c \in Conn, PostGone(k, c) PROVE RunInv'
    BY <2>5 DEF TypeOK, RunInv, PostGone, clientVars
  <2>6. CASE DeleteGone(k)
    BY <2>6 DEF TypeOK, RunInv, DeleteGone, clientVars
  <2>7. CASE Complete(k)
    BY <2>7 DEF TypeOK, RunInv, Complete, Rest, clientVars
  <2> QED BY <1>5, <2>1, <2>2, <2>3, <2>4, <2>5, <2>6, <2>7 DEF Progress
<1>6. ASSUME NEW k \in Container, Disruption(k) PROVE RunInv'
  <2>1. CASE Recycle(k)
    BY <2>1 DEF TypeOK, RunInv, Recycle, clientVars, runVars
  <2>2. ASSUME NEW c \in Conn, PostFails(k, c) PROVE RunInv'
    BY <2>2 DEF TypeOK, RunInv, PostFails, NextClient, clientVars
  <2>3. CASE Abort(k) /\ phase[k] # "idle" /\ UNCHANGED clientVars
    <3>1. /\ phase' = [phase EXCEPT ![k] = "idle"]
          /\ ev' = [ev EXCEPT ![k] = NoEvent]
          /\ tried' = [tried EXCEPT ![k] = {}]
          /\ target' = [target EXCEPT ![k] = NoConn]
          /\ runFor' = [runFor EXCEPT ![k] = 0]
      BY <2>3, AbortType
    <3> QED BY <2>3, <3>1 DEF TypeOK, RunInv, clientVars
  <2> QED BY <1>6, <2>1, <2>2, <2>3 DEF Disruption, LookupFails, DeleteGoneFails, Kill
<1>7. CASE Tick
  <2> SUFFICES ASSUME NEW k \in Container, phase[k] = "deleting",
                      socket[target[k]] = "open"
               PROVE  openFor'[target[k]] <= runFor'[k]
    BY <1>7 DEF RunInv, Tick
  <2>1. target[k] \in Conn /\ openFor[target[k]] <= runFor[k] BY DEF RunInv
  <2>2. openFor[target[k]] \in Nat /\ runFor[k] \in Nat BY <2>1 DEF TypeOK
  <2>3. openFor'[target[k]] <= openFor[target[k]] + 1
    BY <1>7, <2>1, <2>2 DEF Tick, Lower
  <2>4. openFor'[target[k]] \in Nat
    BY <1>7, <2>1, <2>2 DEF Tick, Lower
  <2>5. runFor'[k] = runFor[k] + 1 BY <1>7 DEF Tick
  <2> QED BY <2>1, <2>2, <2>3, <2>4, <2>5
<1>8. CASE UNCHANGED vars
  BY <1>8 DEF RunInv, vars, clientVars, runVars
<1> QED BY <1>2, <1>3, <1>4, <1>5, <1>6, <1>7, <1>8 DEF Next

-----------------------------------------------------------------------------
(* The lists of connection ids are right about old enough rows.            *)

Bounds == CacheInv /\ ScanInv /\ ListInv

\* Rows that move while the lists stay have an age of 0, below every bound.
LEMMA BoundsRows ==
  ASSUME TypeOK, Bounds, RowsMoved,
         UNCHANGED <<cached, cacheAge, runFor, todo, tried>>,
         \A k \in Container : /\ phase'[k] = "scanned" => phase[k] = "scanned"
                              /\ phase'[k] \in {"sending", "deleting"}
                                    => phase[k] \in {"sending", "deleting"}
  PROVE  Bounds'
<1> USE HorizonType
<1>1. CacheInv'
  BY DEF TypeOK, Bounds, CacheInv, RowsMoved
<1>2. ScanInv'
  BY DEF TypeOK, Bounds, ScanInv, RowsMoved
<1>3. ListInv'
  BY DEF TypeOK, Bounds, ListInv, Settled, RowsMoved
<1> QED BY <1>1, <1>2, <1>3 DEF Bounds

\* The invocation of k goes on with its lists while the table stays.
LEMMA BoundsTurn ==
  ASSUME TypeOK, Bounds, NEW k \in Container,
         UNCHANGED <<tableVars, cacheVars, runFor>>,
         \A j \in Container \ {k} : UNCHANGED <<phase[j], todo[j], tried[j]>>,
         phase[k] \in {"sending", "deleting"},
         phase'[k] \in {"sending", "deleting"},
         todo'[k] \cup tried'[k] = todo[k] \cup tried[k]
  PROVE  Bounds'
<1> USE HorizonType
<1>1. CacheInv' BY DEF Bounds, CacheInv, tableVars, cacheVars
<1>2. ScanInv' BY DEF Bounds, ScanInv, tableVars
<1>3. ListInv'
  <2> SUFFICES ASSUME NEW j \in Container, NEW c \in Conn,
                      phase'[j] \in {"sending", "deleting"}, Settled(c, j)'
               PROVE  (c \in rows <=> c \in todo[j] \cup tried[j])'
    BY DEF ListInv
  <2>1. Settled(c, j) /\ rows' = rows BY DEF Settled, tableVars
  <2>2. phase[j] \in {"sending", "deleting"} OBVIOUS
  <2>3. c \in rows <=> c \in todo[j] \cup tried[j] BY <2>1, <2>2 DEF Bounds, ListInv
  <2>4. (todo[j] \cup tried[j])' = todo[j] \cup tried[j] OBVIOUS
  <2> QED BY <2>1, <2>3, <2>4
<1> QED BY <1>1, <1>2, <1>3 DEF Bounds

\* The container is idle, or between DescribeThing and the scan's answer.
LEMMA BoundsIdle ==
  ASSUME TypeOK, Bounds, NEW k \in Container,
         UNCHANGED tableVars,
         \A j \in Container \ {k} :
            UNCHANGED <<cached[j], cacheAge[j], phase[j], todo[j], tried[j], runFor[j]>>,
         \/ UNCHANGED <<cached[k], cacheAge[k]>>
         \/ cacheAge'[k] = CacheFor,
         phase'[k] \in {"idle", "alias", "active"}
  PROVE  Bounds'
<1> USE HorizonType
<1>1. CacheInv' BY DEF Bounds, CacheInv, tableVars
<1>2. ScanInv' BY DEF Bounds, ScanInv, tableVars
<1>3. ListInv' BY DEF Bounds, ListInv, Settled, tableVars
<1> QED BY <1>1, <1>2, <1>3 DEF Bounds

LEMMA BoundsClient ==
  ASSUME TypeOK, Bounds, NEW c \in Conn, ClientStep(c)
  PROVE  Bounds'
<1>1. UNCHANGED <<cached, cacheAge, runFor, todo, tried, phase>>
  BY DEF ClientStep, Connect, OnConnect, OnConnectFails, HandshakeDone, SendPing, OnPing,
         OnPingFails, Leave, OnDisconnect, OnDisconnectFails, ExpireRow, cacheVars, runVars
<1>2. RowsMoved
  <2>1. CASE UNCHANGED tableVars BY <2>1 DEF RowsMoved, tableVars
  <2>2. CASE PutRow(c) \/ TouchRow(c) \/ RemoveRow(c) BY <2>2, TableWrite
  <2> QED BY <2>1, <2>2
       DEF ClientStep, Connect, OnConnect, OnConnectFails, HandshakeDone, SendPing, OnPing,
           OnPingFails, Leave, OnDisconnect, OnDisconnectFails, ExpireRow
<1> QED BY <1>1, <1>2, BoundsRows

LEMMA BoundsProgress ==
  ASSUME TypeOK, RunInv, Bounds, NEW k \in Container, Progress(k)
  PROVE  Bounds'
<1> USE HorizonType
<1>1. CASE GetCached(k)
  <2>1. tried[k] = {} /\ tried' = tried BY <1>1 DEF RunInv, GetCached
  <2>2. /\ cacheAge[k] < CacheFor
        /\ todo' = [todo EXCEPT ![k] = cached[k]]
        /\ phase' = [phase EXCEPT ![k] = "sending"]
        /\ UNCHANGED <<tableVars, cacheVars, runFor>>
    BY <1>1 DEF GetCached, UseCache, LoopOver
  <2>3. CacheInv' BY <2>2 DEF Bounds, CacheInv, tableVars, cacheVars
  <2>4. ScanInv' BY <2>2 DEF TypeOK, Bounds, ScanInv, tableVars
  <2>5. \A c \in Conn : Settled(c, k) => (c \in rows <=> c \in cached[k])
    BY <2>2 DEF TypeOK, Bounds, CacheInv, Settled
  <2>6. ListInv'
    BY <2>1, <2>2, <2>5 DEF TypeOK, Bounds, ListInv, Settled, tableVars
  <2> QED BY <2>3, <2>4, <2>6 DEF Bounds
<1>2. CASE StartScan(k)
  BY <1>2, BoundsIdle DEF TypeOK, StartScan, cacheVars
<1>3. CASE ReadTable(k)
  <2>1. /\ todo' = [todo EXCEPT ![k] = rows]
        /\ phase' = [phase EXCEPT ![k] = "scanned"]
        /\ UNCHANGED <<tableVars, cacheVars, tried, runFor>>
    BY <1>3 DEF ReadTable
  <2>2. CacheInv' BY <2>1 DEF Bounds, CacheInv, tableVars, cacheVars
  <2>3. ScanInv' BY <2>1 DEF TypeOK, Bounds, ScanInv, tableVars
  <2>4. ListInv' BY <2>1 DEF TypeOK, Bounds, ListInv, Settled, tableVars
  <2> QED BY <2>2, <2>3, <2>4 DEF Bounds
<1>4. CASE ScanReturns(k)
  <2>1. /\ cached' = [cached EXCEPT ![k] = todo[k]]
        /\ cacheAge' = [cacheAge EXCEPT ![k] = 0]
        /\ phase' = [phase EXCEPT ![k] = "sending"]
        /\ UNCHANGED <<tableVars, tried, runFor>>
        /\ todo' = todo
    BY <1>4 DEF TypeOK, ScanReturns, LoopOver
  <2>2. \A c \in Conn : since[c] > runFor[k] => (c \in todo[k] <=> c \in rows)
    BY <1>4 DEF ScanReturns, Bounds, ScanInv
  <2>3. tried[k] = {} BY <1>4 DEF ScanReturns, RunInv
  <2>4. runFor[k] \in 0..Timeout /\ \A c \in Conn : since[c] \in Nat BY DEF TypeOK
  <2>5. CacheInv'
    BY <2>1, <2>2, <2>4 DEF TypeOK, Bounds, CacheInv, tableVars
  <2>6. ScanInv' BY <2>1 DEF TypeOK, Bounds, ScanInv, tableVars
  <2>7. \A c \in Conn : Settled(c, k) => since[c] > runFor[k] BY <2>4 DEF Settled
  <2>8. ListInv'
    BY <2>1, <2>2, <2>3, <2>7 DEF TypeOK, Bounds, ListInv, Settled, tableVars
  <2> QED BY <2>5, <2>6, <2>8 DEF Bounds
<1>5. ASSUME NEW c \in Conn, PostOk(k, c) \/ UnknownContext(k, c) PROVE Bounds'
  <2>1. phase[k] = "sending" /\ c \in todo[k] /\ NextClient(k, c)
    BY <1>5 DEF PostOk, UnknownContext
  <2>2. todo'[k] \cup tried'[k] = todo[k] \cup tried[k]
    BY <2>1 DEF TypeOK, NextClient
  <2> QED BY <2>1, <2>2, BoundsTurn DEF TypeOK, NextClient
<1>6. ASSUME NEW c \in Conn, PostGone(k, c) PROVE Bounds'
  <2>1. todo'[k] \cup tried'[k] = todo[k] \cup tried[k]
    BY <1>6 DEF TypeOK, PostGone
  <2> QED BY <1>6, <2>1, BoundsTurn DEF TypeOK, PostGone
<1>7. CASE DeleteGone(k)
  <2>1. RowsMoved BY <1>7, TableWrite DEF DeleteGone, RunInv
  <2> QED BY <1>7, <2>1, BoundsRows DEF TypeOK, DeleteGone, cacheVars
<1>8. CASE Complete(k)
  BY <1>8, BoundsIdle DEF TypeOK, Complete, Rest, cacheVars
<1> QED BY <1>1, <1>2, <1>3, <1>4, <1>5, <1>6, <1>7, <1>8 DEF Progress

LEMMA BoundsDisruption ==
  ASSUME TypeOK, RunInv, Bounds, NEW k \in Container, Disruption(k)
  PROVE  Bounds'
<1>1. CASE Recycle(k)
  BY <1>1, BoundsIdle DEF TypeOK, Recycle, runVars
<1>2. ASSUME NEW c \in Conn, PostFails(k, c) PROVE Bounds'
  <2>1. phase[k] = "sending" /\ c \in todo[k] /\ NextClient(k, c)
    BY <1>2 DEF PostFails
  <2>2. todo'[k] \cup tried'[k] = todo[k] \cup tried[k]
    BY <2>1 DEF TypeOK, NextClient
  <2> QED BY <2>1, <2>2, BoundsTurn DEF TypeOK, NextClient
<1>3. CASE /\ Abort(k) /\ phase[k] # "idle" /\ UNCHANGED tableVars
           /\ \/ UNCHANGED cacheVars
              \/ /\ cached' = [cached EXCEPT ![k] = {}]
                 /\ cacheAge' = [cacheAge EXCEPT ![k] = CacheFor]
  <2>1. /\ phase' = [phase EXCEPT ![k] = "idle"]
        /\ todo' = [todo EXCEPT ![k] = {}]
        /\ tried' = [tried EXCEPT ![k] = {}]
        /\ runFor' = [runFor EXCEPT ![k] = 0]
    BY <1>3, AbortType
  <2> QED BY <1>3, <2>1, BoundsIdle DEF TypeOK, cacheVars
<1> QED BY <1>1, <1>2, <1>3 DEF Disruption, LookupFails, DeleteGoneFails, Kill

LEMMA BoundsTick ==
  ASSUME TypeOK, Bounds, Tick
  PROVE  Bounds'
<1> USE HorizonType
<1>1. ASSUME NEW c \in Conn
      PROVE  /\ since[c] \in 0..Horizon /\ since'[c] \in 0..Horizon
             /\ since'[c] <= since[c] + 1
             /\ c \in rows' <=> c \in rows
  BY DEF TypeOK, Tick, Lower
<1>2. ASSUME NEW k \in Container
      PROVE  /\ cacheAge[k] \in 0..CacheFor
             /\ cacheAge'[k] < CacheFor => cacheAge'[k] = cacheAge[k] + 1
             /\ cached'[k] = cached[k] /\ todo'[k] = todo[k] /\ tried'[k] = tried[k]
             /\ phase'[k] = phase[k]
             /\ runFor[k] \in 0..Timeout
             /\ phase[k] # "idle" => runFor'[k] = runFor[k] + 1
  BY DEF TypeOK, Tick, Lower
<1>3. CacheInv'
  <2> SUFFICES ASSUME NEW k \in Container, NEW c \in Conn,
                      cacheAge'[k] < CacheFor, since'[c] > cacheAge'[k] + Timeout
               PROVE  c \in cached[k] <=> c \in rows
    BY <1>1, <1>2 DEF CacheInv
  <2>1. cacheAge[k] < CacheFor /\ since[c] > cacheAge[k] + Timeout
    BY <1>1, <1>2
  <2> QED BY <2>1 DEF Bounds, CacheInv
<1>4. ScanInv'
  <2> SUFFICES ASSUME NEW k \in Container, NEW c \in Conn,
                      phase[k] = "scanned", since'[c] > runFor'[k]
               PROVE  c \in todo[k] <=> c \in rows
    BY <1>1, <1>2 DEF ScanInv
  <2>1. since[c] > runFor[k] BY <1>1, <1>2
  <2> QED BY <2>1 DEF Bounds, ScanInv
<1>5. ListInv'
  <2> SUFFICES ASSUME NEW k \in Container, NEW c \in Conn,
                      phase[k] \in {"sending", "deleting"},
                      since'[c] >= CacheFor + Timeout + runFor'[k]
               PROVE  c \in rows <=> c \in todo[k] \cup tried[k]
    BY <1>1, <1>2 DEF ListInv, Settled
  <2>1. since[c] >= CacheFor + Timeout + runFor[k] BY <1>1, <1>2
  <2> QED BY <2>1 DEF Bounds, ListInv, Settled
<1> QED BY <1>3, <1>4, <1>5 DEF Bounds

LEMMA BoundsStep == TypeOK /\ RunInv /\ Bounds /\ [Next]_vars => Bounds'
<1> SUFFICES ASSUME TypeOK, RunInv, Bounds, [Next]_vars PROVE Bounds'
  OBVIOUS
<1>1. ASSUME NEW e \in Event, Publish(e) PROVE Bounds'
  BY <1>1, BoundsRows DEF Publish, RowsMoved, tableVars, cacheVars, runVars
<1>2. ASSUME NEW e \in Event, NEW k \in Container, Invoke(k, e) PROVE Bounds'
  BY <1>2, BoundsIdle DEF TypeOK, Invoke, cacheVars
<1>3. CASE UNCHANGED vars
  BY <1>3, BoundsRows DEF vars, RowsMoved, tableVars, cacheVars, runVars
<1> QED
  BY <1>1, <1>2, <1>3, BoundsClient, BoundsProgress, BoundsDisruption, BoundsTick DEF Next

-----------------------------------------------------------------------------
(* The theorems.                                                           *)

LEMMA InitIInv == Init => IInv
<1> SUFFICES ASSUME Init PROVE IInv
  OBVIOUS
<1> USE HorizonType, BoundsAssumption DEF Init
<1>1. TypeOK BY DEF TypeOK, Phase
<1>2. ClientInv BY DEF ClientInv
<1>3. RunInv BY DEF RunInv
<1>4. CacheInv BY DEF CacheInv
<1>5. ScanInv BY DEF ScanInv
<1>6. ListInv BY DEF ListInv
<1> QED BY <1>1, <1>2, <1>3, <1>4, <1>5, <1>6 DEF IInv

LEMMA StepIInv == IInv /\ [Next]_vars => IInv'
  BY TypeStep, ClientInvStep, RunInvStep, BoundsStep DEF IInv, Bounds

\* The inductive invariant holds in every reachable state: what each cached
\* list, scan and loop of notifyClients knows of the table is right up to an
\* age that getActiveConnections and the lambda's timeout determine.
THEOREM Invariance == Spec => []IInv
  BY InitIInv, StepIInv, PTL DEF Spec

\* Every variable keeps its type, whatever handlers and failures interleave.
THEOREM TypeCorrect == Spec => []TypeOK
<1>1. IInv => TypeOK BY DEF IInv
<1> QED BY <1>1, Invariance, PTL

\* notifyClients never has a client on its list whose row went longer ago
\* than the cache and two invocations can hide.
THEOREM DepartedNotPosted == Spec => []NoPostToDeparted
<1>1. IInv => NoPostToDeparted
  BY DEF IInv, ListInv, NoPostToDeparted
<1> QED BY <1>1, Invariance, PTL

\* An invocation of notifyClients that ends without a failure has tried
\* every client registered for that long.
THEOREM RegisteredServed == Spec => NoRegisteredClientSkipped
<1> DEFINE Served == \A k \in Container :
                       /\ phase[k] \in {"sending", "deleting"}
                       /\ phase'[k] = "idle"
                       /\ faults' = faults
                       => \A c \in rows : Settled(c, k) => c \in tried[k]
<1>1. IInv /\ [Next]_vars => Served
  <2> SUFFICES ASSUME IInv, [Next]_vars, NEW k \in Container,
                      phase[k] \in {"sending", "deleting"}, phase'[k] = "idle",
                      faults' = faults, NEW c \in rows, Settled(c, k)
               PROVE  c \in tried[k]
    OBVIOUS
  <2>1. c \in todo[k] \cup tried[k] BY DEF IInv, TypeOK, ListInv
  <2>2. Complete(k)
    <3>1. ~Fault BY DEF IInv, TypeOK, Fault
    <3>2. ASSUME NEW j \in Container, Disruption(j) PROVE FALSE
      BY <3>1, <3>2 DEF Disruption, LookupFails, DeleteGoneFails, Kill, PostFails,
                        Recycle, runVars
    <3>3. ASSUME NEW j \in Container, Progress(j) PROVE j = k /\ Complete(j)
      BY <3>3 DEF IInv, TypeOK, Progress, GetCached, StartScan, ReadTable, ScanReturns,
                  LoopOver, PostOk, UnknownContext, NextClient, PostGone, DeleteGone,
                  Complete, Rest
    <3>4. ASSUME NEW d \in Conn, ClientStep(d) PROVE phase' = phase
      BY <3>4 DEF ClientStep, Connect, OnConnect, OnConnectFails, HandshakeDone, SendPing,
                  OnPing, OnPingFails, Leave, OnDisconnect, OnDisconnectFails, ExpireRow,
                  runVars
    <3>5. ASSUME NEW e \in Event, Publish(e) \/ \E j \in Container : Invoke(j, e)
          PROVE  phase'[k] # "idle"
      BY <3>5 DEF IInv, TypeOK, Publish, Invoke, runVars
    <3>6. CASE Tick BY <3>6 DEF Tick
    <3>7. CASE UNCHANGED vars BY <3>7 DEF vars, runVars
    <3> QED BY <3>2, <3>3, <3>4, <3>5, <3>6, <3>7 DEF Next
  <2>3. todo[k] = {} BY <2>2 DEF Complete
  <2> QED BY <2>1, <2>3
<1>2. Served => [Served]_vars OBVIOUS
<1> QED BY <1>1, Invariance, PTL DEF Spec, NoRegisteredClientSkipped

\* A connected client loses its row only to the row's ttl, or to an
\* invocation that met the client before its handshake was complete.
THEOREM OpenClientKeepsRow == Spec => OpenClientKept
<1> DEFINE Kept == \A c \in Conn :
                     /\ socket[c] = "open" /\ socket'[c] = "open"
                     /\ c \in rows /\ c \notin rows'
                     => ttl[c] = 0 \/ openFor[c] <= Timeout
<1>1. IInv /\ [Next]_vars => Kept
  <2> SUFFICES ASSUME IInv, [Next]_vars, NEW c \in Conn,
                      socket[c] = "open", c \in rows, c \notin rows'
               PROVE  ttl[c] = 0 \/ openFor[c] <= Timeout
    OBVIOUS
  <2>1. ASSUME NEW d \in Conn, ClientStep(d) PROVE ttl[c] = 0
    <3>1. CASE OnDisconnect(d)
      BY <3>1 DEF OnDisconnect, RemoveRow, IInv, ClientInv
    <3>2. CASE ExpireRow(d)
      BY <3>2 DEF ExpireRow, RemoveRow
    <3>3. CASE rows \subseteq rows'
      BY <3>3
    <3> QED BY <2>1, <3>1, <3>2, <3>3
         DEF ClientStep, Connect, OnConnect, OnConnectFails, HandshakeDone, SendPing, OnPing,
             OnPingFails, Leave, OnDisconnectFails, PutRow, TouchRow, tableVars
  <2>2. ASSUME NEW k \in Container, Progress(k) PROVE openFor[c] <= Timeout
    <3>1. CASE DeleteGone(k)
      <4>1. target[k] = c BY <3>1 DEF DeleteGone, RemoveRow
      <4>2. openFor[c] <= runFor[k] BY <3>1, <4>1 DEF DeleteGone, IInv, RunInv
      <4>3. openFor[c] \in Nat /\ runFor[k] \in 0..Timeout BY DEF IInv, TypeOK
      <4> QED BY <4>2, <4>3, HorizonType
    <3>2. CASE rows' = rows BY <3>2
    <3> QED BY <2>2, <3>1, <3>2
         DEF Progress, GetCached, StartScan, ReadTable, ScanReturns, PostOk, UnknownContext,
             NextClient, PostGone, Complete, tableVars
  <2>3. ASSUME NEW k \in Container, Disruption(k) PROVE rows' = rows
    BY <2>3 DEF Disruption, LookupFails, DeleteGoneFails, Kill, Recycle, PostFails,
                NextClient, tableVars
  <2>4. ASSUME NEW e \in Event, Publish(e) \/ \E k \in Container : Invoke(k, e)
        PROVE  rows' = rows
    BY <2>4 DEF Publish, Invoke, tableVars
  <2>5. Tick \/ UNCHANGED vars => rows' = rows
    BY DEF Tick, vars, tableVars
  <2> QED BY <2>1, <2>2, <2>3, <2>4, <2>5 DEF Next
<1>2. Kept => [Kept]_vars OBVIOUS
<1> QED BY <1>1, Invariance, PTL DEF Spec, OpenClientKept
=============================================================================
