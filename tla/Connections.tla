------------------------------ MODULE Connections ------------------------------
(* The websocket connections of one instance of CitrineOS and one tenant:     *)
(* WebsocketNetworkConnection.ts with the filters of its authenticator, and   *)
(* registerConnection and deregisterConnection of the router.                 *)
(*                                                                            *)
(* A station is known in four places: the namespace "conn" of the cache, the  *)
(* map _identifierConnections, the bindings of the queue of the instance, and *)
(* isOnline in the database. They are changed in several awaits, while the    *)
(* station drops its socket, opens another one, or is disconnected by an      *)
(* administrator.                                                             *)
(*                                                                            *)
(* Modelled: every socket from its upgrade request to its end; the sockets of *)
(* one station overlap. Removing an entry of the cache is one step with the   *)
(* synchronous part of _handleWebsocketClose: commands of one client reach    *)
(* the cache in their order. The ping of a socket whose peer answers renews   *)
(* its entry in time. Not modelled: a second instance on the same cache, and  *)
(* the shutdown, which is a close of every socket.                            *)
EXTENDS Naturals, FiniteSets

CONSTANTS
    Stations,
    Sockets,          \* attempts of the stations to connect
    StationOf,        \* the station of each socket
    MaxStations,      \* maxChargingStations of the tenant
    MaxAdmin,         \* bound: how often an administrator disconnects a station
    NoSocket,
    Admin             \* stands for the administrator as who begins a deregistration

ASSUME StationOfAssumption == StationOf \in [Sockets -> Stations]
ASSUME StationsAssumption == IsFiniteSet(Stations)
ASSUME NoSocketAssumption == NoSocket \notin Sockets
ASSUME AdminAssumption == Admin \notin Sockets
ASSUME MaxStationsAssumption == MaxStations \in Nat \ {0}
ASSUME MaxAdminAssumption == MaxAdmin \in Nat

VARIABLES
    phase,      \* how far each socket is
    gone,       \* sockets that closed before a close listener was attached
    entry,      \* cache: the socket whose entry a station has
    conns,      \* _identifierConnections
    count,      \* _tenantConnectionCounts of the tenant
    subscribing,\* what registerConnection still has to do for a socket
    bound,      \* stations whose calls are bound to the queue of the instance
    online,     \* stations whose isOnline is true
    dereg,      \* deregistrations under way: [station, by, step]
    admins,
    raced,      \* history: sockets registered beside a deregistration of another
    failed      \* history: stations a registration or deregistration of which failed

vars == <<phase, gone, entry, conns, count, subscribing, bound, online, dereg,
          admins, raced, failed>>

Phases == {"new", "upgraded", "replacing", "registering", "open",
           "closing", "closed"}
Parts == {"bind", "online"}
Deregistrations == [station : Stations, by : Sockets \union {Admin},
                    step : {"offline", "unbind"}]

\* Sockets the server may still hear of.
Listening(k) == phase[k] \in {"open", "closing"} /\ k \notin gone

Init ==
    /\ phase = [k \in Sockets |-> "new"]
    /\ gone = {}
    /\ entry = [s \in Stations |-> NoSocket]
    /\ conns = [s \in Stations |-> NoSocket]
    /\ count = 0
    /\ subscribing = [k \in Sockets |-> {}]
    /\ bound = {}
    /\ online = {}
    /\ dereg = {}
    /\ admins = 0
    /\ raced = {}
    /\ failed = {}

Becomes(k, p) == phase' = [phase EXCEPT ![k] = p]

-------------------------------------------------------------------------------
(* Connecting                                                                 *)

\* _upgradeRequest: no broker, or a filter of the authenticator refuses; the filter
\* of connected stations refuses a station that has an entry.
Upgrade(k) ==
    /\ phase[k] = "new"
    /\ \/ entry[StationOf[k]] = NoSocket /\ Becomes(k, "upgraded")
       \/ Becomes(k, "closed")
    /\ UNCHANGED <<gone, entry, conns, count, subscribing, bound, online, dereg,
                   admins, raced, failed>>

Deregister(s, k) == [station |-> s, by |-> k, step |-> "offline"]

\* Mutant: the closing is counted twice.
MutantCountsTwice(s, k) ==
    /\ conns' = [conns EXCEPT ![s] = NoSocket]
    /\ count' = count - 2
    /\ entry' = [entry EXCEPT ![s] = NoSocket]
    /\ dereg' = dereg \union {Deregister(s, k)}

\* Mutant: the connection is forgotten here, but not in the router.
MutantNoDeregister(s, k) ==
    /\ conns' = [conns EXCEPT ![s] = NoSocket]
    /\ count' = IF count <= 1 THEN 0 ELSE count - 1
    /\ entry' = [entry EXCEPT ![s] = NoSocket]
    /\ UNCHANGED dereg

\* _handleWebsocketClose: forget the station, and start to deregister it.
HandleClose(s, k) ==
    /\ conns' = [conns EXCEPT ![s] = NoSocket]
    /\ count' = IF count <= 1 THEN 0 ELSE count - 1
    /\ entry' = [entry EXCEPT ![s] = NoSocket]
    /\ dereg' = dereg \union {Deregister(s, k)}

\* Mutant: the stale socket keeps its close listener, which will run later.
MutantKeepListener(k) ==
    LET s == StationOf[k] IN
    /\ phase[k] = "upgraded"
    /\ count < MaxStations
    /\ conns[s] # NoSocket
    /\ phase' = [phase EXCEPT ![k] = "replacing", ![conns[s]] = "closing"]
    /\ gone' = gone \ {conns[s]}
    /\ HandleClose(s, k)
    /\ UNCHANGED <<subscribing, bound, online, admins, raced, failed>>

\* _onConnection, a stale socket of the station is replaced: its close listener is
\* detached, it is terminated, and its closing is waited for.
Replace(k) ==
    LET s == StationOf[k] IN
    /\ phase[k] = "upgraded"
    /\ count < MaxStations
    /\ conns[s] # NoSocket
    /\ phase' = [phase EXCEPT ![k] = "replacing", ![conns[s]] = "closed"]
    /\ HandleClose(s, k)
    /\ UNCHANGED <<gone, subscribing, bound, online, admins, raced, failed>>

\* Mutant: cache.set instead of cache.setIfNotExist.
MutantOverwrite(k) ==
    /\ entry' = [entry EXCEPT ![StationOf[k]] = k]
    /\ subscribing' = [subscribing EXCEPT ![k] = Parts]
    /\ Becomes(k, "registering")
    /\ UNCHANGED raced

\* setIfNotExist, and the start of registerConnection, whose parts run side by side.
Claim(k) ==
    LET s == StationOf[k] IN
    IF entry[s] = NoSocket
    THEN /\ entry' = [entry EXCEPT ![s] = k]
         /\ subscribing' = [subscribing EXCEPT ![k] = Parts]
         /\ Becomes(k, "registering")
         /\ raced' = IF \E d \in dereg : d.station = s /\ d.by # k
                     THEN raced \union {k} ELSE raced
    ELSE Becomes(k, "closed") /\ UNCHANGED <<entry, subscribing, raced>>

\* _onConnection, no stale socket: the entry is claimed in the same step. A station
\* that is unknown is sent away, and one whose tenant has all the connections it may.
Admit(k) ==
    /\ phase[k] = "upgraded"
    /\ \/ count < MaxStations /\ conns[StationOf[k]] = NoSocket /\ Claim(k)
       \/ Becomes(k, "closed") /\ UNCHANGED <<entry, subscribing, raced>>
    /\ UNCHANGED <<gone, conns, count, bound, online, dereg, admins, failed>>

\* Mutant: the closing of the stale socket is not waited for.
MutantNoAwait(k) ==
    /\ phase[k] = "replacing"
    /\ Claim(k)
    /\ UNCHANGED <<gone, conns, count, bound, online, dereg, admins, failed>>

\* The stale socket is gone and the station deregistered: the entry is claimed, with
\* no other look at the connections there are by now.
Replaced(k) ==
    /\ phase[k] = "replacing"
    /\ \A d \in dereg : d.by # k
    /\ Claim(k)
    /\ UNCHANGED <<gone, conns, count, bound, online, dereg, admins, failed>>

\* A part of registerConnection is done: the bindings, or isOnline.
Subscribe(k, p) ==
    /\ p \in subscribing[k]
    /\ subscribing' = [subscribing EXCEPT ![k] = @ \ {p}]
    /\ IF p = "bind"
       THEN bound' = bound \union {StationOf[k]} /\ UNCHANGED online
       ELSE online' = online \union {StationOf[k]} /\ UNCHANGED bound
    /\ UNCHANGED <<phase, gone, entry, conns, count, dereg, admins, raced, failed>>

\* A part fails: the entry is removed and the socket closed; what the other part does
\* is not undone.
RegistrationFails(k, p) ==
    /\ phase[k] = "registering"
    /\ p \in subscribing[k]
    /\ subscribing' = [subscribing EXCEPT ![k] = @ \ {p}]
    /\ entry' = [entry EXCEPT ![StationOf[k]] = NoSocket]
    /\ Becomes(k, "closed")
    /\ failed' = failed \union {StationOf[k]}
    /\ UNCHANGED <<gone, conns, count, bound, online, dereg, admins, raced>>

\* The station is registered: the socket gets its listeners.
Open(k) ==
    /\ phase[k] = "registering"
    /\ subscribing[k] = {}
    /\ conns' = [conns EXCEPT ![StationOf[k]] = k]
    /\ count' = count + 1
    /\ Becomes(k, "open")
    /\ UNCHANGED <<gone, entry, subscribing, bound, online, dereg, admins, raced, failed>>

-------------------------------------------------------------------------------
(* Disconnecting                                                              *)

\* The peer closes while the server is not listening yet: the event is lost.
CloseUnheard(k) ==
    /\ phase[k] \in {"upgraded", "replacing", "registering"}
    /\ k \notin gone
    /\ gone' = gone \union {k}
    /\ UNCHANGED <<phase, entry, conns, count, subscribing, bound, online, dereg,
                   admins, raced, failed>>

\* The close event: the peer closed, there was an error, or no pong came.
Close(k) ==
    /\ Listening(k)
    /\ Becomes(k, "closed")
    /\ HandleClose(StationOf[k], k)
    /\ UNCHANGED <<gone, subscribing, bound, online, admins, raced, failed>>

\* disconnect: the socket, if any, starts to close, and the station is deregistered
\* at once, and also if it has no socket.
Disconnect(s) ==
    LET k == conns[s] IN
    /\ admins < MaxAdmin
    /\ admins' = admins + 1
    /\ IF k # NoSocket /\ k \notin gone THEN Becomes(k, "closing") ELSE UNCHANGED phase
    /\ dereg' = dereg \union {Deregister(s, Admin)}
    /\ raced' = raced \union {j \in Sockets : StationOf[j] = s /\ phase[j] = "registering"}
    /\ UNCHANGED <<gone, entry, conns, count, subscribing, bound, online, failed>>

\* deregisterConnection: isOnline becomes false, then the bindings go.
DeregisterStep(d) ==
    /\ d \in dereg
    /\ IF d.step = "offline"
       THEN /\ online' = online \ {d.station}
            /\ dereg' = (dereg \ {d}) \union {[d EXCEPT !.step = "unbind"]}
            /\ UNCHANGED bound
       ELSE /\ bound' = bound \ {d.station}
            /\ dereg' = dereg \ {d}
            /\ UNCHANGED online
    /\ UNCHANGED <<phase, gone, entry, conns, count, subscribing, admins, raced, failed>>

\* deregisterConnection fails in the database or at the broker: what is left of it is
\* not done, and the closing of the socket goes on.
DeregisterFails(d) ==
    /\ d \in dereg
    /\ dereg' = dereg \ {d}
    /\ failed' = failed \union {d.station}
    /\ UNCHANGED <<phase, gone, entry, conns, count, subscribing, bound, online, admins, raced>>

\* Mutant: the entry is set without a time to live.
MutantNoTtl(s) == FALSE /\ entry[s] # NoSocket /\ UNCHANGED vars

\* The entry of a socket that no pong renews expires, after three ping intervals: by
\* then what the server had begun for the station has come to its end.
Expire(s) ==
    /\ entry[s] # NoSocket
    /\ phase[entry[s]] # "registering"
    /\ ~Listening(entry[s])
    /\ \A d \in dereg : d.station # s
    /\ \A k \in Sockets : StationOf[k] = s => phase[k] # "replacing"
    /\ entry' = [entry EXCEPT ![s] = NoSocket]
    /\ UNCHANGED <<phase, gone, conns, count, subscribing, bound, online, dereg,
                   admins, raced, failed>>

-------------------------------------------------------------------------------
Connect(k) == \/ Replace(k) \/ Admit(k) \/ Replaced(k) \/ Open(k)
              \/ \E p \in Parts : Subscribe(k, p) \/ RegistrationFails(k, p)

Next ==
    \/ \E k \in Sockets : Upgrade(k) \/ Connect(k) \/ CloseUnheard(k) \/ Close(k)
    \/ \E s \in Stations : Disconnect(s) \/ Expire(s)
    \/ \E d \in Deregistrations : DeregisterStep(d) \/ DeregisterFails(d)

\* What the server has begun it goes on with, and entries expire. Nothing is assumed
\* of the stations.
Fairness ==
    /\ \A k \in Sockets : WF_vars(Connect(k))
    /\ \A s \in Stations : WF_vars(Expire(s))
    /\ \A d \in Deregistrations : WF_vars(DeregisterStep(d))

Spec == Init /\ [][Next]_vars /\ Fairness

-------------------------------------------------------------------------------
(* Properties                                                                 *)

\* Types of the variables of the connections (WebsocketNetworkConnection.ts).
TypeOK ==
    /\ phase \in [Sockets -> Phases]
    /\ gone \subseteq Sockets
    /\ entry \in [Stations -> Sockets \union {NoSocket}]
    /\ conns \in [Stations -> Sockets \union {NoSocket}]
    /\ count \in Nat
    /\ subscribing \in [Sockets -> SUBSET Parts]
    /\ bound \subseteq Stations
    /\ online \subseteq Stations
    /\ dereg \subseteq Deregistrations
    /\ admins \in Nat
    /\ raced \subseteq Sockets
    /\ failed \subseteq Stations

\* A socket that is open or being registered holds the entry of its station, so a
\* station never has two: no close, replacement or failure of another socket takes the
\* entry away. sendMessage and the modules take the entry for "connected".
EntryOfLive ==
    \A k \in Sockets :
        phase[k] = "registering" \/ Listening(k) => entry[StationOf[k]] = k

\* The limit of the tenant is judged by the connections there are: every way a socket
\* ends counts it down once.
CountMatches == count = Cardinality({s \in Stations : conns[s] # NoSocket})

\* The router gets the calls for a station that is connected, unless its registration
\* overlapped with a deregistration that another socket or an administrator began:
\* replacing a stale socket alone does no harm.
BoundUnlessRaced ==
    \A k \in Sockets :
        phase[k] = "open" /\ Listening(k) /\ k \notin raced
            => StationOf[k] \in bound \intersect online

\* A station without a socket is offline and unbound, however its connections and
\* deregistrations overlapped, unless one of them failed half-way.
ClosedIsDeregistered ==
    \A s \in Stations :
        /\ s \notin failed
        /\ \A k \in Sockets : StationOf[k] = s => phase[k] \in {"new", "upgraded", "closed"}
        /\ \A d \in dereg : d.station # s
        => s \notin bound \union online

\* An entry is given back in the end, unless its socket is there: a station that lost
\* its socket at any moment can connect again.
CanComeBack ==
    \A s \in Stations : \A k \in Sockets :
        entry[s] = k ~> (entry[s] # k \/ Listening(k))

===============================================================================
