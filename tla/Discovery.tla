------------------------------- MODULE Discovery -------------------------------
(***************************************************************************)
(* ServiceDiscover with the RPCServiceManager it feeds: instances register *)
(* in etcd under leases, the main thread lists the directory once, the     *)
(* watcher thread applies the change events, and RPC handlers pick         *)
(* channels all the while.                                                 *)
(***************************************************************************)
EXTENDS RpcService

CONSTANTS
    Key,        \* service/instance keys
    ServiceOf,  \* [Key -> Service], getServiceName
    MaxChanges  \* bound: registrations and expiries in one behaviour

ASSUME KeyAssumption == ServiceOf \in [Key -> Service]
ASSUME ThreadAssumption == Thread = {"main", "watch"}

VARIABLES
    etcd,      \* [Key -> Host or NoHost], the registered instances
    events,    \* Seq(Event), notifications the watcher has not handled
    watching,  \* the watch still delivers
    phase,     \* where the construction of ServiceDiscover stands
    listed,    \* registrations of the ls answer not yet passed to _putCb
    missed,    \* keys whose registrations a failed ls or watch did not show
    changes    \* registrations and expiries so far

discoveryVars == <<etcd, events, watching, phase, listed, missed, changes>>
vars == <<rpcVars, discoveryVars>>

\* "constructing": the watcher runs, _putCb and _delCb are not yet built.
Phase == {"constructing", "ready", "listing", "running"}
Registration == [key : Key, host : Host]
Event == [type : {"put", "delete"}, key : Key, host : Host]

Init ==
    /\ RpcInit
    /\ etcd \in [Key -> Host \cup {NoHost}]
    /\ \A k, l \in Key : etcd[k] = etcd[l] /\ etcd[k] # NoHost => k = l
    /\ events = <<>>
    /\ watching = TRUE
    /\ phase = "constructing"
    /\ listed = {}
    /\ missed = {}
    /\ changes = 0

-----------------------------------------------------------------------------
(* etcd and the instances.                                                  *)

\* Faulty: the watch starts only after the listing.
WatchAfterList == watching /\ phase = "running"

\* The watch is created before the listing.
Watched == watching

Change(k, h, event) ==
    /\ changes < MaxChanges
    /\ changes' = changes + 1
    /\ etcd' = [etcd EXCEPT ![k] = h]
    /\ events' = IF Watched THEN Append(events, event) ELSE events
    /\ missed' = IF watching THEN missed \ {k} ELSE missed \cup {k}
    /\ UNCHANGED <<rpcVars, watching, phase, listed>>

\* An instance starts, restarts or moves: registerService puts its key.  Two
\* instances do not listen on one address.
Register(k, h) ==
    /\ \A l \in Key \ {k} : etcd[l] # h
    /\ Change(k, h, [type |-> "put", key |-> k, host |-> h])

\* Its lease expires.
Expire(k) ==
    /\ etcd[k] # NoHost
    /\ Change(k, NoHost, [type |-> "delete", key |-> k, host |-> etcd[k]])

\* The watcher gets error responses from now on, which it ignores.
WatchBreaks ==
    /\ watching
    /\ watching' = FALSE
    /\ UNCHANGED <<rpcVars, etcd, events, phase, listed, missed, changes>>

-----------------------------------------------------------------------------
(* The main thread, inside the constructor of ServiceDiscover.              *)

SetCallbacks ==
    /\ phase = "constructing" /\ ~crashed
    /\ phase' = "ready"
    /\ UNCHANGED <<rpcVars, etcd, events, watching, listed, missed, changes>>

\* ls answers with the registrations of one moment.
discoverService ==
    /\ phase = "ready" /\ ~crashed
    /\ phase' = "listing"
    /\ listed' = {r \in Registration : etcd[r.key] = r.host}
    /\ UNCHANGED <<rpcVars, etcd, events, watching, missed, changes>>

\* The error is logged, and the constructor returns.
discoverServiceFails ==
    /\ phase = "ready" /\ ~crashed
    /\ phase' = "running"
    /\ missed' = Key
    /\ UNCHANGED <<rpcVars, etcd, events, watching, listed, changes>>

\* The callbacks of the listing, one after the other, in any order.
PutListed ==
    \E r \in listed :
        /\ serviceOnline("main", ServiceOf[r.key], r.host)
        /\ listed' = listed \ {r}
        /\ UNCHANGED <<etcd, events, watching, phase, missed, changes>>

ListingDone ==
    /\ phase = "listing" /\ ~crashed
    /\ listed = {} /\ pending["main"] = Idle
    /\ phase' = "running"
    /\ UNCHANGED <<rpcVars, etcd, events, watching, listed, missed, changes>>

-----------------------------------------------------------------------------
(* The watcher thread.                                                      *)

\* watcherCallback before _putCb and _delCb are constructed: the test of an
\* uninitialised std::function skips the event or calls garbage.
WatchTooEarly ==
    /\ phase = "constructing" /\ ~crashed
    /\ events # <<>>
    /\ events' = Tail(events)
    /\ crashed' \in BOOLEAN
    /\ UNCHANGED <<channels, hostMap, rrIndex, pending, created, got,
                   etcd, watching, phase, listed, missed, changes>>

watcherCallback ==
    /\ phase # "constructing"
    /\ events # <<>>
    /\ LET e == Head(events)
           s == ServiceOf[e.key]
       IN  \/ e.type = "put" /\ serviceOnline("watch", s, e.host)
           \/ e.type = "delete" /\ serviceOffline("watch", s, e.host)
    /\ events' = Tail(events)
    /\ UNCHANGED <<etcd, watching, phase, listed, missed, changes>>

-----------------------------------------------------------------------------

FinishAppend(t) == appendChannel(t) /\ UNCHANGED discoveryVars
Pick(s) == getChannel(s) /\ UNCHANGED discoveryVars

Main ==
    \/ SetCallbacks
    \/ discoverService \/ discoverServiceFails
    \/ PutListed \/ FinishAppend("main")
    \/ ListingDone

Watcher == WatchTooEarly \/ watcherCallback \/ FinishAppend("watch")

Environment ==
    \/ \E k \in Key, h \in Host : Register(k, h)
    \/ \E k \in Key : Expire(k)
    \/ WatchBreaks

Next ==
    \/ Main
    \/ Watcher
    \/ \E s \in Followed : Pick(s)
    \/ Environment

Spec == Init /\ [][Next]_vars

\* Both threads run, and requests keep coming for every followed service.
FairSpec ==
    /\ Spec
    /\ WF_vars(Main)
    /\ WF_vars(Watcher)
    /\ \A s \in Followed : WF_vars(Pick(s))

-----------------------------------------------------------------------------

TypeOK ==
    /\ RpcTypeOK
    /\ etcd \in [Key -> Host \cup {NoHost}]
    /\ events \in Seq(Event)
    /\ watching \in BOOLEAN
    /\ phase \in Phase
    /\ listed \subseteq Registration
    /\ missed \subseteq Key
    /\ changes \in Nat

\* Everything that was announced has been applied.
Settled ==
    /\ phase = "running" /\ ~crashed
    /\ events = <<>>
    /\ \A t \in Thread : pending[t] = Idle

\* No registered host is forgotten: once all notifications are applied,
\* every instance of a followed service has a channel, whichever way the
\* listing and the watch events interleaved, and even when the watcher
\* skipped events because its callbacks did not exist yet.  A failed ls or
\* a broken watch costs only the hosts that it did not show: an instance
\* that registers again while the watch works is found.
LiveHostsReachable ==
    Settled =>
        \A k \in Key \ missed :
            /\ etcd[k] \in Host \ BadHost
            /\ ServiceOf[k] \in Followed
            => etcd[k] \in HostsOf(ServiceOf[k])

\* Once all notifications are applied, every channel leads to a host that is
\* registered for the service.
NoStaleHost ==
    Settled /\ missed = {} =>
        \A s \in Followed : \A h \in HostsOf(s) :
            \E k \in Key : ServiceOf[k] = s /\ etcd[k] = h

\* The rotation ends up leaving out no host: once the channels of a service
\* come to rest, each of its hosts is handed out again and again, whatever
\* index and order the removals before have left.  As long as hosts keep going
\* and coming back, the shifts can pass a host over every time.
EveryHostServes ==
    \A s \in Followed, h \in Host :
        /\ <>[][FALSE]_(channels[s])
        /\ <>[](~crashed /\ h \in HostsOf(s))
        => []<>(got[s] = h)

-----------------------------------------------------------------------------
(* Why no registered host is forgotten: the inductive invariant.            *)

Is(e, type, s, h) == e.type = type /\ ServiceOf[e.key] = s /\ e.host = h

\* A withdrawal of the host that the watcher has yet to see is followed by
\* an announcement it has yet to see.
AnnouncedLast(s, h) ==
    \A i \in DOMAIN events :
        Is(events[i], "delete", s, h) =>
            \E j \in DOMAIN events : j > i /\ Is(events[j], "put", s, h)

\* The host has its channel or is on its way to one.
Coming(s, h) ==
    \/ phase \in {"constructing", "ready"}
    \/ \E i \in DOMAIN events : Is(events[i], "put", s, h)
    \/ \E r \in listed : ServiceOf[r.key] = s /\ r.host = h
    \/ \E t \in Thread : pending[t] = [service |-> s, host |-> h]
    \/ h \in HostsOf(s)

Promised(s, h) == AnnouncedLast(s, h) /\ Coming(s, h)

NothingForgotten ==
    \A k \in Key \ missed, h \in Host \ BadHost :
        etcd[k] = h /\ ServiceOf[k] \in Followed => Promised(ServiceOf[k], h)

OneHostPerKey ==
    \A k, l \in Key : etcd[k] = etcd[l] /\ etcd[k] # NoHost => k = l

ListingOK == phase # "listing" => listed = {}

\* The inductive invariant of the proofs: types, the map and the vector,
\* and that every live host has its last announcement still to come, or
\* in progress, or applied.
IInv ==
    /\ TypeOK
    /\ MapIndexesVector
    /\ OneHostPerKey
    /\ ListingOK
    /\ NothingForgotten
=============================================================================
