----------------------------- MODULE DiscoveryOrder -----------------------------
(***************************************************************************)
(* Discovery with a history of which services changed at an awkward time:  *)
(* what the channels are worth when instances come and go in turn.  The    *)
(* history is no part of the code; it only watches.                        *)
(***************************************************************************)
EXTENDS Discovery

VARIABLE disturbed  \* services with a change at an awkward time

observedVars == <<vars, disturbed>>

\* An instance registers before the listing, which then shows it a second
\* time, or while its last registration is still there; or it goes away in
\* the middle of the listing, which may still announce it.
Disturbs(k) ==
    \/ \E h \in Host :
          /\ Register(k, h)
          /\ phase \in {"constructing", "ready"} \/ etcd[k] # NoHost
    \/ Expire(k) /\ phase = "listing"

Watch ==
    disturbed' = disturbed \cup {ServiceOf[k] : k \in {l \in Key : Disturbs(l)}}

ObservedInit == Init /\ disturbed = {}
ObservedNext == Next /\ Watch
ObservedSpec == ObservedInit /\ [][ObservedNext]_observedVars

\* With the fairness of Discovery.
ObservedFairSpec ==
    /\ ObservedSpec
    /\ WF_vars(Main)
    /\ WF_vars(Watcher)
    /\ \A s \in Followed : WF_vars(Pick(s))

-----------------------------------------------------------------------------

Registered(s, h) == \E k \in Key : ServiceOf[k] = s /\ etcd[k] = h

\* The watch is broken and did not show a change of the service.
Unshown(s) == ~watching /\ \E k \in missed : ServiceOf[k] = s

\* As long as the instances of a service come and go in turn, its channels
\* lead to registered hosts only, once all notifications are applied: also
\* when the listing failed, when an instance came while the listing was under
\* way or went away before it, and when hosts pass from one key to another.
UndisturbedIsFresh ==
    Settled =>
        \A s \in Followed \ disturbed :
            ~Unshown(s) => \A h \in HostsOf(s) : Registered(s, h)

\* And at no time, settled or not, are there two channels to one host, of
\* which a removal would leave one; the map knows the one there is.
OneChannelEach ==
    \A s \in Followed \ disturbed :
        \A i, j \in DOMAIN channels[s] :
            /\ channels[s][i].host = channels[s][j].host => i = j
            /\ hostMap[s][channels[s][i].host] = channels[s][i]

-----------------------------------------------------------------------------
(* Why: what the queue, the listing and the channels know of each other.    *)

CallFor(s, h) == [service |-> s, host |-> h]
Lists(r, s, h) == ServiceOf[r.key] = s /\ r.host = h

\* The host has a channel, or will get one without any further event.
Held(s, h) ==
    \/ h \in HostsOf(s)
    \/ \E t \in Thread : pending[t] = CallFor(s, h)
    \/ \E r \in listed : Lists(r, s, h)

\* In at most one of these ways.
HeldOnce(s, h) ==
    /\ \A i, j \in DOMAIN channels[s] :
          channels[s][i].host = h /\ channels[s][j].host = h => i = j
    /\ \A t \in Thread :
          pending[t] = CallFor(s, h) =>
              /\ h \notin HostsOf(s)
              /\ \A u \in Thread : pending[u] = CallFor(s, h) => u = t
    /\ \A r \in listed :
          Lists(r, s, h) =>
              /\ h \notin HostsOf(s)
              /\ \A t \in Thread : pending[t] # CallFor(s, h)
              /\ \A q \in listed : Lists(q, s, h) => q = r

Linked(s) ==
    \A i \in DOMAIN channels[s] :
        hostMap[s][channels[s][i].host] = channels[s][i]

PutEvent(s, h, i) == i \in DOMAIN events /\ Is(events[i], "put", s, h)
DeleteEvent(s, h, i) == i \in DOMAIN events /\ Is(events[i], "delete", s, h)

\* Between two announcements of a host there is a withdrawal, and after the
\* last one, too, when the host is gone.
Announced(s, h, p) == PutEvent(s, h, p) \/ (p = 0 /\ Held(s, h))
Until(s, h, q) ==
    \/ PutEvent(s, h, q)
    \/ q = Len(events) + 1 /\ ~Registered(s, h) /\ ~Unshown(s)

InTurn(s, h) ==
    \A p, q \in 0..(Len(events) + 1) :
        p < q /\ Announced(s, h, p) /\ Until(s, h, q)
            => \E j \in (p + 1)..(q - 1) : DeleteEvent(s, h, j)

\* A host that is withdrawn is not in the listing.
ListingBefore(s, h) ==
    (\E i \in DOMAIN events : DeleteEvent(s, h, i)) =>
        /\ phase \in {"constructing", "ready"} => ~Registered(s, h)
        /\ \A r \in listed : ~Lists(r, s, h)
        /\ pending["main"] # CallFor(s, h)

\* Before the listing nothing is known of the service.
NothingYet(s) ==
    phase \in {"constructing", "ready"} =>
        /\ channels[s] = <<>>
        /\ \A i \in DOMAIN events :
              events[i].type = "put" => ServiceOf[events[i].key] # s
        /\ \A h \in Host : pending["watch"] # CallFor(s, h)

MainIdle == phase # "listing" => pending["main"] = Idle

Orderly(s) ==
    /\ Linked(s)
    /\ NothingYet(s)
    /\ \A h \in Host : HeldOnce(s, h) /\ InTurn(s, h) /\ ListingBefore(s, h)

OrderInv ==
    /\ IInv
    /\ disturbed \subseteq Service
    /\ MainIdle
    /\ \A s \in Followed \ disturbed : Orderly(s)
=============================================================================
