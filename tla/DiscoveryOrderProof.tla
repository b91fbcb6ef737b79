-------------------------- MODULE DiscoveryOrderProof --------------------------
(***************************************************************************)
(* What the channels are worth when instances come and go in turn, for any *)
(* services, hosts and keys and any number of changes.                     *)
(***************************************************************************)
EXTENDS DiscoveryOrder, DiscoveryProof

-----------------------------------------------------------------------------
(* Events in turn.                                                          *)

\* The queue is a sequence of events.
LEMMA QueueType ==
    ASSUME TypeOK
    PROVE  /\ Len(events) \in Nat
           /\ DOMAIN events = 1..Len(events)
           /\ \A i \in 1..Len(events) : events[i] \in Event
BY DEF TypeOK

\* Without a new event, what was in turn stays in turn, unless more is held
\* or a registration gets lost.
LEMMA SameTurn ==
    ASSUME NEW s, NEW h, InTurn(s, h), events' = events,
           Held(s, h)' => Held(s, h),
           ~Registered(s, h)' /\ ~Unshown(s)' => ~Registered(s, h) /\ ~Unshown(s)
    PROVE  InTurn(s, h)'
<1>1. /\ \A i : PutEvent(s, h, i)' <=> PutEvent(s, h, i)
      /\ \A i : DeleteEvent(s, h, i)' <=> DeleteEvent(s, h, i)
  BY DEF PutEvent, DeleteEvent, Is
<1>2. /\ \A p : Announced(s, h, p)' => Announced(s, h, p)
      /\ \A q : Until(s, h, q)' => Until(s, h, q)
  BY <1>1 DEF Announced, Until
<1> QED BY <1>1, <1>2 DEF InTurn

\* A new event at the end is in turn when it announces a host that is not
\* registered, or withdraws one.
LEMMA AppendTurn ==
    ASSUME TypeOK, NEW s, NEW h, NEW e \in Event, InTurn(s, h),
           events' = Append(events, e),
           Held(s, h)' => Held(s, h),
           Is(e, "put", s, h) =>
              ~Registered(s, h) /\ ~Unshown(s) /\ Registered(s, h)',
           ~Registered(s, h)' /\ ~Unshown(s)' /\ ~Is(e, "delete", s, h)
              => ~Registered(s, h) /\ ~Unshown(s)
    PROVE  InTurn(s, h)'
<1>0. PICK n \in Nat : n = Len(events)
  BY QueueType
<1>1. /\ n \in Nat /\ DOMAIN events = 1..n /\ DOMAIN events' = 1..(n + 1)
      /\ Len(events') = n + 1
      /\ events'[n + 1] = e
      /\ \A i \in 1..n : events'[i] = events[i]
  BY <1>0 DEF TypeOK
<1>2. ASSUME NEW i
      PROVE  /\ PutEvent(s, h, i)' <=>
                   PutEvent(s, h, i) \/ (i = n + 1 /\ Is(e, "put", s, h))
             /\ DeleteEvent(s, h, i)' <=>
                   DeleteEvent(s, h, i) \/ (i = n + 1 /\ Is(e, "delete", s, h))
             /\ PutEvent(s, h, i) => i \in 1..n
  BY <1>1 DEF PutEvent, DeleteEvent, Is
<1> SUFFICES ASSUME NEW p \in 0..(n + 2), NEW q \in 0..(n + 2), p < q,
                    Announced(s, h, p)', Until(s, h, q)'
             PROVE  \E j \in (p + 1)..(q - 1) : DeleteEvent(s, h, j)'
  BY <1>0, <1>1 DEF InTurn
<1>3. Announced(s, h, p) /\ p \in 0..n
  <2>1. CASE p = n + 1
    <3>1. Is(e, "put", s, h)
      BY <2>1, <1>0, <1>1, <1>2 DEF Announced
    <3>2. ~Until(s, h, n + 2)'
      BY <3>1, <1>0, <1>1, <1>2 DEF Until
    <3>3. q = n + 2
      BY <2>1, <1>0, <1>1
    <3> QED BY <3>2, <3>3
  <2>2. CASE p # n + 1
    BY <2>2, <1>0, <1>1, <1>2 DEF Announced
  <2> QED BY <2>1, <2>2
<1>4. CASE q = n + 2 /\ Is(e, "delete", s, h)
  <2>1. DeleteEvent(s, h, n + 1)' /\ n + 1 \in (p + 1)..(q - 1)
    BY <1>0, <1>1, <1>2, <1>3, <1>4
  <2> QED BY <2>1
<1>5. CASE ~(q = n + 2 /\ Is(e, "delete", s, h))
  <2>1. PICK r \in 0..(n + 1) : p < r /\ r <= q /\ Until(s, h, r)
    <3>1. CASE q = n + 2
      <4>1. ~PutEvent(s, h, n + 2)'
        BY <1>0, <1>1, <1>2
      <4>2. Until(s, h, n + 1)
        BY <4>1, <3>1, <1>0, <1>1, <1>5 DEF Until
      <4> QED BY <4>2, <3>1, <1>0, <1>1, <1>3
    <3>2. CASE q # n + 2
      <4>1. PutEvent(s, h, q)'
        BY <3>2, <1>0, <1>1 DEF Until
      <4>2. CASE q = n + 1 /\ Is(e, "put", s, h)
        <5>1. Until(s, h, n + 1)
          BY <4>2, <1>0 DEF Until
        <5> QED BY <5>1, <4>2, <1>0, <1>1
      <4>3. CASE PutEvent(s, h, q)
        BY <4>3, <1>0, <1>1, <1>2 DEF Until
      <4> QED BY <4>1, <4>2, <4>3, <1>2
    <3> QED BY <3>1, <3>2
  <2>2. PICK j \in (p + 1)..(r - 1) : DeleteEvent(s, h, j)
    BY <2>1, <1>0, <1>1, <1>3 DEF InTurn
  <2>3. j \in (p + 1)..(q - 1)
    BY <2>1, <2>2, <1>0, <1>1
  <2> QED BY <2>2, <2>3, <1>2
<1> QED BY <1>4, <1>5

\* Handling the first event leaves the others in turn, if what is held then
\* was held before, or is what the event announced.
LEMMA TailTurn ==
    ASSUME TypeOK, NEW s, NEW h, InTurn(s, h),
           events # <<>>, events' = Tail(events),
           Held(s, h)' => \/ Held(s, h) /\ ~DeleteEvent(s, h, 1)
                          \/ PutEvent(s, h, 1),
           Registered(s, h)' <=> Registered(s, h),
           Unshown(s)' <=> Unshown(s)
    PROVE  InTurn(s, h)'
<1>0. PICK n \in Nat : n = Len(events)
  BY QueueType
<1>1. /\ n \in Nat \ {0} /\ DOMAIN events = 1..n /\ DOMAIN events' = 1..(n - 1)
      /\ Len(events') = n - 1
      /\ \A i \in 1..(n - 1) : events'[i] = events[i + 1]
  BY <1>0 DEF TypeOK
<1>2. ASSUME NEW i \in Nat \ {0}
      PROVE  /\ PutEvent(s, h, i)' <=> PutEvent(s, h, i + 1)
             /\ DeleteEvent(s, h, i)' <=> DeleteEvent(s, h, i + 1)
  BY <1>1 DEF PutEvent, DeleteEvent, Is
<1> SUFFICES ASSUME NEW p \in 0..n, NEW q \in 0..n, p < q,
                    Announced(s, h, p)', Until(s, h, q)'
             PROVE  \E j \in (p + 1)..(q - 1) : DeleteEvent(s, h, j)'
  BY <1>0, <1>1 DEF InTurn
<1>3. q \in 1..n /\ q + 1 \in 0..(n + 1)
  BY <1>0, <1>1
<1>4. Until(s, h, q + 1)
  <2>1. CASE PutEvent(s, h, q)'
    BY <2>1, <1>2, <1>3 DEF Until
  <2>2. CASE ~PutEvent(s, h, q)'
    <3>1. q = Len(events') + 1 /\ ~Registered(s, h)' /\ ~Unshown(s)'
      BY <2>2 DEF Until
    <3>2. q + 1 = Len(events) + 1
      BY <3>1, <1>0, <1>1
    <3> QED BY <3>1, <3>2 DEF Until
  <2> QED BY <2>1, <2>2
<1>5. PICK o \in {p, p + 1} : /\ Announced(s, h, o)
                              /\ o = p => o = 0 /\ ~DeleteEvent(s, h, 1)
  <2>1. CASE p = 0
    <3>1. Held(s, h)'
      BY <2>1, <1>0, <1>1 DEF Announced, PutEvent
    <3> QED BY <3>1, <2>1 DEF Announced
  <2>2. CASE p # 0
    <3>1. PutEvent(s, h, p + 1)
      BY <2>2, <1>0, <1>1, <1>2 DEF Announced
    <3> QED BY <3>1, <2>2, <1>0, <1>1 DEF Announced
  <2> QED BY <2>1, <2>2
<1>6. o \in 0..(n + 1) /\ o < q + 1
  BY <1>0, <1>1, <1>3, <1>5
<1>7. PICK i \in (o + 1)..q : DeleteEvent(s, h, i)
  BY <1>0, <1>1, <1>3, <1>4, <1>5, <1>6 DEF InTurn
<1>8. i - 1 \in (p + 1)..(q - 1)
  BY <1>0, <1>1, <1>3, <1>5, <1>6, <1>7
<1>9. DeleteEvent(s, h, i - 1)'
  BY <1>0, <1>1, <1>2, <1>7, <1>8
<1> QED BY <1>8, <1>9

-----------------------------------------------------------------------------
(* Steps of the environment and of the listing.                             *)

\* Before the listing a service that is in order has nothing at all.
LEMMA NothingHeld ==
    ASSUME OrderInv, NEW s \in Followed, Orderly(s), NEW h \in Host,
           phase \in {"constructing", "ready"}
    PROVE  ~Held(s, h) /\ \A i : ~PutEvent(s, h, i)
<1>1. channels[s] = <<>> /\ pending["main"] = Idle /\ listed = {}
  BY DEF OrderInv, Orderly, NothingYet, MainIdle, IInv, ListingOK
<1>2. CallFor(s, h) \in Call /\ CallFor(s, h) # Idle
  BY FollowedAssumption, NullsAssumption DEF CallFor, Call
<1>3. HostsOf(s) = {} /\ \A t \in Thread : pending[t] # CallFor(s, h)
  BY <1>1, <1>2, ThreadAssumption DEF Orderly, NothingYet, HostsOf
<1>4. \A i : ~PutEvent(s, h, i)
  BY DEF Orderly, NothingYet, PutEvent, Is
<1> QED BY <1>1, <1>3, <1>4 DEF Held

\* A step that leaves the queue, the listing and the channels alone.
LEMMA QuietOrder ==
    ASSUME NEW s, Orderly(s),
           UNCHANGED <<channels, hostMap, pending, events, listed, etcd>>,
           phase' \in {"constructing", "ready"}
              => phase \in {"constructing", "ready"},
           Unshown(s) => Unshown(s)'
    PROVE  Orderly(s)'
<1>1. \A h : /\ Held(s, h)' <=> Held(s, h)
             /\ Registered(s, h)' <=> Registered(s, h)
             /\ \A i : DeleteEvent(s, h, i)' <=> DeleteEvent(s, h, i)
  BY DEF Held, HostsOf, Lists, CallFor, Registered, DeleteEvent, Is
<1>2. \A h \in Host : InTurn(s, h)'
  BY <1>1, SameTurn DEF Orderly
<1>3. ASSUME NEW h \in Host
      PROVE  HeldOnce(s, h)' /\ ListingBefore(s, h)'
  <2>1. HeldOnce(s, h)'
    BY DEF Orderly, HeldOnce, HostsOf, Lists, CallFor
  <2>2. ListingBefore(s, h)'
    BY <1>1 DEF Orderly, ListingBefore, Lists, CallFor
  <2> QED BY <2>1, <2>2
<1>4. Linked(s)' /\ NothingYet(s)'
  BY DEF Orderly, Linked, NothingYet, CallFor
<1> QED BY <1>2, <1>3, <1>4 DEF Orderly

\* The listing shows each registered host once, before any event announces it.
LEMMA ListingOrder ==
    ASSUME OrderInv, NEW s \in Followed, Orderly(s), discoverService
    PROVE  Orderly(s)'
<1>1. /\ phase = "ready" /\ phase' = "listing"
      /\ listed' = {r \in Registration : etcd[r.key] = r.host}
      /\ UNCHANGED <<channels, hostMap, pending, events, etcd, watching, missed>>
  BY DEF discoverService, rpcVars
<1>2. channels[s] = <<>> /\ pending["main"] = Idle
  BY <1>1 DEF OrderInv, Orderly, NothingYet, MainIdle
<1>3. ASSUME NEW h \in Host
      PROVE  HeldOnce(s, h)' /\ InTurn(s, h)' /\ ListingBefore(s, h)'
  <2>1. /\ HostsOf(s)' = {}
        /\ \A t \in Thread : pending'[t] # CallFor(s, h)
    <3>1. \A t \in Thread : pending[t] # CallFor(s, h)
      BY <1>1, NothingHeld DEF Held
    <3> QED BY <3>1, <1>1, <1>2 DEF HostsOf, CallFor
  <2>2. ASSUME NEW r \in listed', Lists(r, s, h)
        PROVE  /\ r.key \in Key /\ etcd[r.key] = h /\ Registered(s, h)
               /\ r = [key |-> r.key, host |-> h]
    BY <2>2, <1>1 DEF Registration, Lists, Registered
  <2>3. HeldOnce(s, h)'
    <3>1. ASSUME NEW q \in listed', NEW r \in listed',
                 Lists(q, s, h), Lists(r, s, h)
          PROVE  q = r
      <4>1. q.key = r.key
        BY <2>2, <3>1, NullsAssumption DEF OrderInv, IInv, OneHostPerKey
      <4> QED BY <4>1, <2>2, <3>1
    <3>2. DOMAIN channels'[s] = {}
      BY <1>1, <1>2
    <3> QED BY <2>1, <3>1, <3>2 DEF HeldOnce, CallFor, Lists
  <2>4. /\ \A i : ~PutEvent(s, h, i)'
        /\ \A i : DeleteEvent(s, h, i)' <=> DeleteEvent(s, h, i)
        /\ Registered(s, h)' <=> Registered(s, h)
    <3>1. \A i : ~PutEvent(s, h, i)
      BY <1>1, NothingHeld
    <3> QED BY <3>1, <1>1 DEF PutEvent, DeleteEvent, Is, Registered
  <2>5. InTurn(s, h)'
    <3>1. Held(s, h)' => Registered(s, h)'
      BY <2>1, <2>2, <2>4 DEF Held, CallFor, Lists
    <3> QED BY <3>1, <2>4 DEF InTurn, Announced, Until
  <2>6. ListingBefore(s, h)'
    <3>1. (\E i \in DOMAIN events : DeleteEvent(s, h, i)) => ~Registered(s, h)
      BY <1>1 DEF Orderly, ListingBefore
    <3>2. \A r \in listed' : Lists(r, s, h)' <=> Lists(r, s, h)
      BY DEF Lists
    <3>3. "main" \in Thread
      BY ThreadAssumption
    <3> QED BY <3>1, <3>2, <3>3, <2>1, <2>2, <2>4, <1>1
            DEF ListingBefore, CallFor
  <2> QED BY <2>3, <2>5, <2>6
<1>4. Linked(s)' /\ NothingYet(s)'
  BY <1>1 DEF Orderly, Linked, NothingYet
<1> QED BY <1>3, <1>4 DEF Orderly

\* Nothing that etcd and the instances do moves the channels.
LEMMA ChangeHolds ==
    ASSUME NEW k, NEW h, NEW e, Change(k, h, e), NEW s
    PROVE  /\ UNCHANGED <<channels, hostMap, pending, listed, phase, watching>>
           /\ Linked(s)' <=> Linked(s)
           /\ \A g : Held(s, g)' <=> Held(s, g)
           /\ \A g : HeldOnce(s, g)' <=> HeldOnce(s, g)
<1>1. UNCHANGED <<channels, hostMap, pending, listed, phase, watching>>
  BY DEF Change, rpcVars
<1> QED BY <1>1 DEF Linked, Held, HeldOnce, HostsOf, Lists, CallFor

\* What the queue shows after a change.
LEMMA ChangeShows ==
    ASSUME TypeOK, NEW k, NEW h, NEW e \in Event, Change(k, h, e), NEW s, NEW g
    PROVE  /\ \A i : PutEvent(s, g, i)'
                         => PutEvent(s, g, i) \/ Is(e, "put", s, g)
           /\ \A i : DeleteEvent(s, g, i)'
                         => DeleteEvent(s, g, i) \/ Is(e, "delete", s, g)
<1>1. CASE events' = events
  BY <1>1 DEF PutEvent, DeleteEvent, Is
<1>2. CASE events' = Append(events, e)
  <2>1. /\ Len(events) \in Nat /\ DOMAIN events = 1..Len(events)
        /\ DOMAIN events' = 1..(Len(events) + 1)
        /\ events'[Len(events) + 1] = e
        /\ \A i \in 1..Len(events) : events'[i] = events[i]
    BY <1>2 DEF TypeOK
  <2> QED BY <2>1 DEF PutEvent, DeleteEvent, Is
<1> QED BY <1>1, <1>2 DEF Change

\* An instance registers.
LEMMA RegisterOrder ==
    ASSUME OrderInv, NEW s \in Followed, Orderly(s),
           NEW k \in Key, NEW g \in Host, Register(k, g),
           ServiceOf[k] = s =>
              phase \in {"listing", "running"} /\ etcd[k] = NoHost
    PROVE  Orderly(s)'
<1> DEFINE e == [type |-> "put", key |-> k, host |-> g]
<1>1. /\ Change(k, g, e) /\ e \in Event
      /\ e.type = "put" /\ e.key = k /\ e.host = g
  BY DEF Register, Event
<1> HIDE DEF e
<1>2. TypeOK /\ etcd' = [etcd EXCEPT ![k] = g] /\ etcd'[k] = g
  BY <1>1 DEF OrderInv, IInv, Change, TypeOK
<1>3. /\ UNCHANGED <<channels, hostMap, pending, listed, phase, watching>>
      /\ Linked(s)'
      /\ \A h \in Host : HeldOnce(s, h)'
      /\ \A h : Held(s, h)' <=> Held(s, h)
  BY <1>1, ChangeHolds DEF Orderly
<1>4. \A h : Is(e, "put", s, h) <=> ServiceOf[k] = s /\ g = h
  BY <1>1 DEF Is
<1>5. ASSUME NEW h \in Host
      PROVE  /\ Registered(s, h)' <=>
                    Registered(s, h) \/ (ServiceOf[k] = s /\ g = h)
             /\ ServiceOf[k] = s => ~Registered(s, g)
  <2>1. ASSUME NEW l \in Key, l # k
        PROVE  etcd'[l] = etcd[l] /\ etcd[l] # g
    BY <2>1, <1>2 DEF Register, TypeOK
  <2>2. ServiceOf[k] = s => etcd[k] \notin Host
    BY NullsAssumption
  <2> QED BY <2>1, <2>2, <1>2 DEF Registered
<1>6. ASSUME NEW h \in Host
      PROVE  InTurn(s, h)'
  <2>1. ~Unshown(s)' => ~Unshown(s) /\ (ServiceOf[k] = s => watching)
    BY <1>1, <1>3 DEF Unshown, Change
  <2>2. ~Registered(s, h)' => ~Registered(s, h)
    BY <1>5
  <2>3. CASE watching
    <3>1. events' = Append(events, e)
      BY <1>1, <2>3 DEF Change, Watched
    <3>2. Is(e, "put", s, h) =>
             ~Registered(s, h) /\ ~Unshown(s) /\ Registered(s, h)'
      BY <1>4, <1>5, <2>3 DEF Unshown
    <3> QED BY <3>1, <3>2, <2>1, <2>2, <1>1, <1>2, <1>3, AppendTurn DEF Orderly
  <2>4. CASE ~watching
    <3>1. events' = events
      BY <1>1, <2>4 DEF Change, Watched
    <3> QED BY <3>1, <2>1, <2>2, <1>3, SameTurn DEF Orderly
  <2> QED BY <2>3, <2>4
<1>7. ASSUME NEW h \in Host
      PROVE  ListingBefore(s, h)'
  <2>1. \A i : DeleteEvent(s, h, i)' => DeleteEvent(s, h, i)
    BY <1>1, <1>2, ChangeShows DEF Is
  <2>2. \A i : DeleteEvent(s, h, i) => i \in DOMAIN events
    BY DEF DeleteEvent
  <2>3. phase \in {"constructing", "ready"}
           => (Registered(s, h)' <=> Registered(s, h))
    BY <1>5
  <2> QED BY <2>1, <2>2, <2>3, <1>3 DEF Orderly, ListingBefore, Lists, CallFor
<1>8. NothingYet(s)'
  <2>1. CASE phase \in {"constructing", "ready"}
    <3>1. ASSUME NEW i \in DOMAIN events', events'[i].type = "put",
                 ServiceOf[events'[i].key] = s
          PROVE  FALSE
      <4>1. ServiceOf[k] # s
        BY <2>1
      <4>2. PICK o : o = events'[i].host
        OBVIOUS
      <4>3. PutEvent(s, o, i)'
        BY <3>1, <4>2 DEF PutEvent, Is
      <4>4. PutEvent(s, o, i)
        BY <4>1, <4>3, <1>1, <1>2, ChangeShows DEF Is
      <4> QED BY <4>4, <2>1 DEF Orderly, NothingYet, PutEvent, Is
    <3> QED BY <3>1, <1>3 DEF Orderly, NothingYet, CallFor
  <2>2. CASE phase \notin {"constructing", "ready"}
    BY <2>2, <1>3 DEF NothingYet
  <2> QED BY <2>1, <2>2
<1> QED BY <1>3, <1>6, <1>7, <1>8 DEF Orderly

\* A lease expires.
LEMMA ExpireOrder ==
    ASSUME OrderInv, NEW s \in Followed, Orderly(s),
           NEW k \in Key, Expire(k),
           ServiceOf[k] = s => phase # "listing"
    PROVE  Orderly(s)'
<1> DEFINE e == [type |-> "delete", key |-> k, host |-> etcd[k]]
<1>1. /\ Change(k, NoHost, e) /\ e \in Event
      /\ e.type = "delete" /\ e.key = k /\ e.host = etcd[k]
      /\ etcd[k] \in Host
  BY DEF Expire, Event, OrderInv, IInv, TypeOK
<1> HIDE DEF e
<1>2. TypeOK /\ OneHostPerKey /\ etcd' = [etcd EXCEPT ![k] = NoHost]
  BY <1>1 DEF OrderInv, IInv, Change
<1>3. /\ UNCHANGED <<channels, hostMap, pending, listed, phase, watching>>
      /\ Linked(s)'
      /\ \A h \in Host : HeldOnce(s, h)'
      /\ \A h : Held(s, h)' <=> Held(s, h)
  BY <1>1, ChangeHolds DEF Orderly
<1>4. \A h : Is(e, "delete", s, h) <=> ServiceOf[k] = s /\ etcd[k] = h
  BY <1>1 DEF Is
<1>5. ASSUME NEW h \in Host
      PROVE  Registered(s, h)' <=>
                Registered(s, h) /\ ~(ServiceOf[k] = s /\ etcd[k] = h)
  <2>1. ASSUME NEW l \in Key
        PROVE  etcd'[l] = IF l = k THEN NoHost ELSE etcd[l]
    BY <2>1, <1>2 DEF TypeOK
  <2>2. h # NoHost
    BY NullsAssumption
  <2>3. \A l \in Key : etcd[k] = h /\ etcd[l] = h => l = k
    BY <2>2, <1>2 DEF OneHostPerKey
  <2> QED BY <2>1, <2>2, <2>3 DEF Registered
<1>6. ASSUME NEW h \in Host
      PROVE  InTurn(s, h)'
  <2>1. ~Unshown(s)' => ~Unshown(s) /\ (ServiceOf[k] = s => watching)
    BY <1>1, <1>3 DEF Unshown, Change
  <2>2. ~Registered(s, h)' /\ ~Is(e, "delete", s, h) => ~Registered(s, h)
    BY <1>4, <1>5
  <2>3. CASE watching
    <3>1. events' = Append(events, e) /\ ~Is(e, "put", s, h)
      BY <1>1, <2>3 DEF Change, Watched, Is
    <3> QED BY <3>1, <2>1, <2>2, <1>1, <1>2, <1>3, AppendTurn DEF Orderly
  <2>4. CASE ~watching
    <3>1. events' = events
      BY <1>1, <2>4 DEF Change, Watched
    <3>2. ~Unshown(s)' /\ ~Registered(s, h)' => ~Registered(s, h)
      BY <2>1, <2>4, <1>5
    <3> QED BY <3>1, <3>2, <2>1, <1>3, SameTurn DEF Orderly
  <2> QED BY <2>3, <2>4
<1>7. ASSUME NEW h \in Host
      PROVE  ListingBefore(s, h)'
  <2>1. \A i : DeleteEvent(s, h, i) => i \in DOMAIN events
    BY DEF DeleteEvent
  <2>2. CASE ServiceOf[k] = s /\ etcd[k] = h
    <3>1. ~Registered(s, h)'
      BY <2>2, <1>5
    <3>2. listed = {} /\ pending["main"] = Idle
      BY <2>2 DEF OrderInv, MainIdle, IInv, ListingOK
    <3>3. CallFor(s, h) # Idle
      BY FollowedAssumption, NullsAssumption DEF CallFor, Call
    <3> QED BY <3>1, <3>2, <3>3, <1>3 DEF ListingBefore, CallFor
  <2>3. CASE ~(ServiceOf[k] = s /\ etcd[k] = h)
    <3>1. \A i : DeleteEvent(s, h, i)' => DeleteEvent(s, h, i)
      BY <2>3, <1>1, <1>2, <1>4, ChangeShows
    <3> QED BY <3>1, <2>1, <2>3, <1>3, <1>5
            DEF Orderly, ListingBefore, Lists, CallFor
  <2> QED BY <2>2, <2>3
<1>8. NothingYet(s)'
  <2>1. CASE phase \in {"constructing", "ready"}
    <3>1. ASSUME NEW i \in DOMAIN events', events'[i].type = "put",
                 ServiceOf[events'[i].key] = s
          PROVE  FALSE
      <4>1. PICK o : o = events'[i].host
        OBVIOUS
      <4>2. PutEvent(s, o, i)'
        BY <3>1, <4>1 DEF PutEvent, Is
      <4>3. PutEvent(s, o, i)
        BY <4>2, <1>1, <1>2, ChangeShows DEF Is
      <4> QED BY <4>3, <2>1 DEF Orderly, NothingYet, PutEvent, Is
    <3> QED BY <3>1, <1>3 DEF Orderly, NothingYet, CallFor
  <2>2. CASE phase \notin {"constructing", "ready"}
    BY <2>2, <1>3 DEF NothingYet
  <2> QED BY <2>1, <2>2
<1> QED BY <1>3, <1>6, <1>7, <1>8 DEF Orderly

\* A host of the listing is on its way to its channel.
LEMMA PutListedOrder ==
    ASSUME OrderInv, NEW s \in Followed, Orderly(s), PutListed
    PROVE  Orderly(s)'
<1>1. PICK r \in listed : /\ serviceOnline("main", ServiceOf[r.key], r.host)
                          /\ listed' = listed \ {r}
                          /\ UNCHANGED <<etcd, events, watching, phase, missed>>
  BY DEF PutListed
<1>2. /\ phase = "listing" /\ pending["main"] = Idle
      /\ UNCHANGED <<channels, hostMap>> /\ "main" \in Thread
  BY <1>1, ThreadAssumption DEF OrderInv, IInv, ListingOK, serviceOnline
<1>3. ASSUME NEW h \in Host, NEW t \in Thread, pending'[t] = CallFor(s, h)
      PROVE  \/ pending[t] = CallFor(s, h) /\ t # "main"
             \/ t = "main" /\ Lists(r, s, h)
  <2>1. CallFor(s, h) # Idle
    BY FollowedAssumption, NullsAssumption DEF CallFor, Call
  <2>2. CASE t # "main"
    BY <2>2, <1>1, <1>3 DEF serviceOnline, OrderInv, IInv, TypeOK, RpcTypeOK
  <2>3. CASE t = "main"
    <3>1. pending'["main"] = [service |-> ServiceOf[r.key], host |-> r.host]
      BY <2>1, <2>3, <1>1, <1>2, <1>3
         DEF serviceOnline, OrderInv, IInv, TypeOK, RpcTypeOK
    <3> QED BY <3>1, <2>3, <1>3 DEF CallFor, Lists
  <2> QED BY <2>2, <2>3
<1>4. ASSUME NEW h \in Host
      PROVE  /\ Held(s, h)' => Held(s, h)
             /\ HeldOnce(s, h)'
             /\ ListingBefore(s, h)'
  <2>1. HeldOnce(s, h) /\ ListingBefore(s, h)
    BY DEF Orderly
  <2>2. /\ HostsOf(s)' = HostsOf(s) /\ CallFor(s, h)' = CallFor(s, h)
        /\ \A q : Lists(q, s, h)' <=> Lists(q, s, h)
    BY <1>2 DEF HostsOf, CallFor, Lists
  <2>3. Held(s, h)' => Held(s, h)
    BY <2>2, <1>1, <1>3 DEF Held
  <2>4. ASSUME NEW t \in Thread, pending'[t] = CallFor(s, h)
        PROVE  /\ h \notin HostsOf(s)
               /\ \A u \in Thread : pending'[u] = CallFor(s, h) => u = t
    BY <2>1, <2>4, <1>3 DEF HeldOnce
  <2>5. ASSUME NEW q \in listed', Lists(q, s, h)
        PROVE  /\ h \notin HostsOf(s)
               /\ \A t \in Thread : pending'[t] # CallFor(s, h)
               /\ \A o \in listed' : Lists(o, s, h) => o = q
    <3>1. q \in listed /\ q # r /\ r \in listed
      BY <2>5, <1>1
    <3>2. ~Lists(r, s, h)
      BY <3>1, <2>1, <2>5 DEF HeldOnce
    <3> QED BY <3>1, <3>2, <2>1, <2>5, <1>1, <1>3 DEF HeldOnce
  <2>6. HeldOnce(s, h)'
    BY <2>1, <2>2, <2>4, <2>5, <1>2 DEF HeldOnce
  <2>7. ListingBefore(s, h)'
    <3>1. \A i : DeleteEvent(s, h, i)' <=> DeleteEvent(s, h, i)
      BY <1>1 DEF DeleteEvent, Is
    <3>2. pending'["main"] = CallFor(s, h) => Lists(r, s, h)
      BY <1>2, <1>3
    <3> QED BY <3>1, <3>2, <2>1, <2>2, <1>1, <1>2 DEF ListingBefore
  <2> QED BY <2>3, <2>6, <2>7
<1>5. ASSUME NEW h \in Host
      PROVE  InTurn(s, h)'
  BY <1>1, <1>4, SameTurn DEF Orderly, Registered, Unshown
<1>6. Linked(s)' /\ NothingYet(s)'
  BY <1>1, <1>2 DEF Orderly, Linked, NothingYet
<1> QED BY <1>4, <1>5, <1>6 DEF Orderly

-----------------------------------------------------------------------------
(* Steps that move the channels.                                            *)

\* A call is in progress only when the thread is not idle.
LEMMA CallIsNotIdle ==
    ASSUME NEW s \in Followed, NEW h \in Host
    PROVE  CallFor(s, h) \in Call /\ CallFor(s, h) # Idle
BY FollowedAssumption, NullsAssumption DEF CallFor, Call

\* What the second half of serviceOnline does to one service.
LEMMA Appended ==
    ASSUME RpcTypeOK, NEW t \in Thread, appendChannel(t), NEW s \in Service
    PROVE  \/ channels'[s] = channels[s] /\ hostMap'[s] = hostMap[s]
           \/ \E c \in Channel :
                 /\ pending[t] = CallFor(s, c.host)
                 /\ channels'[s] = Append(channels[s], c)
                 /\ hostMap'[s] = [hostMap[s] EXCEPT ![c.host] = c]
<1>1. CASE pending[t].host \in BadHost
  BY <1>1 DEF appendChannel
<1>2. CASE pending[t].host \notin BadHost
  <2> DEFINE u == pending[t].service
             c == [id |-> created, host |-> pending[t].host]
  <2>1. pending[t] \in Call
    BY DEF RpcTypeOK, appendChannel
  <2>2. /\ u \in Service /\ c \in Channel /\ c.host = pending[t].host
        /\ pending[t] = CallFor(u, c.host)
    BY <2>1 DEF RpcTypeOK, Call, Channel, CallFor
  <2>3. /\ channels' = [channels EXCEPT ![u] = Append(channels[u], c)]
        /\ hostMap' = [hostMap EXCEPT ![u] = [hostMap[u] EXCEPT ![c.host] = c]]
    BY <1>2 DEF appendChannel, AddChannel
  <2> HIDE DEF c, u
  <2>4. CASE u = s
    BY <2>2, <2>3, <2>4 DEF RpcTypeOK
  <2>5. CASE u # s
    BY <2>2, <2>3, <2>5 DEF RpcTypeOK
  <2> QED BY <2>4, <2>5
<1> QED BY <1>1, <1>2

\* The channel of a host on its way is the only one to that host.
LEMMA FinishAppendOrder ==
    ASSUME OrderInv, NEW s \in Followed, Orderly(s),
           NEW t \in Thread, FinishAppend(t)
    PROVE  Orderly(s)'
<1>1. /\ appendChannel(t) /\ RpcTypeOK /\ s \in Service
      /\ UNCHANGED <<etcd, events, watching, phase, listed, missed>>
      /\ channels[s] \in Seq(Channel)
      /\ pending' = [pending EXCEPT ![t] = Idle]
  BY FollowedAssumption
     DEF FinishAppend, discoveryVars, OrderInv, IInv, TypeOK, appendChannel,
         RpcTypeOK
<1>2. ASSUME NEW h \in Host, NEW u \in Thread, pending'[u] = CallFor(s, h)
      PROVE  u # t /\ pending[u] = CallFor(s, h)
  BY <1>1, <1>2, CallIsNotIdle DEF RpcTypeOK
<1>3. PICK n \in Nat : n = Len(channels[s]) /\ DOMAIN channels[s] = 1..n
  BY <1>1
<1> DEFINE Added(c) ==
              /\ pending[t] = CallFor(s, c.host)
              /\ channels'[s] = Append(channels[s], c)
              /\ hostMap'[s] = [hostMap[s] EXCEPT ![c.host] = c]
<1>4. \/ channels'[s] = channels[s] /\ hostMap'[s] = hostMap[s]
      \/ \E c \in Channel : Added(c)
  BY <1>1, Appended
<1>5. ASSUME NEW c \in Channel, Added(c)
      PROVE  /\ c.host \in Host
             /\ DOMAIN channels'[s] = 1..(n + 1)
             /\ channels'[s][n + 1] = c
             /\ \A i \in 1..n : channels'[s][i] = channels[s][i]
             /\ c.host \notin HostsOf(s)
             /\ \A i \in 1..n : channels[s][i].host # c.host
  <2>1. c.host \in Host
    BY DEF Channel
  <2>2. HeldOnce(s, c.host)
    BY <2>1 DEF Orderly
  <2>3. c.host \notin HostsOf(s)
    BY <2>2, <1>5 DEF HeldOnce
  <2> QED BY <2>1, <2>3, <1>1, <1>3, <1>5 DEF HostsOf
<1>6. ASSUME NEW h \in HostsOf(s)'
      PROVE  h \in HostsOf(s) \/ pending[t] = CallFor(s, h)
  <2>1. CASE channels'[s] = channels[s]
    BY <2>1 DEF HostsOf
  <2>2. ASSUME NEW c \in Channel, Added(c)
        PROVE  h \in HostsOf(s) \/ pending[t] = CallFor(s, h)
    <3>1. PICK i \in 1..(n + 1) : channels'[s][i].host = h
      BY <2>2, <1>5 DEF HostsOf
    <3> QED BY <3>1, <2>2, <1>3, <1>5 DEF HostsOf
  <2> QED BY <2>1, <2>2, <1>4
<1>7. ASSUME NEW h \in Host
      PROVE  HeldOnce(s, h)' /\ InTurn(s, h)' /\ ListingBefore(s, h)'
  <2>1. HeldOnce(s, h) /\ InTurn(s, h) /\ ListingBefore(s, h)
    BY DEF Orderly
  <2>2. /\ CallFor(s, h)' = CallFor(s, h)
        /\ \A r : Lists(r, s, h)' <=> Lists(r, s, h)
        /\ \A i : DeleteEvent(s, h, i)' <=> DeleteEvent(s, h, i)
        /\ Registered(s, h)' <=> Registered(s, h)
        /\ Unshown(s)' <=> Unshown(s)
    BY <1>1 DEF CallFor, Lists, DeleteEvent, Is, Registered, Unshown
  <2>3. Held(s, h)' => Held(s, h)
    BY <2>2, <1>1, <1>2, <1>6 DEF Held
  <2>4. InTurn(s, h)'
    BY <2>1, <2>2, <2>3, <1>1, SameTurn
  <2>5. ListingBefore(s, h)'
    <3>1. "main" \in Thread
      BY ThreadAssumption
    <3> QED BY <3>1, <2>1, <2>2, <1>1, <1>2 DEF ListingBefore
  <2>6. ASSUME NEW u \in Thread, pending'[u] = CallFor(s, h)
        PROVE  /\ ~(h \in HostsOf(s)')
               /\ \A v \in Thread : pending'[v] = CallFor(s, h) => v = u
    <3>1. u # t /\ pending[u] = CallFor(s, h)
      BY <2>6, <1>2
    <3>2. pending[t] # CallFor(s, h) /\ h \notin HostsOf(s)
      BY <3>1, <2>1 DEF HeldOnce
    <3>3. \A v \in Thread : pending'[v] = CallFor(s, h) => v = u
      BY <3>1, <2>1, <1>2 DEF HeldOnce
    <3> QED BY <3>2, <3>3, <1>6
  <2>7. ASSUME NEW r \in listed, Lists(r, s, h)
        PROVE  /\ ~(h \in HostsOf(s)')
               /\ \A v \in Thread : pending'[v] # CallFor(s, h)
               /\ \A q \in listed : Lists(q, s, h) => q = r
    BY <2>1, <2>7, <1>2, <1>6 DEF HeldOnce
  <2>8. ASSUME NEW i \in DOMAIN channels'[s], NEW j \in DOMAIN channels'[s],
               channels'[s][i].host = h, channels'[s][j].host = h
        PROVE  i = j
    <3>1. CASE channels'[s] = channels[s]
      BY <3>1, <2>1, <2>8 DEF HeldOnce
    <3>2. ASSUME NEW c \in Channel, Added(c)
          PROVE  i = j
      <4>1. i \in 1..(n + 1) /\ j \in 1..(n + 1)
        BY <3>2, <1>5
      <4>2. CASE i \in 1..n /\ j \in 1..n
        BY <4>2, <3>2, <2>1, <2>8, <1>3, <1>5 DEF HeldOnce
      <4>3. CASE i = n + 1 /\ j \in 1..n
        BY <4>3, <3>2, <2>8, <1>5
      <4>4. CASE j = n + 1 /\ i \in 1..n
        BY <4>4, <3>2, <2>8, <1>5
      <4> QED BY <4>1, <4>2, <4>3, <4>4
    <3> QED BY <3>1, <3>2, <1>4
  <2>9. HeldOnce(s, h)'
    BY <2>2, <2>6, <2>7, <2>8, <1>1 DEF HeldOnce
  <2> QED BY <2>4, <2>5, <2>9
<1>8. Linked(s)'
  <2>1. CASE channels'[s] = channels[s] /\ hostMap'[s] = hostMap[s]
    BY <2>1 DEF Linked, Orderly
  <2>2. ASSUME NEW c \in Channel, Added(c), NEW i \in DOMAIN channels'[s]
        PROVE  hostMap'[s][channels'[s][i].host] = channels'[s][i]
    <3>1. hostMap[s] \in [Host -> Channel \cup {NoChannel}]
      BY <1>1 DEF RpcTypeOK
    <3>2. CASE i = n + 1
      BY <3>1, <3>2, <2>2, <1>5
    <3>3. CASE i # n + 1
      <4>1. i \in 1..n /\ channels'[s][i] = channels[s][i]
        BY <3>3, <2>2, <1>3, <1>5
      <4>2. channels[s][i].host \in Host /\ channels[s][i].host # c.host
        <5>1. channels[s][i] \in Channel
          BY <4>1, <1>1, <1>3
        <5> QED BY <5>1, <4>1, <2>2, <1>5 DEF Channel
      <4>3. hostMap[s][channels[s][i].host] = channels[s][i]
        BY <4>1, <1>3 DEF Orderly, Linked
      <4> QED BY <4>1, <4>2, <4>3, <3>1, <2>2
    <3> QED BY <3>2, <3>3
  <2> QED BY <2>1, <2>2, <1>4 DEF Linked
<1>9. NothingYet(s)'
  <2>1. CASE phase \in {"constructing", "ready"}
    <3>1. pending["main"] = Idle
      BY <2>1 DEF OrderInv, MainIdle
    <3>2. \A h \in Host : pending[t] # CallFor(s, h)
      BY <3>1, <2>1, CallIsNotIdle, ThreadAssumption DEF Orderly, NothingYet
    <3>3. channels'[s] = channels[s]
      BY <3>2, <1>4, <1>5
    <3>4. "watch" \in Thread
      BY ThreadAssumption
    <3> QED BY <3>3, <3>4, <1>1, <1>2, <2>1 DEF Orderly, NothingYet, CallFor
  <2>2. CASE phase \notin {"constructing", "ready"}
    BY <2>2, <1>1 DEF NothingYet
  <2> QED BY <2>1, <2>2
<1> QED BY <1>7, <1>8, <1>9 DEF Orderly

\* Handling the first event, whatever becomes of the channels.
LEMMA TailOrder ==
    ASSUME TypeOK, NEW s \in Followed, Orderly(s),
           events # <<>>, events' = Tail(events),
           UNCHANGED <<etcd, watching, phase, listed, missed>>,
           pending'["main"] = pending["main"],
           \A h \in Host :
              Held(s, h)' => \/ Held(s, h) /\ ~DeleteEvent(s, h, 1)
                             \/ PutEvent(s, h, 1)
    PROVE  /\ \A h \in Host : InTurn(s, h)' /\ ListingBefore(s, h)'
           /\ phase \in {"constructing", "ready"} =>
                 \A i \in DOMAIN events' :
                    events'[i].type = "put" => ServiceOf[events'[i].key] # s
<1>1. ASSUME NEW h \in Host
      PROVE  InTurn(s, h)'
  BY TailTurn DEF Orderly, Registered, Unshown
<1>2. ASSUME NEW h \in Host
      PROVE  ListingBefore(s, h)'
  <2>1. ASSUME NEW i, DeleteEvent(s, h, i)'
        PROVE  i + 1 \in DOMAIN events /\ DeleteEvent(s, h, i + 1)
    BY <2>1, TailEvents DEF DeleteEvent, Is
  <2> QED BY <2>1 DEF Orderly, ListingBefore, Lists, CallFor, Registered
<1>3. phase \in {"constructing", "ready"} =>
          \A i \in DOMAIN events' :
             events'[i].type = "put" => ServiceOf[events'[i].key] # s
  BY TailEvents DEF Orderly, NothingYet
<1> QED BY <1>1, <1>2, <1>3

\* An event that comes too early is skipped.
LEMMA TooEarlyOrder ==
    ASSUME OrderInv, NEW s \in Followed, Orderly(s), WatchTooEarly
    PROVE  Orderly(s)'
<1>1. /\ TypeOK /\ events # <<>> /\ events' = Tail(events)
      /\ phase = "constructing"
      /\ UNCHANGED <<channels, hostMap, pending, etcd, watching, phase, listed,
                     missed>>
  BY DEF WatchTooEarly, OrderInv, IInv
<1>2. \A h \in Host : Held(s, h)' <=> Held(s, h)
  BY <1>1 DEF Held, HostsOf, Lists, CallFor
<1>3. \A h \in Host : ~Held(s, h)
  BY <1>1, NothingHeld
<1>4. \A h \in Host : HeldOnce(s, h)'
  BY <1>1 DEF Orderly, HeldOnce, HostsOf, Lists, CallFor
<1>5. Linked(s)'
  BY <1>1 DEF Orderly, Linked
<1>6. /\ \A h \in Host : InTurn(s, h)' /\ ListingBefore(s, h)'
      /\ \A i \in DOMAIN events' :
            events'[i].type = "put" => ServiceOf[events'[i].key] # s
  BY <1>1, <1>2, <1>3, TailOrder
<1>7. NothingYet(s)'
  BY <1>1, <1>6 DEF Orderly, NothingYet, CallFor
<1> QED BY <1>4, <1>5, <1>6, <1>7 DEF Orderly

\* An announcement puts a host on its way that had no channel before.
LEMMA WatchPutOrder ==
    ASSUME OrderInv, NEW s \in Followed, Orderly(s),
           watcherCallback, Head(events).type = "put"
    PROVE  Orderly(s)'
<1> DEFINE e == Head(events)
<1>1. /\ TypeOK /\ events # <<>> /\ events' = Tail(events)
      /\ e = events[1] /\ 1 \in DOMAIN events /\ e \in Event
      /\ e.type = "put" /\ phase # "constructing"
      /\ serviceOnline("watch", ServiceOf[e.key], e.host)
      /\ UNCHANGED <<etcd, watching, phase, listed, missed>>
  BY DEF watcherCallback, OrderInv, IInv, TypeOK
<1> HIDE DEF e
<1>2. /\ UNCHANGED <<channels, hostMap>>
      /\ pending["watch"] = Idle
      /\ "main" \in Thread /\ "watch" \in Thread
      /\ pending'["main"] = pending["main"]
  BY <1>1, ThreadAssumption DEF serviceOnline, TypeOK, RpcTypeOK
<1>3. ASSUME NEW h \in Host
      PROVE  /\ PutEvent(s, h, 1) <=> ServiceOf[e.key] = s /\ e.host = h
             /\ ~DeleteEvent(s, h, 1)
  BY <1>1 DEF PutEvent, DeleteEvent, Is
<1>4. ASSUME NEW h \in Host, NEW t \in Thread, pending'[t] = CallFor(s, h)
      PROVE  \/ t # "watch" /\ pending[t] = CallFor(s, h)
             \/ t = "watch" /\ PutEvent(s, h, 1)
  <2>1. CASE t = "main"
    BY <2>1, <1>2, <1>4
  <2>2. CASE t = "watch"
    <3>1. pending'["watch"] = [service |-> ServiceOf[e.key], host |-> e.host]
      BY <2>2, <1>1, <1>2, <1>4, CallIsNotIdle
         DEF serviceOnline, TypeOK, RpcTypeOK
    <3> QED BY <3>1, <2>2, <1>3, <1>4 DEF CallFor
  <2> QED BY <2>1, <2>2, ThreadAssumption
<1>5. ASSUME NEW h \in Host, PutEvent(s, h, 1)
      PROVE  ~Held(s, h)
  <2>1. Announced(s, h, 0) <=> Held(s, h)
    BY <1>1 DEF Announced, PutEvent, TypeOK
  <2>2. Until(s, h, 1)
    BY <1>5 DEF Until
  <2>3. 0 \in 0..(Len(events) + 1) /\ 1 \in 0..(Len(events) + 1)
    BY <1>1 DEF TypeOK
  <2>4. InTurn(s, h)
    BY DEF Orderly
  <2> QED BY <2>1, <2>2, <2>3, <2>4 DEF InTurn
<1>6. ASSUME NEW h \in Host
      PROVE  HeldOnce(s, h)' /\ (Held(s, h)' => Held(s, h) \/ PutEvent(s, h, 1))
  <2>1. /\ HostsOf(s)' = HostsOf(s) /\ CallFor(s, h)' = CallFor(s, h)
        /\ \A r : Lists(r, s, h)' <=> Lists(r, s, h)
    BY <1>2 DEF HostsOf, CallFor, Lists
  <2>2. Held(s, h)' => Held(s, h) \/ PutEvent(s, h, 1)
    BY <2>1, <1>1, <1>4 DEF Held
  <2>3. CASE PutEvent(s, h, 1)
    <3>1. ~Held(s, h)
      BY <2>3, <1>5
    <3>2. \A t \in Thread : pending'[t] = CallFor(s, h) => t = "watch"
      BY <3>1, <1>4 DEF Held
    <3>3. \A i \in DOMAIN channels[s] : channels[s][i].host # h
      BY <3>1 DEF Held, HostsOf
    <3> QED BY <3>1, <3>2, <3>3, <2>1, <2>2, <1>1, <1>2 DEF Held, HeldOnce
  <2>4. CASE ~PutEvent(s, h, 1)
    <3>1. \A t \in Thread :
              pending'[t] = CallFor(s, h) => pending[t] = CallFor(s, h)
      BY <2>4, <1>4
    <3>2. HeldOnce(s, h)
      BY DEF Orderly
    <3> QED BY <3>1, <3>2, <2>1, <2>2, <1>1, <1>2 DEF HeldOnce
  <2> QED BY <2>3, <2>4
<1>7. /\ \A h \in Host : InTurn(s, h)' /\ ListingBefore(s, h)'
      /\ phase \in {"constructing", "ready"} =>
            \A i \in DOMAIN events' :
               events'[i].type = "put" => ServiceOf[events'[i].key] # s
  BY <1>1, <1>2, <1>3, <1>6, TailOrder
<1>8. Linked(s)'
  BY <1>2 DEF Orderly, Linked
<1>9. NothingYet(s)'
  <2>1. CASE phase \in {"constructing", "ready"}
    <3>1. \A h \in Host : ~PutEvent(s, h, 1)
      BY <2>1, <1>1 DEF Orderly, NothingYet, PutEvent, Is
    <3>2. \A h \in Host : pending'["watch"] # CallFor(s, h)
      BY <3>1, <1>2, <1>4
    <3> QED BY <3>2, <2>1, <1>1, <1>2, <1>7 DEF Orderly, NothingYet, CallFor
  <2>2. CASE phase \notin {"constructing", "ready"}
    BY <2>2, <1>1 DEF NothingYet
  <2> QED BY <2>1, <2>2
<1> QED BY <1>6, <1>7, <1>8, <1>9 DEF Orderly

\* What serviceOffline leaves of a service with one channel to each host.
LEMMA Removed ==
    ASSUME RpcTypeOK, MapIndexesVector, NEW s \in Followed, Linked(s),
           \A h \in Host : HeldOnce(s, h),
           NEW t \in Thread, NEW u \in Service, NEW g \in Host,
           serviceOffline(t, u, g)
    PROVE  /\ UNCHANGED pending
           /\ Linked(s)'
           /\ HostsOf(s)' \subseteq HostsOf(s)
           /\ u = s => g \notin HostsOf(s)'
           /\ \A i, j \in DOMAIN channels'[s] :
                 channels'[s][i].host = channels'[s][j].host => i = j
           /\ channels[s] = <<>> => channels'[s] = <<>>
<1>1. /\ s \in Service /\ channels[s] \in Seq(Channel)
      /\ hostMap[s] \in [Host -> Channel \cup {NoChannel}]
      /\ \A i \in DOMAIN channels[s] :
            channels[s][i] \in Channel /\ channels[s][i].host \in Host
  <2>1. s \in Service /\ channels[s] \in Seq(Channel)
    BY FollowedAssumption DEF RpcTypeOK
  <2>2. \A i \in DOMAIN channels[s] : channels[s][i] \in Channel
    BY <2>1
  <2> QED BY <2>1, <2>2 DEF RpcTypeOK, Channel
<1>2. \A i, j \in DOMAIN channels[s] :
          channels[s][i].host = channels[s][j].host => i = j
  BY <1>1 DEF HeldOnce
<1>3. UNCHANGED pending
  BY DEF serviceOffline
<1>4. CASE UNCHANGED <<channels, hostMap>> /\ (u = s => hostMap[s][g] = NoChannel)
  <2>1. ASSUME u = s, NEW i \in DOMAIN channels[s], channels[s][i].host = g
        PROVE  FALSE
    <3>1. hostMap[s][g] = channels[s][i] /\ hostMap[s][g] = NoChannel
      BY <2>1, <1>4 DEF Linked
    <3> QED BY <3>1, <1>1, NullsAssumption
  <2>2. HostsOf(s)' = HostsOf(s) /\ Linked(s)'
    BY <1>4 DEF HostsOf, Linked
  <2>3. u = s => g \notin HostsOf(s)
    BY <2>1 DEF HostsOf
  <2> QED BY <2>2, <2>3, <1>2, <1>3, <1>4
<1>5. CASE u # s /\ removeChannel(u, g)
  <2>1. channels'[s] = channels[s] /\ hostMap'[s] = hostMap[s]
    BY <1>1, <1>5 DEF removeChannel, RpcTypeOK
  <2> QED BY <2>1, <1>2, <1>3, <1>5 DEF Linked, HostsOf
<1>6. CASE u = s /\ removeChannel(u, g) /\ hostMap[s][g] # NoChannel
  <2> DEFINE q == channels[s]
             c == hostMap[s][g]
             k == CHOOSE i \in DOMAIN q : q[i] = c
  <2>1. c.host = g /\ \E i \in DOMAIN q : q[i] = c
    BY <1>1, <1>6 DEF MapIndexesVector
  <2>2. k \in DOMAIN q /\ q[k] = c
    BY <2>1
  <2>3. /\ channels'[s] = RemoveAt(q, k)
        /\ hostMap'[s] = [hostMap[s] EXCEPT ![g] = NoChannel]
    <3>1. channels'[s] = Without(q, c)
      BY <1>1, <1>6 DEF removeChannel, RpcTypeOK
    <3> QED BY <3>1, <2>1, <1>1, <1>6 DEF Without, removeChannel, RpcTypeOK
  <2> HIDE DEF k
  <2>4. PICK n \in Nat : n = Len(q) /\ DOMAIN q = 1..n
    BY <1>1
  <2>5. /\ DOMAIN channels'[s] = 1..(n - 1)
        /\ \A j \in 1..(n - 1) :
              channels'[s][j] = IF j < k THEN q[j] ELSE q[j + 1]
    <3>1. /\ RemoveAt(q, k) \in Seq(Channel)
          /\ Len(RemoveAt(q, k)) = n - 1
          /\ \A j \in 1..(n - 1) :
                RemoveAt(q, k)[j] = IF j < k THEN q[j] ELSE q[j + 1]
      BY <1>1, <2>2, <2>4, RemoveAtElements
    <3> QED BY <3>1, <2>3, <2>4
  <2> DEFINE f(j) == IF j < k THEN j ELSE j + 1
  <2>6. \A j \in 1..(n - 1) : /\ f(j) \in 1..n /\ f(j) # k
                               /\ channels'[s][j] = q[f(j)]
    BY <2>2, <2>4, <2>5
  <2>7. \A i, j \in 1..(n - 1) : f(i) = f(j) => i = j
    BY <2>2, <2>4
  <2> HIDE DEF f
  <2>8. ASSUME NEW i \in DOMAIN channels'[s], NEW j \in DOMAIN channels'[s],
               channels'[s][i].host = channels'[s][j].host
        PROVE  i = j
    <3>1. /\ f(i) \in DOMAIN q /\ channels'[s][i] = q[f(i)]
          /\ f(j) \in DOMAIN q /\ channels'[s][j] = q[f(j)]
      BY <2>4, <2>5, <2>6
    <3>2. f(i) = f(j)
      BY <3>1, <2>8, <1>2
    <3> QED BY <3>2, <2>5, <2>7
  <2>9. ASSUME NEW j \in DOMAIN channels'[s], channels'[s][j].host = g
        PROVE  FALSE
    <3>1. f(j) \in DOMAIN q /\ f(j) # k /\ channels'[s][j] = q[f(j)]
      BY <2>4, <2>5, <2>6
    <3>2. f(j) = k
      BY <3>1, <2>1, <2>2, <2>9, <1>2
    <3> QED BY <3>1, <3>2
  <2>10. Linked(s)'
    <3>1. ASSUME NEW j \in DOMAIN channels'[s]
          PROVE  hostMap'[s][channels'[s][j].host] = channels'[s][j]
      <4>1. /\ f(j) \in DOMAIN q /\ channels'[s][j] = q[f(j)]
            /\ q[f(j)].host # g /\ q[f(j)].host \in Host
        BY <2>4, <2>5, <2>6, <2>9, <1>1
      <4>2. hostMap[s][q[f(j)].host] = q[f(j)]
        BY <4>1 DEF Linked
      <4> QED BY <4>1, <4>2, <2>3, <1>1
    <3> QED BY <3>1 DEF Linked
  <2>11. HostsOf(s)' \subseteq HostsOf(s)
    BY <2>4, <2>5, <2>6 DEF HostsOf
  <2>12. g \notin HostsOf(s)'
    BY <2>9 DEF HostsOf
  <2>13. channels[s] # <<>>
    BY <2>2
  <2> QED BY <2>8, <2>10, <2>11, <2>12, <2>13, <1>3
<1>7. \/ UNCHANGED <<channels, hostMap>> /\ (u = s => hostMap[s][g] = NoChannel)
      \/ removeChannel(u, g) /\ hostMap[u][g] # NoChannel
  BY DEF serviceOffline
<1> QED BY <1>4, <1>5, <1>6, <1>7

\* A withdrawal takes the one channel of its host away.
LEMMA WatchDeleteOrder ==
    ASSUME OrderInv, NEW s \in Followed, Orderly(s),
           watcherCallback, Head(events).type = "delete"
    PROVE  Orderly(s)'
<1> DEFINE e == Head(events)
           u == ServiceOf[e.key]
<1>1. /\ TypeOK /\ MapIndexesVector
      /\ events # <<>> /\ events' = Tail(events)
      /\ e = events[1] /\ 1 \in DOMAIN events /\ e \in Event
      /\ e.type = "delete"
      /\ serviceOffline("watch", u, e.host)
      /\ UNCHANGED <<etcd, watching, phase, listed, missed>>
  BY DEF watcherCallback, OrderInv, IInv, TypeOK
<1>2. /\ u \in Service /\ e.host \in Host
      /\ "watch" \in Thread /\ "main" \in Thread
      /\ pending["watch"] = Idle
  BY <1>1, KeyAssumption, ThreadAssumption DEF Event, serviceOffline
<1> HIDE DEF e, u
<1>3. /\ UNCHANGED pending
      /\ Linked(s)'
      /\ HostsOf(s)' \subseteq HostsOf(s)
      /\ u = s => e.host \notin HostsOf(s)'
      /\ \A i, j \in DOMAIN channels'[s] :
            channels'[s][i].host = channels'[s][j].host => i = j
      /\ channels[s] = <<>> => channels'[s] = <<>>
  BY <1>1, <1>2, Removed DEF Orderly, TypeOK
<1>4. ASSUME NEW h \in Host
      PROVE  /\ DeleteEvent(s, h, 1) <=> u = s /\ e.host = h
             /\ ~PutEvent(s, h, 1)
  BY <1>1 DEF PutEvent, DeleteEvent, Is, u
<1>5. ASSUME NEW h \in Host
      PROVE  /\ HeldOnce(s, h)'
             /\ Held(s, h)' => Held(s, h) /\ ~DeleteEvent(s, h, 1)
  <2>1. HeldOnce(s, h) /\ ListingBefore(s, h)
    BY DEF Orderly
  <2>2. /\ CallFor(s, h)' = CallFor(s, h)
        /\ \A r : Lists(r, s, h)' <=> Lists(r, s, h)
    BY DEF CallFor, Lists
  <2>3. Held(s, h)' => Held(s, h)
    BY <2>2, <1>1, <1>3 DEF Held
  <2>4. ASSUME DeleteEvent(s, h, 1)
        PROVE  ~Held(s, h)'
    <3>1. /\ \A r \in listed : ~Lists(r, s, h)
          /\ pending["main"] # CallFor(s, h)
      BY <2>1, <2>4, <1>1 DEF ListingBefore
    <3>2. \A t \in Thread : pending[t] # CallFor(s, h)
      BY <3>1, <1>2, CallIsNotIdle, ThreadAssumption
    <3>3. ~(h \in HostsOf(s)')
      BY <2>4, <1>3, <1>4
    <3> QED BY <3>1, <3>2, <3>3, <2>2, <1>1, <1>3 DEF Held
  <2>5. HeldOnce(s, h)'
    BY <2>1, <2>2, <1>1, <1>3 DEF HeldOnce
  <2> QED BY <2>3, <2>4, <2>5
<1>6. /\ \A h \in Host : InTurn(s, h)' /\ ListingBefore(s, h)'
      /\ phase \in {"constructing", "ready"} =>
            \A i \in DOMAIN events' :
               events'[i].type = "put" => ServiceOf[events'[i].key] # s
  BY <1>1, <1>3, <1>5, TailOrder
<1>7. NothingYet(s)'
  BY <1>1, <1>3, <1>6 DEF Orderly, NothingYet, CallFor
<1> QED BY <1>3, <1>5, <1>6, <1>7 DEF Orderly

-----------------------------------------------------------------------------
(* Every step.                                                              *)

\* The main thread calls _putCb in the listing only.
LEMMA NextMainIdle ==
    ASSUME TypeOK, ListingOK, MainIdle, Next
    PROVE  MainIdle'
<1> USE DEF MainIdle, TypeOK, RpcTypeOK
<1>1. CASE SetCallbacks \/ discoverService \/ discoverServiceFails \/ ListingDone
  BY <1>1 DEF SetCallbacks, discoverService, discoverServiceFails, ListingDone,
              rpcVars
<1>2. CASE PutListed
  BY <1>2 DEF PutListed, ListingOK
<1>3. ASSUME NEW t \in Thread, FinishAppend(t) PROVE MainIdle'
  BY <1>3 DEF FinishAppend, appendChannel, discoveryVars
<1>4. CASE WatchTooEarly
  BY <1>4 DEF WatchTooEarly
<1>5. CASE watcherCallback
  BY <1>5, ThreadAssumption DEF watcherCallback, serviceOnline, serviceOffline
<1>6. CASE Environment
  BY <1>6 DEF Environment, Register, Expire, Change, WatchBreaks, rpcVars
<1>7. ASSUME NEW s \in Followed, Pick(s) PROVE MainIdle'
  BY <1>7 DEF Pick, getChannel, discoveryVars
<1> QED BY <1>1, <1>2, <1>3, <1>4, <1>5, <1>6, <1>7, ThreadAssumption
        DEF Next, Main, Watcher

\* Every step that does not disturb a service keeps it in order.
LEMMA NextOrder ==
    ASSUME OrderInv, Next, NEW s \in Followed, Orderly(s),
           \A k \in Key : ServiceOf[k] = s => ~Disturbs(k)
    PROVE  Orderly(s)'
<1>1. CASE SetCallbacks
  BY <1>1, QuietOrder DEF SetCallbacks, rpcVars, Unshown
<1>2. CASE discoverService
  BY <1>2, ListingOrder
<1>3. CASE discoverServiceFails
  <2>1. Unshown(s) => Unshown(s)'
    BY <1>3 DEF discoverServiceFails, Unshown, OrderInv, IInv, TypeOK
  <2> QED BY <2>1, <1>3, QuietOrder DEF discoverServiceFails, rpcVars
<1>4. CASE PutListed
  BY <1>4, PutListedOrder
<1>5. CASE ListingDone
  BY <1>5, QuietOrder DEF ListingDone, rpcVars, Unshown
<1>6. ASSUME NEW t \in Thread, FinishAppend(t) PROVE Orderly(s)'
  BY <1>6, FinishAppendOrder
<1>7. CASE WatchTooEarly
  BY <1>7, TooEarlyOrder
<1>8. CASE watcherCallback
  <2>1. Head(events).type \in {"put", "delete"}
    BY <1>8 DEF watcherCallback
  <2> QED BY <2>1, <1>8, WatchPutOrder, WatchDeleteOrder
<1>9. ASSUME NEW k \in Key, NEW h \in Host, Register(k, h) PROVE Orderly(s)'
  <2>1. ServiceOf[k] = s => phase \in {"listing", "running"} /\ etcd[k] = NoHost
    BY <1>9 DEF Disturbs, OrderInv, IInv, TypeOK, Phase
  <2> QED BY <2>1, <1>9, RegisterOrder
<1>10. ASSUME NEW k \in Key, Expire(k) PROVE Orderly(s)'
  <2>1. ServiceOf[k] = s => phase # "listing"
    BY <1>10 DEF Disturbs
  <2> QED BY <2>1, <1>10, ExpireOrder
<1>11. CASE WatchBreaks
  BY <1>11, QuietOrder DEF WatchBreaks, rpcVars, Unshown
<1>12. ASSUME NEW u \in Followed, Pick(u) PROVE Orderly(s)'
  BY <1>12, QuietOrder DEF Pick, getChannel, discoveryVars, Unshown
<1> QED BY <1>1, <1>2, <1>3, <1>4, <1>5, <1>6, <1>7, <1>8, <1>9, <1>10, <1>11,
           <1>12, ThreadAssumption DEF Next, Main, Watcher, Environment

\* At the start there is nothing to be out of order.
LEMMA InitOrder == ObservedInit => OrderInv
<1> SUFFICES ASSUME ObservedInit PROVE OrderInv
  OBVIOUS
<1>1. IInv
  BY InitIInv DEF ObservedInit
<1>2. /\ events = <<>> /\ listed = {} /\ disturbed = {}
      /\ pending = [t \in Thread |-> Idle]
      /\ \A s \in Service : channels[s] = <<>>
  BY DEF ObservedInit, Init, RpcInit
<1>3. MainIdle
  BY <1>2, ThreadAssumption DEF MainIdle
<1>4. ASSUME NEW s \in Followed
      PROVE  Orderly(s)
  <2>1. channels[s] = <<>> /\ Len(events) = 0
    BY <1>2, FollowedAssumption
  <2>2. ASSUME NEW h \in Host
        PROVE  HeldOnce(s, h) /\ InTurn(s, h) /\ ListingBefore(s, h)
    <3>1. \A t \in Thread : pending[t] # CallFor(s, h)
      BY <1>2, CallIsNotIdle
    <3>2. ~Held(s, h) /\ \A i : ~PutEvent(s, h, i) /\ ~DeleteEvent(s, h, i)
      BY <3>1, <2>1, <1>2 DEF Held, HostsOf, PutEvent, DeleteEvent
    <3> QED BY <3>1, <3>2, <2>1, <1>2
            DEF HeldOnce, InTurn, Announced, ListingBefore, HostsOf
  <2>3. Linked(s) /\ NothingYet(s)
    <3>1. \A h \in Host : pending["watch"] # CallFor(s, h)
      BY <1>2, CallIsNotIdle, ThreadAssumption
    <3> QED BY <3>1, <2>1, <1>2 DEF Linked, NothingYet
  <2> QED BY <2>2, <2>3 DEF Orderly
<1> QED BY <1>1, <1>2, <1>3, <1>4 DEF OrderInv

\* The order of the services that nothing disturbs is inductive.
LEMMA NextOrderInv == OrderInv /\ [ObservedNext]_observedVars => OrderInv'
<1> SUFFICES ASSUME OrderInv, [ObservedNext]_observedVars PROVE OrderInv'
  OBVIOUS
<1>1. IInv'
  BY NextIInv DEF OrderInv, ObservedNext, observedVars
<1>2. CASE ObservedNext
  <2>1. Next /\ Watch
    BY <1>2 DEF ObservedNext
  <2>2. disturbed' \subseteq Service /\ disturbed \subseteq disturbed'
    BY <2>1, KeyAssumption DEF Watch, OrderInv
  <2>3. MainIdle'
    BY <2>1, NextMainIdle DEF OrderInv, IInv
  <2>4. ASSUME NEW s \in Followed, s \notin disturbed'
        PROVE  Orderly(s)'
    <3>1. \A k \in Key : ServiceOf[k] = s => ~Disturbs(k)
      BY <2>1, <2>4 DEF Watch
    <3>2. Orderly(s)
      BY <2>2, <2>4 DEF OrderInv
    <3> QED BY <3>1, <3>2, <2>1, NextOrder
  <2> QED BY <2>2, <2>3, <2>4, <1>1 DEF OrderInv
<1>3. CASE UNCHANGED observedVars
  <2>1. /\ UNCHANGED <<channels, hostMap, pending, events, listed, etcd, phase,
                       watching, missed, disturbed>>
    BY <1>3 DEF observedVars, vars, rpcVars, discoveryVars
  <2>2. \A s \in Followed : Orderly(s) => Orderly(s)'
    BY <2>1, QuietOrder DEF Unshown
  <2> QED BY <2>1, <2>2, <1>1 DEF OrderInv, MainIdle
<1> QED BY <1>2, <1>3

\* As long as its instances come and go in turn, a service is in order: its
\* queue alternates, its listing is the first announcement, and each host is
\* held in one way at most.
THEOREM OrderInvariant == ObservedSpec => []OrderInv
  BY InitOrder, NextOrderInv, PTL DEF ObservedSpec

\* Watching the changes constrains nothing: what is proved of Spec holds.
THEOREM ObservedIsSpec == ObservedSpec => Spec
<1>1. ObservedInit => Init
  BY DEF ObservedInit
<1>2. [ObservedNext]_observedVars => [Next]_vars
  BY DEF ObservedNext, observedVars
<1> QED BY <1>1, <1>2, PTL DEF ObservedSpec, Spec

\* When all notifications are applied, every channel of a service whose
\* instances came and went in turn leads to a registered host, also when the
\* listing failed or crossed a start, and when hosts passed between keys.
THEOREM UndisturbedServicesAreFresh == ObservedSpec => []UndisturbedIsFresh
<1>1. OrderInv => UndisturbedIsFresh
  <2> SUFFICES ASSUME OrderInv, Settled, NEW s \in Followed \ disturbed,
                      ~Unshown(s), NEW h \in HostsOf(s)
               PROVE  Registered(s, h)
    BY DEF UndisturbedIsFresh
  <2>1. h \in Host
    <3>1. channels[s] \in Seq(Channel)
      BY FollowedAssumption DEF OrderInv, IInv, TypeOK, RpcTypeOK
    <3>2. PICK i \in DOMAIN channels[s] : channels[s][i].host = h
      BY DEF HostsOf
    <3>3. channels[s][i] \in Channel
      BY <3>1, <3>2
    <3> QED BY <3>2, <3>3 DEF Channel
  <2>2. InTurn(s, h) /\ Len(events) = 0
    BY <2>1 DEF OrderInv, Orderly, Settled
  <2>3. Announced(s, h, 0)
    BY DEF Announced, Held
  <2>4. ~Registered(s, h) => Until(s, h, 1)
    BY <2>2 DEF Until
  <2> QED BY <2>2, <2>3, <2>4 DEF InTurn
<1> QED BY <1>1, OrderInvariant, PTL

\* A service whose instances came and went in turn never has two channels to
\* one host, and its map leads to the one: removeChannel leaves none behind.
THEOREM OneChannelPerHost == ObservedSpec => []OneChannelEach
<1>1. OrderInv => OneChannelEach
  <2> SUFFICES ASSUME OrderInv, NEW s \in Followed \ disturbed,
                      NEW i \in DOMAIN channels[s], NEW j \in DOMAIN channels[s]
               PROVE  /\ channels[s][i].host = channels[s][j].host => i = j
                      /\ hostMap[s][channels[s][i].host] = channels[s][i]
    BY DEF OneChannelEach
  <2>1. channels[s][i].host \in Host
    <3>1. channels[s] \in Seq(Channel)
      BY FollowedAssumption DEF OrderInv, IInv, TypeOK, RpcTypeOK
    <3>2. channels[s][i] \in Channel
      BY <3>1
    <3> QED BY <3>2 DEF Channel
  <2> QED BY <2>1 DEF OrderInv, Orderly, HeldOnce, Linked
<1> QED BY <1>1, OrderInvariant, PTL
=============================================================================
