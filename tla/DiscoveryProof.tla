----------------------------- MODULE DiscoveryProof -----------------------------
(***************************************************************************)
(* Theorems about Discovery for every set of services, hosts, keys and     *)
(* any number of registrations.                                            *)
(***************************************************************************)
EXTENDS Discovery, TLAPS

-----------------------------------------------------------------------------
(* Erasing a channel from the vector.                                       *)

\* RemoveAt closes the gap and leaves the other elements in order.
LEMMA RemoveAtElements ==
  ASSUME NEW S, NEW q \in Seq(S), NEW i \in DOMAIN q
  PROVE  /\ RemoveAt(q, i) \in Seq(S)
         /\ Len(RemoveAt(q, i)) = Len(q) - 1
         /\ \A j \in 1..(Len(q) - 1) :
              RemoveAt(q, i)[j] = IF j < i THEN q[j] ELSE q[j + 1]
<1> DEFINE front == SubSeq(q, 1, i - 1)
           back == SubSeq(q, i + 1, Len(q))
<1>1. i \in Nat /\ 1 <= i /\ i <= Len(q) /\ Len(q) \in Nat
  OBVIOUS
<1>2. /\ front \in Seq(S)
      /\ Len(front) = i - 1
      /\ \A j \in 1..(i - 1) : front[j] = q[j]
  BY <1>1
<1>3. /\ back \in Seq(S)
      /\ Len(back) = Len(q) - i
      /\ \A j \in 1..(Len(q) - i) : back[j] = q[j + i]
  BY <1>1
<1>4. RemoveAt(q, i) = front \o back
  BY DEF RemoveAt
<1> HIDE DEF front, back
<1>5. /\ front \o back \in Seq(S)
      /\ Len(front \o back) = Len(q) - 1
  BY <1>1, <1>2, <1>3
<1>6. ASSUME NEW j \in 1..(Len(q) - 1)
      PROVE  (front \o back)[j] = IF j < i THEN q[j] ELSE q[j + 1]
  <2>1. CASE j < i
    BY <1>1, <1>2, <1>3, <2>1
  <2>2. CASE ~(j < i)
    <3>1. (front \o back)[j] = back[j - (i - 1)]
      BY <1>1, <1>2, <1>3, <2>2
    <3>2. j - (i - 1) \in 1..(Len(q) - i)
      BY <1>1, <2>2
    <3>3. (j - (i - 1)) + i = j + 1
      BY <1>1
    <3>4. QED  BY <1>3, <2>2, <3>1, <3>2, <3>3
  <2>3. QED  BY <2>1, <2>2
<1>7. QED  BY <1>4, <1>5, <1>6

\* Erasing one channel keeps every other channel in the vector.
LEMMA WithoutKeepsOthers ==
  ASSUME NEW q \in Seq(Channel), NEW c, NEW i \in DOMAIN q, q[i] # c
  PROVE  \E j \in DOMAIN Without(q, c) : Without(q, c)[j] = q[i]
<1>1. CASE ~\E k \in DOMAIN q : q[k] = c
  BY <1>1 DEF Without
<1>2. CASE \E k \in DOMAIN q : q[k] = c
  <2> DEFINE k == CHOOSE k \in DOMAIN q : q[k] = c
  <2>1. k \in DOMAIN q /\ q[k] = c
    BY <1>2
  <2>2. Without(q, c) = RemoveAt(q, k)
    BY <1>2 DEF Without
  <2> HIDE DEF k
  <2>3. /\ RemoveAt(q, k) \in Seq(Channel)
        /\ Len(RemoveAt(q, k)) = Len(q) - 1
        /\ \A j \in 1..(Len(q) - 1) :
             RemoveAt(q, k)[j] = IF j < k THEN q[j] ELSE q[j + 1]
    BY <2>1, RemoveAtElements
  <2>4. DOMAIN RemoveAt(q, k) = 1..(Len(q) - 1)
    BY <2>3
  <2>5. Len(q) \in Nat /\ i \in 1..Len(q) /\ k \in 1..Len(q) /\ i # k
    BY <2>1
  <2>6. CASE i < k
    <3>1. i \in 1..(Len(q) - 1)
      BY <2>5, <2>6
    <3>2. QED  BY <2>2, <2>3, <2>4, <2>6, <3>1
  <2>7. CASE i > k
    <3>1. i - 1 \in 1..(Len(q) - 1) /\ ~(i - 1 < k) /\ (i - 1) + 1 = i
      BY <2>5, <2>7
    <3>2. QED  BY <2>2, <2>3, <2>4, <3>1
  <2>8. QED  BY <2>5, <2>6, <2>7
<1>3. QED  BY <1>1, <1>2

\* Erasing a channel leaves a vector of channels.
LEMMA WithoutType ==
  ASSUME NEW S, NEW q \in Seq(S), NEW c
  PROVE  Without(q, c) \in Seq(S)
<1>1. CASE \E k \in DOMAIN q : q[k] = c
  <2> DEFINE k == CHOOSE k \in DOMAIN q : q[k] = c
  <2>1. k \in DOMAIN q
    BY <1>1
  <2>2. QED  BY <1>1, <2>1, RemoveAtElements DEF Without
<1>2. QED  BY <1>1 DEF Without

-----------------------------------------------------------------------------
(* Types.                                                                   *)

\* The manager's operations keep its types.
LEMMA OnlineType ==
  ASSUME RpcTypeOK, NEW t \in Thread, NEW s \in Service, NEW h \in Host,
         serviceOnline(t, s, h)
  PROVE  RpcTypeOK'
  BY DEF RpcTypeOK, serviceOnline, Call

\* The second half of serviceOnline keeps the types.
LEMMA AppendType ==
  ASSUME RpcTypeOK, NEW t \in Thread, appendChannel(t)
  PROVE  RpcTypeOK'
<1>1. pending[t] \in Call /\ pending' = [pending EXCEPT ![t] = Idle]
  BY DEF RpcTypeOK, appendChannel
<1>2. pending' \in [Thread -> Call \cup {Idle}]
  BY <1>1 DEF RpcTypeOK
<1>3. CASE pending[t].host \in BadHost
  BY <1>2, <1>3 DEF RpcTypeOK, appendChannel
<1>4. CASE pending[t].host \notin BadHost
  <2> DEFINE s == pending[t].service
             c == [id |-> created, host |-> pending[t].host]
  <2>1. s \in Service /\ c \in Channel /\ c.host \in Host
    BY <1>1 DEF RpcTypeOK, Call, Channel
  <2>2. AddChannel(s, c)
    BY <1>4 DEF appendChannel
  <2> HIDE DEF s, c
  <2>3. channels' = [channels EXCEPT ![s] = Append(channels[s], c)]
    BY <2>2 DEF AddChannel
  <2>4. channels[s] \in Seq(Channel)
    BY <2>1 DEF RpcTypeOK
  <2>5. Append(channels[s], c) \in Seq(Channel)
    BY <2>1, <2>4
  <2>6. channels' \in [Service -> Seq(Channel)]
    BY <2>1, <2>3, <2>5 DEF RpcTypeOK
  <2>7. hostMap' \in [Service -> [Host -> Channel \cup {NoChannel}]]
    BY <2>1, <2>2 DEF AddChannel, RpcTypeOK
  <2>8. created' \in Nat
    BY <2>2 DEF AddChannel, RpcTypeOK
  <2>9. QED  BY <1>2, <2>6, <2>7, <2>8 DEF RpcTypeOK, appendChannel
<1>5. QED  BY <1>3, <1>4

\* serviceOffline keeps the types.
LEMMA OfflineType ==
  ASSUME RpcTypeOK, NEW t \in Thread, NEW s \in Service, NEW h \in Host,
         serviceOffline(t, s, h)
  PROVE  RpcTypeOK'
<1>1. CASE removeChannel(s, h)
  <2>1. channels' = [channels EXCEPT ![s] = Without(channels[s], hostMap[s][h])]
    BY <1>1 DEF removeChannel
  <2>2. Without(channels[s], hostMap[s][h]) \in Seq(Channel)
    BY WithoutType DEF RpcTypeOK
  <2>3. channels' \in [Service -> Seq(Channel)]
    BY <2>1, <2>2 DEF RpcTypeOK
  <2>4. hostMap' \in [Service -> [Host -> Channel \cup {NoChannel}]]
    BY <1>1 DEF removeChannel, RpcTypeOK
  <2>5. QED  BY <2>3, <2>4 DEF RpcTypeOK, serviceOffline
<1>2. CASE UNCHANGED <<channels, hostMap>>
  BY <1>2 DEF RpcTypeOK, serviceOffline
<1>3. QED  BY <1>1, <1>2 DEF serviceOffline

\* getChannel keeps the types: the index stays a number, and what it hands
\* out is a host or nothing.
LEMMA PickType ==
  ASSUME RpcTypeOK, NEW s \in Service, getChannel(s)
  PROVE  RpcTypeOK'
<1>1. channels[s] \in Seq(Channel) /\ rrIndex[s] \in Nat
  BY DEF RpcTypeOK
<1>2. UNCHANGED <<channels, hostMap, pending, created>>
  BY DEF getChannel
<1>3. CASE channels[s] # <<>>
  <2>1. Len(channels[s]) \in Nat \ {0}
    BY <1>1, <1>3
  <2>2. (rrIndex[s] + 1) % Len(channels[s]) \in Nat
    BY <1>1, <2>1
  <2>3. rrIndex' = NextIndex(s) => rrIndex' \in [Service -> Nat]
    BY <2>2 DEF NextIndex, RpcTypeOK
  <2>4. rrIndex[s] < Len(channels[s]) =>
            channels[s][rrIndex[s] + 1].host \in Host
    <3>1. ASSUME rrIndex[s] < Len(channels[s])
          PROVE  channels[s][rrIndex[s] + 1] \in Channel
      BY <1>1, <3>1
    <3>2. QED  BY <3>1 DEF Channel
  <2>5. got' \in [Service -> Host \cup {NoHost}]
    BY <1>3, <2>4 DEF getChannel, RpcTypeOK
  <2>6. rrIndex' = NextIndex(s) /\ crashed' \in BOOLEAN
    BY <1>3 DEF getChannel, RpcTypeOK
  <2>7. QED  BY <1>2, <2>3, <2>5, <2>6 DEF RpcTypeOK
<1>4. CASE channels[s] = <<>>
  <2>1. ~(rrIndex[s] < Len(channels[s]))
    BY <1>1, <1>4
  <2>2. UNCHANGED <<rrIndex, crashed>> /\ got' = [got EXCEPT ![s] = NoHost]
    BY <1>4, <2>1 DEF getChannel
  <2>3. QED  BY <1>2, <2>2 DEF RpcTypeOK
<1>5. QED  BY <1>3, <1>4

\* The environment keeps the types.
LEMMA EnvironmentType ==
  ASSUME TypeOK, Environment
  PROVE  TypeOK'
<1>1. ASSUME NEW k \in Key, NEW h \in Host, Register(k, h) PROVE TypeOK'
  <2> DEFINE e == [type |-> "put", key |-> k, host |-> h]
  <2>1. e \in Event
    BY DEF Event
  <2>2. Change(k, h, e)
    BY <1>1 DEF Register
  <2> HIDE DEF e
  <2>3. etcd' \in [Key -> Host \cup {NoHost}] /\ changes' \in Nat
    BY <2>2 DEF Change, TypeOK
  <2>4. events' \in Seq(Event)
    BY <2>1, <2>2 DEF Change, TypeOK
  <2>5. QED  BY <2>2, <2>3, <2>4 DEF Change, TypeOK, RpcTypeOK, rpcVars
<1>2. ASSUME NEW k \in Key, Expire(k) PROVE TypeOK'
  <2> DEFINE e == [type |-> "delete", key |-> k, host |-> etcd[k]]
  <2>1. e \in Event
    BY <1>2 DEF Event, Expire, TypeOK
  <2>2. Change(k, NoHost, e)
    BY <1>2 DEF Expire
  <2> HIDE DEF e
  <2>3. etcd' \in [Key -> Host \cup {NoHost}] /\ changes' \in Nat
    BY <2>2 DEF Change, TypeOK
  <2>4. events' \in Seq(Event)
    BY <2>1, <2>2 DEF Change, TypeOK
  <2>5. QED  BY <2>2, <2>3, <2>4 DEF Change, TypeOK, RpcTypeOK, rpcVars
<1>3. CASE WatchBreaks
  BY <1>3 DEF WatchBreaks, TypeOK, RpcTypeOK, rpcVars
<1>4. QED  BY <1>1, <1>2, <1>3 DEF Environment

\* The watcher keeps the types.
LEMMA WatcherType ==
  ASSUME TypeOK, Watcher
  PROVE  TypeOK'
<1>1. CASE WatchTooEarly
  <2>1. events' \in Seq(Event)
    BY <1>1 DEF WatchTooEarly, TypeOK
  <2>2. QED  BY <1>1, <2>1 DEF WatchTooEarly, TypeOK, RpcTypeOK
<1>2. CASE watcherCallback
  <2>1. Head(events) \in Event /\ events' \in Seq(Event)
    BY <1>2 DEF watcherCallback, TypeOK
  <2>2. /\ ServiceOf[Head(events).key] \in Service
        /\ Head(events).host \in Host
        /\ "watch" \in Thread
    BY <2>1, KeyAssumption, ThreadAssumption DEF Event
  <2>3. RpcTypeOK'
    BY <1>2, <2>2, OnlineType, OfflineType DEF watcherCallback, TypeOK
  <2>4. QED  BY <1>2, <2>1, <2>3 DEF watcherCallback, TypeOK
<1>3. CASE FinishAppend("watch")
  BY <1>3, AppendType, ThreadAssumption DEF FinishAppend, TypeOK, discoveryVars
<1>4. QED  BY <1>1, <1>2, <1>3 DEF Watcher

\* The main thread keeps the types.
LEMMA MainType ==
  ASSUME TypeOK, Main
  PROVE  TypeOK'
<1> USE DEF TypeOK, Phase
<1>1. CASE PutListed
  <2>1. PICK r \in listed : /\ serviceOnline("main", ServiceOf[r.key], r.host)
                            /\ listed' = listed \ {r}
    BY <1>1 DEF PutListed
  <2>2. ServiceOf[r.key] \in Service /\ r.host \in Host
    BY <2>1, KeyAssumption DEF Registration
  <2>3. RpcTypeOK'
    BY <2>1, <2>2, OnlineType, ThreadAssumption
  <2>4. QED  BY <1>1, <2>1, <2>3 DEF PutListed
<1>2. CASE FinishAppend("main")
  BY <1>2, AppendType, ThreadAssumption DEF FinishAppend, discoveryVars
<1>3. CASE SetCallbacks \/ discoverServiceFails \/ ListingDone
  BY <1>3 DEF SetCallbacks, discoverServiceFails, ListingDone, RpcTypeOK, rpcVars
<1>4. CASE discoverService
  BY <1>4 DEF discoverService, RpcTypeOK, rpcVars
<1>5. QED  BY <1>1, <1>2, <1>3, <1>4 DEF Main

\* Every step keeps the types.
LEMMA NextType == TypeOK /\ [Next]_vars => TypeOK'
<1> SUFFICES ASSUME TypeOK, [Next]_vars PROVE TypeOK'
  OBVIOUS
<1>1. ASSUME NEW s \in Followed, Pick(s) PROVE TypeOK'
  BY <1>1, PickType, FollowedAssumption DEF Pick, TypeOK, discoveryVars
<1>2. CASE UNCHANGED vars
  BY <1>2 DEF vars, rpcVars, discoveryVars, TypeOK, RpcTypeOK
<1>3. QED  BY <1>1, <1>2, EnvironmentType, WatcherType, MainType DEF Next

\* The manager starts empty and the watcher without events.
LEMMA InitType == Init => TypeOK
<1> SUFFICES ASSUME Init PROVE TypeOK
  OBVIOUS
<1>1. <<>> \in Seq(Channel) /\ <<>> \in Seq(Event)
  OBVIOUS
<1>2. RpcInit
  BY DEF Init
<1>3. channels \in [Service -> Seq(Channel)]
  BY <1>1, <1>2 DEF RpcInit
<1>4. hostMap \in [Service -> [Host -> Channel \cup {NoChannel}]]
  BY <1>2 DEF RpcInit
<1>5. RpcTypeOK
  BY <1>2, <1>3, <1>4 DEF RpcInit, RpcTypeOK
<1>6. QED  BY <1>1, <1>5 DEF Init, TypeOK, Phase

-----------------------------------------------------------------------------
(* The map and the vector.                                                  *)

\* appendChannel puts one and the same object into the vector and the map.
LEMMA AppendMap ==
  ASSUME RpcTypeOK, MapIndexesVector, NEW t \in Thread, appendChannel(t)
  PROVE  MapIndexesVector'
<1>1. CASE UNCHANGED <<channels, hostMap>>
  BY <1>1 DEF MapIndexesVector
<1>2. CASE ~UNCHANGED <<channels, hostMap>>
  <2> DEFINE s == pending[t].service
             c == [id |-> created, host |-> pending[t].host]
  <2>1. pending[t] \in Call
    BY DEF RpcTypeOK, appendChannel
  <2>2. s \in Service /\ c \in Channel
    BY <2>1 DEF RpcTypeOK, Call, Channel
  <2>3. AddChannel(s, c)
    BY <1>2 DEF appendChannel
  <2> HIDE DEF s, c
  <2>4. channels' = [channels EXCEPT ![s] = Append(channels[s], c)]
    BY <2>3 DEF AddChannel
  <2>5. /\ channels[s] \in Seq(Channel)
        /\ channels'[s] = Append(channels[s], c)
    BY <2>2, <2>4 DEF RpcTypeOK
  <2>6. /\ DOMAIN channels'[s] = 1..(Len(channels[s]) + 1)
        /\ \A i \in DOMAIN channels[s] :
              i \in DOMAIN channels'[s] /\ channels'[s][i] = channels[s][i]
        /\ channels'[s][Len(channels[s]) + 1] = c
        /\ Len(channels[s]) + 1 \in DOMAIN channels'[s]
    BY <2>2, <2>5
  <2>7. ASSUME NEW u \in Service, NEW h \in Host, hostMap'[u][h] # NoChannel
        PROVE  /\ hostMap'[u][h].host = h
               /\ \E i \in DOMAIN channels'[u] : channels'[u][i] = hostMap'[u][h]
    <3>1. CASE u = s /\ h = c.host
      <4>1. hostMap'[u][h] = c
        BY <2>2, <2>3, <3>1 DEF AddChannel, RpcTypeOK
      <4>2. QED  BY <2>6, <3>1, <4>1
    <3>2. CASE ~(u = s /\ h = c.host)
      <4>1. hostMap'[u][h] = hostMap[u][h]
        BY <2>2, <2>3, <3>2 DEF AddChannel, RpcTypeOK
      <4>2. u # s => channels'[u] = channels[u]
        BY <2>2, <2>4 DEF RpcTypeOK
      <4>3. QED  BY <2>6, <2>7, <4>1, <4>2 DEF MapIndexesVector
    <3>3. QED  BY <3>1, <3>2
  <2>8. QED  BY <2>7 DEF MapIndexesVector
<1>3. QED  BY <1>1, <1>2

\* What serviceOffline does to the vectors: only channels of the withdrawn
\* host go, and every other entry of the map keeps its channel.
LEMMA OfflineMap ==
  ASSUME RpcTypeOK, MapIndexesVector,
         NEW t \in Thread, NEW s \in Service, NEW h \in Host,
         serviceOffline(t, s, h)
  PROVE  /\ MapIndexesVector'
         /\ \A u \in Service : \A g \in HostsOf(u) :
              u # s \/ g # h => g \in HostsOf(u)'
<1>1. CASE UNCHANGED <<channels, hostMap>>
  BY <1>1 DEF MapIndexesVector, HostsOf
<1>2. CASE ~UNCHANGED <<channels, hostMap>>
  <2> DEFINE c == hostMap[s][h]
  <2>1. removeChannel(s, h) /\ c # NoChannel
    BY <1>2 DEF serviceOffline
  <2>2. channels[s] \in Seq(Channel)
    BY DEF RpcTypeOK
  <2>3. c.host = h
    BY <2>1 DEF MapIndexesVector
  <2>4. /\ channels' = [channels EXCEPT ![s] = Without(channels[s], c)]
        /\ hostMap' = [hostMap EXCEPT ![s] = [@ EXCEPT ![h] = NoChannel]]
    BY <2>1 DEF removeChannel
  <2>5. /\ channels'[s] = Without(channels[s], c)
        /\ \A u \in Service : u # s => channels'[u] = channels[u]
    BY <2>4 DEF RpcTypeOK
  <2> HIDE DEF c
  <2>6. ASSUME NEW u \in Service, NEW i \in DOMAIN channels[u],
               u # s \/ channels[u][i].host # h
        PROVE  \E j \in DOMAIN channels'[u] : channels'[u][j] = channels[u][i]
    <3>1. CASE u = s
      <4>1. channels[s][i] # c
        BY <2>3, <2>6, <3>1
      <4>2. i \in DOMAIN channels[s]
        BY <3>1
      <4>3. \A q \in Seq(Channel) : \A k \in DOMAIN q : q[k] # c =>
                \E j \in DOMAIN Without(q, c) : Without(q, c)[j] = q[k]
        BY WithoutKeepsOthers
      <4>4. \E j \in DOMAIN Without(channels[s], c) :
                Without(channels[s], c)[j] = channels[s][i]
        BY <2>2, <4>1, <4>2, <4>3
      <4>5. QED  BY <2>5, <3>1, <4>4
    <3>2. QED  BY <2>5, <3>1
  <2>7. ASSUME NEW u \in Service, NEW g \in Host, hostMap'[u][g] # NoChannel
        PROVE  /\ hostMap'[u][g].host = g
               /\ \E i \in DOMAIN channels'[u] : channels'[u][i] = hostMap'[u][g]
    <3>1. (u # s \/ g # h) /\ hostMap'[u][g] = hostMap[u][g]
      BY <2>4, <2>7 DEF RpcTypeOK
    <3>2. /\ hostMap[u][g].host = g
          /\ \E i \in DOMAIN channels[u] : channels[u][i] = hostMap[u][g]
      BY <2>7, <3>1 DEF MapIndexesVector
    <3>3. QED  BY <2>6, <3>1, <3>2
  <2>8. ASSUME NEW u \in Service, NEW g \in HostsOf(u), u # s \/ g # h
        PROVE  g \in HostsOf(u)'
    <3>1. PICK i \in DOMAIN channels[u] : channels[u][i].host = g
      BY DEF HostsOf
    <3>2. PICK j \in DOMAIN channels'[u] : channels'[u][j] = channels[u][i]
      BY <2>6, <2>8, <3>1
    <3>3. QED  BY <3>1, <3>2 DEF HostsOf
  <2>9. QED  BY <2>7, <2>8 DEF MapIndexesVector
<1>3. QED  BY <1>1, <1>2

\* Every step keeps the map and the vector together.
LEMMA NextMap == TypeOK /\ MapIndexesVector /\ [Next]_vars => MapIndexesVector'
<1> SUFFICES ASSUME TypeOK, MapIndexesVector, [Next]_vars
             PROVE  MapIndexesVector'
  OBVIOUS
<1>1. CASE UNCHANGED <<channels, hostMap>>
  BY <1>1 DEF MapIndexesVector
<1>2. ASSUME NEW t \in Thread, FinishAppend(t) PROVE MapIndexesVector'
  BY <1>2, AppendMap DEF FinishAppend, TypeOK
<1>3. CASE watcherCallback
  <2>1. Head(events) \in Event
    BY <1>3 DEF watcherCallback, TypeOK
  <2>2. /\ ServiceOf[Head(events).key] \in Service
        /\ Head(events).host \in Host
        /\ "watch" \in Thread
    BY <2>1, KeyAssumption, ThreadAssumption DEF Event
  <2>3. CASE serviceOnline("watch", ServiceOf[Head(events).key], Head(events).host)
    BY <1>1, <2>3 DEF serviceOnline
  <2>4. CASE serviceOffline("watch", ServiceOf[Head(events).key], Head(events).host)
    BY <2>2, <2>4, OfflineMap DEF TypeOK
  <2>5. QED  BY <1>3, <2>3, <2>4 DEF watcherCallback
<1>4. CASE Environment
  BY <1>1, <1>4 DEF Environment, Register, Expire, Change, WatchBreaks, rpcVars
<1>5. CASE SetCallbacks \/ discoverService \/ discoverServiceFails \/ ListingDone
  BY <1>1, <1>5 DEF SetCallbacks, discoverService, discoverServiceFails,
                    ListingDone, rpcVars
<1>6. CASE PutListed
  BY <1>1, <1>6 DEF PutListed, serviceOnline
<1>7. CASE WatchTooEarly
  BY <1>1, <1>7 DEF WatchTooEarly
<1>8. ASSUME NEW s \in Followed, Pick(s) PROVE MapIndexesVector'
  BY <1>1, <1>8 DEF Pick, getChannel
<1>9. CASE UNCHANGED vars
  BY <1>1, <1>9 DEF vars, rpcVars
<1>10. QED  BY <1>2, <1>3, <1>4, <1>5, <1>6, <1>7, <1>8, <1>9, ThreadAssumption
            DEF Next, Main, Watcher

\* Every variable keeps its type, however often hosts come and go.
THEOREM TypeCorrect == Spec => []TypeOK
  BY InitType, NextType, PTL DEF Spec

\* The map of a service always leads to a channel of its vector, to the
\* host it is the entry of: removeChannel erases the object it looked up.
THEOREM MapMatchesVector == Spec => []MapIndexesVector
<1>1. Init => MapIndexesVector
  BY DEF Init, RpcInit, MapIndexesVector
<1>2. QED  BY <1>1, InitType, NextType, NextMap, PTL DEF Spec

-----------------------------------------------------------------------------
(* No registered host is forgotten.                                         *)

\* The small print: distinct hosts, and listings in their phase.
LEMMA NextSmall ==
  TypeOK /\ OneHostPerKey /\ ListingOK /\ [Next]_vars
    => OneHostPerKey' /\ ListingOK'
<1> SUFFICES ASSUME TypeOK, OneHostPerKey, ListingOK, [Next]_vars
             PROVE  OneHostPerKey' /\ ListingOK'
  OBVIOUS
<1> USE DEF OneHostPerKey, ListingOK
<1>1. ASSUME NEW k \in Key, NEW h \in Host, Register(k, h)
      PROVE  OneHostPerKey' /\ ListingOK'
  BY <1>1 DEF Register, Change, TypeOK
<1>2. ASSUME NEW k \in Key, Expire(k) PROVE OneHostPerKey' /\ ListingOK'
  BY <1>2 DEF Expire, Change, TypeOK
<1>3. CASE WatchBreaks
  BY <1>3 DEF WatchBreaks
<1>4. CASE SetCallbacks \/ discoverService \/ discoverServiceFails \/ ListingDone
  BY <1>4 DEF SetCallbacks, discoverService, discoverServiceFails, ListingDone
<1>5. CASE PutListed
  BY <1>5 DEF PutListed
<1>6. CASE WatchTooEarly \/ watcherCallback
  BY <1>6 DEF WatchTooEarly, watcherCallback
<1>7. ASSUME NEW t \in Thread, FinishAppend(t)
      PROVE  OneHostPerKey' /\ ListingOK'
  BY <1>7 DEF FinishAppend, discoveryVars
<1>8. ASSUME NEW s \in Followed, Pick(s) PROVE OneHostPerKey' /\ ListingOK'
  BY <1>8 DEF Pick, discoveryVars
<1>9. CASE UNCHANGED vars
  BY <1>9 DEF vars, discoveryVars
<1>10. QED  BY <1>1, <1>2, <1>3, <1>4, <1>5, <1>6, <1>7, <1>8, <1>9,
               ThreadAssumption
            DEF Next, Environment, Main, Watcher

\* A step that touches neither registrations nor what was missed only has to keep
\* every promise made.
LEMMA KeepPromises ==
  ASSUME NothingForgotten, UNCHANGED <<etcd, missed>>,
         \A s \in Followed, h \in Host \ BadHost :
            Promised(s, h) => Promised(s, h)'
  PROVE  NothingForgotten'
  BY DEF NothingForgotten

\* Handling the head of the queue moves the other events one place up.
LEMMA TailEvents ==
  ASSUME TypeOK, events # <<>>, events' = Tail(events)
  PROVE  /\ \A i \in DOMAIN events' : /\ i \in Nat
                                      /\ i + 1 \in DOMAIN events
                                      /\ events'[i] = events[i + 1]
         /\ \A i \in DOMAIN events : i # 1 => /\ i \in Nat
                                              /\ i - 1 \in DOMAIN events'
                                              /\ events'[i - 1] = events[i]
         /\ 1 \in DOMAIN events
         /\ Head(events) = events[1]
<1>1. events \in Seq(Event) /\ Len(events) \in Nat \ {0}
  BY DEF TypeOK
<1>2. /\ DOMAIN events = 1..Len(events)
      /\ DOMAIN events' = 1..(Len(events) - 1)
      /\ \A i \in 1..(Len(events) - 1) : events'[i] = events[i + 1]
      /\ Head(events) = events[1]
  BY <1>1
<1>3. QED  BY <1>1, <1>2

\* After a withdrawal still to be seen comes an announcement still to be
\* seen, also when the watcher takes the event at the head.
LEMMA TailAnnounced ==
  ASSUME TypeOK, events # <<>>, events' = Tail(events), NEW s, NEW h,
         AnnouncedLast(s, h)
  PROVE  AnnouncedLast(s, h)'
<1> SUFFICES ASSUME NEW i \in DOMAIN events', Is(events'[i], "delete", s, h)
             PROVE  \E j \in DOMAIN events' : j > i /\ Is(events'[j], "put", s, h)
  BY DEF AnnouncedLast, Is
<1>1. i \in Nat /\ i + 1 \in DOMAIN events /\ Is(events[i + 1], "delete", s, h)
  BY TailEvents
<1>2. PICK j \in DOMAIN events : j > i + 1 /\ Is(events[j], "put", s, h)
  BY <1>1 DEF AnnouncedLast
<1>3. j \in Nat /\ j # 1
  BY <1>1, <1>2, TailEvents
<1>4. j - 1 \in DOMAIN events' /\ events'[j - 1] = events[j] /\ j - 1 > i
  BY <1>1, <1>2, <1>3, TailEvents
<1>5. QED  BY <1>2, <1>4

\* A new event at the end that withdraws another host, or announces any,
\* breaks no promise.
LEMMA AppendPromised ==
  ASSUME TypeOK, NEW e \in Event, events' = Append(events, e),
         UNCHANGED <<phase, listed, pending, channels>>,
         NEW s, NEW h, ~Is(e, "delete", s, h), Promised(s, h)
  PROVE  Promised(s, h)'
<1>1. events \in Seq(Event) /\ Len(events) \in Nat
  BY DEF TypeOK
<1>2. /\ DOMAIN events = 1..Len(events)
      /\ DOMAIN events' = 1..(Len(events) + 1)
      /\ \A i \in 1..Len(events) : events'[i] = events[i]
      /\ events'[Len(events) + 1] = e
  BY <1>1
<1>3. AnnouncedLast(s, h)'
  <2> SUFFICES ASSUME NEW i \in DOMAIN events', Is(events'[i], "delete", s, h)
               PROVE  \E j \in DOMAIN events' :
                        j > i /\ Is(events'[j], "put", s, h)
    BY DEF AnnouncedLast, Is
  <2>1. i \in DOMAIN events /\ Is(events[i], "delete", s, h)
    BY <1>1, <1>2
  <2>2. PICK j \in DOMAIN events : j > i /\ Is(events[j], "put", s, h)
    BY <2>1 DEF Promised, AnnouncedLast
  <2>3. QED  BY <1>1, <1>2, <2>2
<1>4. Coming(s, h)'
  <2>1. CASE \E i \in DOMAIN events : Is(events[i], "put", s, h)
    <3>1. PICK i \in DOMAIN events : Is(events[i], "put", s, h)
      BY <2>1
    <3>2. i \in DOMAIN events' /\ events'[i] = events[i]
      BY <1>1, <1>2
    <3>3. QED  BY <3>1, <3>2 DEF Coming, Is
  <2>2. CASE ~\E i \in DOMAIN events : Is(events[i], "put", s, h)
    BY <2>2 DEF Promised, Coming, HostsOf
  <2>3. QED  BY <2>1, <2>2
<1>5. QED  BY <1>3, <1>4 DEF Promised

\* A change that withdraws another host, or announces any, breaks no promise,
\* whether the watch still shows it or not.
LEMMA ChangePromised ==
  ASSUME TypeOK, NEW k, NEW h, NEW e \in Event, Change(k, h, e),
         UNCHANGED <<phase, listed, pending, channels>>,
         NEW s, NEW g, ~Is(e, "delete", s, g), Promised(s, g)
  PROVE  Promised(s, g)'
<1>1. CASE events' = Append(events, e)
  BY <1>1, AppendPromised
<1>2. CASE events' = events
  BY <1>2 DEF Promised, AnnouncedLast, Coming, HostsOf, Is
<1>3. QED  BY <1>1, <1>2 DEF Change

\* The environment forgets no host: a registration is announced, and an
\* expiry withdraws nobody else's host.
LEMMA EnvironmentForgetsNone ==
  ASSUME TypeOK, OneHostPerKey, ListingOK, NothingForgotten, Environment
  PROVE  NothingForgotten'
<1>1. ASSUME NEW k \in Key, NEW h \in Host, Register(k, h)
      PROVE  NothingForgotten'
  <2> DEFINE e == [type |-> "put", key |-> k, host |-> h]
  <2>1. Change(k, h, e) /\ e \in Event
    BY <1>1 DEF Register, Event
  <2>2. e.type = "put" /\ e.key = k /\ e.host = h
    OBVIOUS
  <2> HIDE DEF e
  <2> SUFFICES ASSUME NEW l \in Key \ missed', NEW g \in Host \ BadHost,
                      etcd'[l] = g, ServiceOf[l] \in Followed
               PROVE  Promised(ServiceOf[l], g)'
    BY DEF NothingForgotten
  <2>3. UNCHANGED <<phase, listed, pending, channels>>
    BY <2>1 DEF Change, rpcVars
  <2>4. CASE l # k
    <3>1. etcd[l] = g /\ l \notin missed
      BY <2>1, <2>4 DEF Change, TypeOK
    <3>2. Promised(ServiceOf[l], g)
      BY <3>1 DEF NothingForgotten
    <3>3. QED  BY <2>1, <2>2, <2>3, <3>2, ChangePromised DEF Is
  <2>5. CASE l = k
    <3>1. events' = Append(events, e)
      BY <2>1, <2>5 DEF Change, Watched
    <3>2. g = h
      BY <2>1, <2>5 DEF Change, TypeOK
    <3>3. /\ DOMAIN events' = 1..(Len(events) + 1)
          /\ DOMAIN events = 1..Len(events)
          /\ Len(events) \in Nat
          /\ events'[Len(events) + 1] = e
      BY <2>1, <3>1 DEF TypeOK
    <3>4. /\ Len(events) + 1 \in DOMAIN events'
          /\ Is(events'[Len(events) + 1], "put", ServiceOf[l], g)
      BY <2>2, <2>5, <3>2, <3>3 DEF Is
    <3>5. Coming(ServiceOf[l], g)'
      BY <3>4 DEF Coming, Is
    <3>6. AnnouncedLast(ServiceOf[l], g)'
      <4> SUFFICES ASSUME NEW i \in DOMAIN events',
                          Is(events'[i], "delete", ServiceOf[l], g)
                   PROVE  \E j \in DOMAIN events' :
                            j > i /\ Is(events'[j], "put", ServiceOf[l], g)
        BY DEF AnnouncedLast, Is
      <4>1. i # Len(events) + 1
        BY <2>2, <3>3 DEF Is
      <4>2. Len(events) + 1 > i
        BY <3>3, <4>1
      <4>3. QED  BY <3>4, <4>2
    <3>7. QED  BY <3>5, <3>6 DEF Promised
  <2>6. QED  BY <2>4, <2>5
<1>2. ASSUME NEW k \in Key, Expire(k) PROVE NothingForgotten'
  <2> DEFINE e == [type |-> "delete", key |-> k, host |-> etcd[k]]
  <2>1. Change(k, NoHost, e) /\ e \in Event
    BY <1>2 DEF Expire, Event, TypeOK
  <2>2. e.type = "delete" /\ e.key = k /\ e.host = etcd[k]
    OBVIOUS
  <2> HIDE DEF e
  <2> SUFFICES ASSUME NEW l \in Key \ missed', NEW g \in Host \ BadHost,
                      etcd'[l] = g, ServiceOf[l] \in Followed
               PROVE  Promised(ServiceOf[l], g)'
    BY DEF NothingForgotten
  <2>3. UNCHANGED <<phase, listed, pending, channels>>
    BY <2>1 DEF Change, rpcVars
  <2>4. l # k /\ etcd[l] = g /\ l \notin missed
    BY <2>1, NullsAssumption DEF Change, TypeOK
  <2>5. etcd[k] # g
    BY <2>4, <1>2, NullsAssumption DEF OneHostPerKey, Expire
  <2>6. Promised(ServiceOf[l], g)
    BY <2>4 DEF NothingForgotten
  <2>7. QED  BY <2>1, <2>2, <2>3, <2>5, <2>6, ChangePromised DEF Is
<1>3. CASE WatchBreaks
  BY <1>3, KeepPromises
     DEF WatchBreaks, rpcVars, Promised, AnnouncedLast, Coming, HostsOf, Is
<1>4. QED  BY <1>1, <1>2, <1>3 DEF Environment

\* appendChannel takes no host away and gives the called one its channel.
LEMMA AppendGrows ==
  ASSUME RpcTypeOK, NEW t \in Thread, appendChannel(t)
  PROVE  /\ \A u \in Service : HostsOf(u) \subseteq HostsOf(u)'
         /\ \A u \in Service, g \in Host \ BadHost :
              pending[t] = [service |-> u, host |-> g] => g \in HostsOf(u)'
<1>1. CASE pending[t].host \in BadHost
  BY <1>1 DEF appendChannel, HostsOf
<1>2. CASE pending[t].host \notin BadHost
  <2> DEFINE s == pending[t].service
             c == [id |-> created, host |-> pending[t].host]
  <2>1. pending[t] \in Call
    BY DEF RpcTypeOK, appendChannel
  <2>2. s \in Service /\ c \in Channel /\ c.host = pending[t].host
    BY <2>1 DEF RpcTypeOK, Call, Channel
  <2>3. channels' = [channels EXCEPT ![s] = Append(channels[s], c)]
    BY <1>2 DEF appendChannel, AddChannel
  <2>4. channels[s] \in Seq(Channel) /\ channels'[s] = Append(channels[s], c)
    BY <2>2, <2>3 DEF RpcTypeOK
  <2>5. \A u \in Service : u # s => channels'[u] = channels[u]
    BY <2>3 DEF RpcTypeOK
  <2> HIDE DEF c
  <2>6. /\ \A i \in DOMAIN channels[s] :
              i \in DOMAIN channels'[s] /\ channels'[s][i] = channels[s][i]
        /\ channels'[s][Len(channels[s]) + 1] = c
        /\ Len(channels[s]) + 1 \in DOMAIN channels'[s]
    BY <2>2, <2>4
  <2> HIDE DEF s
  <2>7. ASSUME NEW u \in Service, NEW g \in HostsOf(u) PROVE g \in HostsOf(u)'
    <3>1. PICK i \in DOMAIN channels[u] : channels[u][i].host = g
      BY DEF HostsOf
    <3>2. i \in DOMAIN channels'[u] /\ channels'[u][i] = channels[u][i]
      BY <2>5, <2>6
    <3>3. QED  BY <3>1, <3>2 DEF HostsOf
  <2>8. ASSUME NEW u \in Service, NEW g \in Host \ BadHost,
               pending[t] = [service |-> u, host |-> g]
        PROVE  g \in HostsOf(u)'
    <3>1. s = u /\ c.host = g
      BY <2>2, <2>8 DEF s
    <3>2. QED  BY <2>6, <3>1 DEF HostsOf
  <2>9. QED  BY <2>7, <2>8
<1>3. QED  BY <1>1, <1>2

\* The second half of serviceOnline turns a host on its way into a channel.
LEMMA FinishAppendForgetsNone ==
  ASSUME TypeOK, NothingForgotten, NEW t \in Thread, FinishAppend(t)
  PROVE  NothingForgotten'
<1>1. /\ appendChannel(t)
      /\ UNCHANGED <<etcd, events, phase, listed, missed>>
  BY DEF FinishAppend, discoveryVars
<1>2. ASSUME NEW s \in Followed, NEW h \in Host \ BadHost, Promised(s, h)
      PROVE  Promised(s, h)'
  <2>1. AnnouncedLast(s, h)'
    BY <1>1, <1>2 DEF Promised, AnnouncedLast, Is
  <2>2. s \in Service
    BY FollowedAssumption
  <2>3. CASE \E u \in Thread : pending[u] = [service |-> s, host |-> h]
    <3>1. PICK u \in Thread : pending[u] = [service |-> s, host |-> h]
      BY <2>3
    <3>2. CASE u = t
      <4>1. h \in HostsOf(s)'
        BY <1>1, <2>2, <3>1, <3>2, AppendGrows DEF TypeOK
      <4>2. QED  BY <2>1, <4>1 DEF Promised, Coming
    <3>3. CASE u # t
      <4>1. pending'[u] = pending[u]
        BY <1>1, <3>3 DEF appendChannel, TypeOK, RpcTypeOK
      <4>2. QED  BY <2>1, <3>1, <4>1 DEF Promised, Coming
    <3>4. QED  BY <3>2, <3>3
  <2>4. CASE h \in HostsOf(s)
    BY <1>1, <2>1, <2>2, <2>4, AppendGrows DEF TypeOK, Promised, Coming
  <2>5. CASE \/ phase \in {"constructing", "ready"}
             \/ \E i \in DOMAIN events : Is(events[i], "put", s, h)
             \/ \E r \in listed : ServiceOf[r.key] = s /\ r.host = h
    BY <1>1, <2>1, <2>5 DEF Promised, Coming, Is
  <2>6. QED  BY <1>2, <2>3, <2>4, <2>5 DEF Promised, Coming
<1>3. QED  BY <1>1, <1>2, KeepPromises

\* The main thread forgets no host: what it lists it passes to _putCb.
LEMMA MainForgetsNone ==
  ASSUME TypeOK, ListingOK, NothingForgotten, Main
  PROVE  NothingForgotten'
<1>1. CASE SetCallbacks
  BY <1>1, KeepPromises
     DEF SetCallbacks, rpcVars, Promised, AnnouncedLast, Coming, HostsOf, Is
<1>2. CASE discoverService
  <2> SUFFICES ASSUME NEW k \in Key \ missed', NEW h \in Host \ BadHost,
                      etcd'[k] = h, ServiceOf[k] \in Followed
               PROVE  Promised(ServiceOf[k], h)'
    BY DEF NothingForgotten
  <2>1. AnnouncedLast(ServiceOf[k], h)
    BY <1>2 DEF discoverService, NothingForgotten, Promised
  <2>2. AnnouncedLast(ServiceOf[k], h)'
    BY <1>2, <2>1 DEF discoverService, AnnouncedLast, Is
  <2> DEFINE r == [key |-> k, host |-> h]
  <2>3. r \in Registration /\ r.key = k /\ r.host = h
    BY DEF Registration
  <2>4. r \in listed'
    BY <1>2, <2>3 DEF discoverService
  <2>5. QED  BY <2>2, <2>3, <2>4 DEF Promised, Coming
<1>3. CASE discoverServiceFails
  BY <1>3 DEF discoverServiceFails, NothingForgotten
<1>4. CASE PutListed
  <2>1. PICK r \in listed : /\ serviceOnline("main", ServiceOf[r.key], r.host)
                            /\ listed' = listed \ {r}
                            /\ UNCHANGED <<etcd, events, phase, missed>>
    BY <1>4 DEF PutListed
  <2>2. UNCHANGED channels /\ pending["main"] = Idle
    BY <2>1 DEF serviceOnline
  <2>3. ASSUME NEW s \in Followed, NEW h \in Host \ BadHost, Promised(s, h)
        PROVE  Promised(s, h)'
    <3>1. AnnouncedLast(s, h)'
      BY <2>1, <2>3 DEF Promised, AnnouncedLast, Is
    <3>2. CASE ServiceOf[r.key] = s /\ r.host = h
      <4>1. pending'["main"] = [service |-> s, host |-> h]
        BY <2>1, <3>2, ThreadAssumption DEF serviceOnline, TypeOK, RpcTypeOK
      <4>2. QED  BY <3>1, <4>1, ThreadAssumption DEF Promised, Coming
    <3>3. CASE ~(ServiceOf[r.key] = s /\ r.host = h)
      <4>1. \A t \in Thread : pending[t] # Idle => pending'[t] = pending[t]
        BY <2>1 DEF serviceOnline, TypeOK, RpcTypeOK
      <4>2. [service |-> s, host |-> h] \in Call
        BY FollowedAssumption DEF Call
      <4>3. Idle # [service |-> s, host |-> h]
        BY <4>2, NullsAssumption
      <4>4. \A t \in Thread : pending[t] = [service |-> s, host |-> h]
                                => pending'[t] = [service |-> s, host |-> h]
        BY <4>1, <4>3
      <4>5. (\E q \in listed : ServiceOf[q.key] = s /\ q.host = h)
              => \E q \in listed' : ServiceOf[q.key] = s /\ q.host = h
        BY <2>1, <3>3
      <4>6. Coming(s, h)'
        BY <2>1, <2>2, <2>3, <4>4, <4>5 DEF Promised, Coming, HostsOf, Is
      <4>7. QED  BY <3>1, <4>6 DEF Promised
    <3>4. QED  BY <3>2, <3>3
  <2>4. QED  BY <2>1, <2>3, KeepPromises
<1>5. CASE FinishAppend("main")
  BY <1>5, FinishAppendForgetsNone, ThreadAssumption
<1>6. CASE ListingDone
  <2>1. UNCHANGED <<etcd, events, listed, missed, pending, channels>>
    BY <1>6 DEF ListingDone, rpcVars
  <2>2. phase = "listing"
    BY <1>6 DEF ListingDone
  <2>3. ASSUME NEW s \in Followed, NEW h \in Host \ BadHost, Promised(s, h)
        PROVE  Promised(s, h)'
    BY <2>1, <2>2, <2>3 DEF Promised, AnnouncedLast, Coming, HostsOf, Is
  <2>4. QED  BY <2>1, <2>3, KeepPromises
<1>7. QED  BY <1>1, <1>2, <1>3, <1>4, <1>5, <1>6 DEF Main

\* The watcher forgets no host: an announcement it takes is on its way to a
\* channel, a withdrawal it takes has its announcement behind it, and what
\* it skips before the callbacks exist the listing will show.
LEMMA WatcherForgetsNone ==
  ASSUME TypeOK, MapIndexesVector, NothingForgotten, Watcher
  PROVE  NothingForgotten'
<1>1. CASE WatchTooEarly
  <2>1. /\ events # <<>> /\ events' = Tail(events)
        /\ UNCHANGED <<etcd, phase, missed>>
        /\ phase = "constructing"
    BY <1>1 DEF WatchTooEarly
  <2>2. ASSUME NEW s \in Followed, NEW h \in Host \ BadHost, Promised(s, h)
        PROVE  Promised(s, h)'
    BY <2>1, <2>2, TailAnnounced DEF Promised, Coming
  <2>3. QED  BY <2>1, <2>2, KeepPromises
<1>2. CASE watcherCallback
  <2> DEFINE e == Head(events)
             u == ServiceOf[e.key]
  <2>1. /\ events # <<>> /\ events' = Tail(events)
        /\ UNCHANGED <<etcd, phase, listed, missed>>
    BY <1>2 DEF watcherCallback
  <2>2. e \in Event
    BY <2>1 DEF TypeOK
  <2>3. /\ u \in Service /\ e.host \in Host
        /\ e.type \in {"put", "delete"}
        /\ "watch" \in Thread
    BY <2>2, KeyAssumption, ThreadAssumption DEF Event
  <2>4. e = events[1] /\ 1 \in DOMAIN events
    BY <2>1, TailEvents
  <2>5. \/ e.type = "put" /\ serviceOnline("watch", u, e.host)
        \/ e.type = "delete" /\ serviceOffline("watch", u, e.host)
    BY <1>2 DEF watcherCallback
  <2> HIDE DEF e, u
  <2>6. ASSUME NEW s \in Followed, NEW h \in Host \ BadHost, Promised(s, h)
        PROVE  Promised(s, h)'
    <3>1. AnnouncedLast(s, h)'
      BY <2>1, <2>6, TailAnnounced DEF Promised
    <3>2. ASSUME NEW i \in DOMAIN events, i # 1, Is(events[i], "put", s, h)
          PROVE  \E j \in DOMAIN events' : Is(events'[j], "put", s, h)
      BY <2>1, <3>2, TailEvents
    <3>3. [service |-> s, host |-> h] \in Call
      BY FollowedAssumption DEF Call
    <3>4. Idle # [service |-> s, host |-> h] /\ s \in Service
      BY <3>3, NullsAssumption, FollowedAssumption
    <3>5. CASE e.type = "put" /\ serviceOnline("watch", u, e.host)
      <4>1. UNCHANGED channels
        BY <3>5 DEF serviceOnline
      <4>2. \A t \in Thread : pending[t] # Idle => pending'[t] = pending[t]
        BY <3>5 DEF serviceOnline, TypeOK, RpcTypeOK
      <4>3. \A t \in Thread : pending[t] = [service |-> s, host |-> h]
                                => pending'[t] = [service |-> s, host |-> h]
        BY <3>4, <4>2
      <4>4. ASSUME Is(events[1], "put", s, h)
            PROVE  pending'["watch"] = [service |-> s, host |-> h]
        <5>1. u = s /\ e.host = h
          BY <2>4, <4>4 DEF Is, u
        <5>2. QED  BY <2>3, <3>5, <5>1 DEF serviceOnline, TypeOK, RpcTypeOK
      <4>5. Coming(s, h)'
        BY <2>1, <2>3, <2>6, <3>2, <4>1, <4>3, <4>4
           DEF Promised, Coming, HostsOf
      <4>6. QED  BY <3>1, <4>5 DEF Promised
    <3>6. CASE e.type = "delete" /\ serviceOffline("watch", u, e.host)
      <4>1. UNCHANGED pending
        BY <3>6 DEF serviceOffline
      <4>2. CASE u = s /\ e.host = h
        <5>1. Is(events[1], "delete", s, h)
          BY <2>4, <3>6, <4>2 DEF Is, u
        <5>2. PICK j \in DOMAIN events : j > 1 /\ Is(events[j], "put", s, h)
          BY <2>4, <2>6, <5>1 DEF Promised, AnnouncedLast
        <5>3. j # 1
          BY <5>2
        <5>4. QED  BY <3>1, <3>2, <5>2, <5>3 DEF Promised, Coming
      <4>3. CASE ~(u = s /\ e.host = h)
        <5>1. h \in HostsOf(s) => h \in HostsOf(s)'
          BY <2>3, <3>4, <3>6, <4>3, OfflineMap DEF TypeOK
        <5>2. ~Is(events[1], "put", s, h)
          BY <2>4, <3>6 DEF Is
        <5>3. Coming(s, h)'
          BY <2>1, <2>6, <3>2, <4>1, <5>1, <5>2 DEF Promised, Coming
        <5>4. QED  BY <3>1, <5>3 DEF Promised
      <4>4. QED  BY <4>2, <4>3
    <3>7. QED  BY <2>5, <3>5, <3>6
  <2>7. QED  BY <2>1, <2>6, KeepPromises
<1>3. CASE FinishAppend("watch")
  BY <1>3, FinishAppendForgetsNone, ThreadAssumption
<1>4. QED  BY <1>1, <1>2, <1>3 DEF Watcher

\* Every step keeps the inductive invariant.
LEMMA NextIInv == IInv /\ [Next]_vars => IInv'
<1> SUFFICES ASSUME IInv, [Next]_vars PROVE IInv'
  OBVIOUS
<1>1. TypeOK /\ MapIndexesVector /\ OneHostPerKey /\ ListingOK /\ NothingForgotten
  BY DEF IInv
<1>2. TypeOK' /\ MapIndexesVector' /\ OneHostPerKey' /\ ListingOK'
  BY <1>1, NextType, NextMap, NextSmall
<1>3. NothingForgotten'
  <2>1. ASSUME NEW s \in Followed, Pick(s) PROVE NothingForgotten'
    <3>1. UNCHANGED <<etcd, events, phase, listed, missed, channels, pending>>
      BY <2>1 DEF Pick, getChannel, discoveryVars
    <3>2. QED  BY <1>1, <3>1
               DEF NothingForgotten, Promised, AnnouncedLast, Coming, HostsOf, Is
  <2>2. CASE UNCHANGED vars
    BY <1>1, <2>2 DEF vars, rpcVars, discoveryVars, NothingForgotten, Promised,
                      AnnouncedLast, Coming, HostsOf, Is
  <2>3. QED  BY <1>1, <2>1, <2>2, EnvironmentForgetsNone, MainForgetsNone,
                WatcherForgetsNone DEF Next
<1>4. QED  BY <1>2, <1>3 DEF IInv

\* At the start nothing is announced, and the listing is still to come.
LEMMA InitIInv == Init => IInv
<1> SUFFICES ASSUME Init PROVE IInv
  OBVIOUS
<1>1. TypeOK
  BY InitType
<1>2. DOMAIN events = {}
  BY DEF Init
<1>3. NothingForgotten
  BY <1>2 DEF Init, NothingForgotten, Promised, AnnouncedLast, Coming
<1>4. QED  BY <1>1, <1>3
           DEF Init, RpcInit, IInv, MapIndexesVector, OneHostPerKey, ListingOK

\* The invariant the theorems of this module rest on holds in every state.
THEOREM InductiveInvariant == Spec => []IInv
  BY InitIInv, NextIInv, PTL DEF Spec

\* When every notification has been applied, every registered instance of a
\* followed service has a channel: no order of the listing, the watch events
\* and the two critical sections of serviceOnline forgets one.
THEOREM RegisteredIsReachable == Spec => []LiveHostsReachable
<1>1. IInv => LiveHostsReachable
  <2> SUFFICES ASSUME IInv, Settled, NEW k \in Key \ missed,
                      etcd[k] \in Host \ BadHost, ServiceOf[k] \in Followed
               PROVE  etcd[k] \in HostsOf(ServiceOf[k])
    BY DEF LiveHostsReachable
  <2>1. Coming(ServiceOf[k], etcd[k])
    BY DEF IInv, NothingForgotten, Promised, Settled
  <2>2. listed = {} /\ DOMAIN events = {} /\ phase = "running"
    BY DEF IInv, ListingOK, Settled
  <2>3. [service |-> ServiceOf[k], host |-> etcd[k]] \in Call
    BY KeyAssumption DEF Call
  <2>4. \A t \in Thread :
            pending[t] # [service |-> ServiceOf[k], host |-> etcd[k]]
    BY <2>3, NullsAssumption DEF Settled
  <2>5. QED  BY <2>1, <2>2, <2>4 DEF Coming
<1>2. QED  BY <1>1, InductiveInvariant, PTL
=============================================================================
