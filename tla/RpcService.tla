------------------------------ MODULE RpcService ------------------------------
(***************************************************************************)
(* RPCServiceManager and RPCServiceChannel: the channels to the hosts of   *)
(* every followed service, changed by the discovery callbacks and read by  *)
(* the RPC handlers.  Discovery.tla says who calls these operations.       *)
(*                                                                         *)
(* An action is one critical section.  serviceOnline is the only method    *)
(* with two: it drops the manager's mutex before it appends the channel.   *)
(***************************************************************************)
EXTENDS Naturals, Sequences, SequencesExt

CONSTANTS
    Service,     \* service directories, e.g. /service/user
    Followed,    \* those followService was called for
    Host,        \* ip:port strings
    BadHost,     \* those brpc::Channel::Init refuses
    Thread,      \* threads that run discovery callbacks
    NoHost,      \* the null channel pointer, or no registration
    NoChannel,   \* no entry in _hostMapPtr
    Idle         \* no serviceOnline call in progress

ASSUME FollowedAssumption == Followed \subseteq Service
ASSUME BadHostAssumption == BadHost \subseteq Host

Channel == [id : Nat, host : Host]
Call == [service : Service, host : Host]

ASSUME NullsAssumption ==
    NoHost \notin Host /\ NoChannel \notin Channel /\ Idle \notin Call

VARIABLES
    channels,  \* [Service -> Seq(Channel)], _channels
    hostMap,   \* [Service -> [Host -> Channel or NoChannel]], _hostMapPtr
    rrIndex,   \* [Service -> Nat], _RRIndex
    pending,   \* [Thread -> Call or Idle], between the two locks
    created,   \* number of brpc::Channel objects made; the next one's id
    got,       \* [Service -> Host or NoHost], what getChannel last returned
    crashed    \* the process is gone

rpcVars == <<channels, hostMap, rrIndex, pending, created, got, crashed>>

HostsOf(s) == {channels[s][i].host : i \in DOMAIN channels[s]}

RpcInit ==
    /\ channels = [s \in Service |-> <<>>]
    /\ hostMap = [s \in Service |-> [h \in Host |-> NoChannel]]
    /\ rrIndex = [s \in Service |-> 0]
    /\ pending = [t \in Thread |-> Idle]
    /\ created = 0
    /\ got = [s \in Service |-> NoHost]
    /\ crashed = FALSE

-----------------------------------------------------------------------------

\* The first half of serviceOnline: look the service up, unlock.
serviceOnline(t, s, h) ==
    /\ ~crashed
    /\ pending[t] = Idle
    /\ pending' = IF s \in Followed
                  THEN [pending EXCEPT ![t] = [service |-> s, host |-> h]]
                  ELSE pending
    /\ UNCHANGED <<channels, hostMap, rrIndex, created, got, crashed>>

\* Nothing asks whether the host has a channel already.
AddChannel(s, c) ==
    /\ channels' = [channels EXCEPT ![s] = Append(@, c)]
    /\ hostMap' = [hostMap EXCEPT ![s][c.host] = c]
    /\ created' = created + 1

\* The second half of serviceOnline.
appendChannel(t) ==
    /\ ~crashed
    /\ pending[t] # Idle
    /\ IF pending[t].host \in BadHost
       THEN UNCHANGED <<channels, hostMap, created>>
       ELSE AddChannel(pending[t].service,
                       [id |-> created, host |-> pending[t].host])
    /\ pending' = [pending EXCEPT ![t] = Idle]
    /\ UNCHANGED <<rrIndex, got, crashed>>

\* Faulty: the newest channel goes, whichever it is.
WithoutLast(q, c) == IF q = <<>> THEN q ELSE Front(q)

\* The vector without the channel object c, which it holds at most once.
Without(q, c) ==
    IF \E i \in DOMAIN q : q[i] = c
    THEN RemoveAt(q, CHOOSE i \in DOMAIN q : q[i] = c)
    ELSE q

\* Faulty: the map entry survives.
KeepEntry(s, h) ==
    /\ channels' = [channels EXCEPT ![s] = Without(@, hostMap[s][h])]
    /\ UNCHANGED hostMap

\* Faulty: the map forgets the channel, and the vector keeps it.
KeepChannel(s, h) ==
    /\ hostMap' = [hostMap EXCEPT ![s][h] = NoChannel]
    /\ UNCHANGED channels

\* The channel the map knows goes; _RRIndex stays as it is.
removeChannel(s, h) ==
    /\ channels' = [channels EXCEPT ![s] = Without(@, hostMap[s][h])]
    /\ hostMap' = [hostMap EXCEPT ![s][h] = NoChannel]

serviceOffline(t, s, h) ==
    /\ ~crashed
    /\ pending[t] = Idle
    /\ IF s \in Followed /\ hostMap[s][h] # NoChannel
       THEN removeChannel(s, h)
       ELSE UNCHANGED <<channels, hostMap>>
    /\ UNCHANGED <<rrIndex, pending, created, got, crashed>>

\* Faulty: the index stays where it is.
NoRotation(s) == rrIndex

NextIndex(s) ==
    [rrIndex EXCEPT ![s] = (@ + 1) % Len(channels[s])]

\* No channel: a null pointer.  An index past the end reads a slot that
\* removals have vacated: it may hold a null pointer or a removed channel,
\* and using it may end the process.
getChannel(s) ==
    /\ ~crashed
    /\ \/ /\ channels[s] = <<>>
          /\ got' = [got EXCEPT ![s] = NoHost]
          /\ UNCHANGED <<rrIndex, crashed>>
       \/ /\ rrIndex[s] < Len(channels[s])
          /\ got' = [got EXCEPT ![s] = channels[s][rrIndex[s] + 1].host]
          /\ rrIndex' = NextIndex(s)
          /\ UNCHANGED crashed
       \/ /\ channels[s] # <<>>
          /\ rrIndex[s] >= Len(channels[s])
          /\ \E h \in Host \cup {NoHost} : got' = [got EXCEPT ![s] = h]
          /\ rrIndex' = NextIndex(s)
          /\ crashed' \in BOOLEAN
    /\ UNCHANGED <<channels, hostMap, pending, created>>

-----------------------------------------------------------------------------

RpcTypeOK ==
    /\ channels \in [Service -> Seq(Channel)]
    /\ hostMap \in [Service -> [Host -> Channel \cup {NoChannel}]]
    /\ rrIndex \in [Service -> Nat]
    /\ pending \in [Thread -> Call \cup {Idle}]
    /\ created \in Nat
    /\ got \in [Service -> Host \cup {NoHost}]
    /\ crashed \in BOOLEAN

\* What the map calls the channel of a host is a channel in the vector, to
\* that host: removeChannel always finds the object it erases, although
\* appends and removals of several threads interleave.
MapIndexesVector ==
    \A s \in Service, h \in Host :
        LET c == hostMap[s][h] IN
        c # NoChannel =>
            /\ c.host = h
            /\ \E i \in DOMAIN channels[s] : channels[s][i] = c

\* getChannel returns the channel of a host: the index it reads is inside
\* the vector.
IndexInBounds ==
    \A s \in Service :
        channels[s] # <<>> => rrIndex[s] < Len(channels[s])
=============================================================================
