\* Two instances of a followed service and one of another, on three addresses,
\* one of which no channel can be made for.
SPECIFICATION ObservedFairSpec
CONSTANTS
    user = user
    other = other
    key1 = key1
    key2 = key2
    key3 = key3
    h1 = h1
    h2 = h2
    bad = bad
    Service = {user, other}
    Followed = {user}
    Host = {h1, h2, bad}
    BadHost = {bad}
    Thread = {"main", "watch"}
    NoHost = NoHost
    NoChannel = NoChannel
    Idle = Idle
    Key = {key1, key2, key3}
    ServiceOf <- MixedKeys
    MaxChanges = 2
INVARIANT IInv
INVARIANT MapIndexesVector
INVARIANT LiveHostsReachable
INVARIANT UndisturbedIsFresh
INVARIANT OneChannelEach
PROPERTY EveryHostServes
\* The process may crash, and then nothing happens.
CHECK_DEADLOCK FALSE
