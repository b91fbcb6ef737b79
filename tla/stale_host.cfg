\* A channel whose host is no longer registered for the service.
SPECIFICATION Spec
CONSTANTS
    user = user
    other = other
    key1 = key1
    key2 = key2
    key3 = key3
    h1 = h1
    h2 = h2
    bad = bad
    Service = {user}
    Followed = {user}
    Host = {h1, h2}
    BadHost = {}
    Thread = {"main", "watch"}
    NoHost = NoHost
    NoChannel = NoChannel
    Idle = Idle
    Key = {key1, key2}
    ServiceOf <- UserKeys
    MaxChanges = 3
INVARIANT NoStaleHost
CHECK_DEADLOCK FALSE
