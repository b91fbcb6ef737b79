\* One message of each kind; one of the two consumers crashes or loses its
\* connection at any moment.
SPECIFICATION FairSpec
CONSTANTS
    text = text
    image = image
    other = other
    s1 = s1
    s2 = s2
    f1 = f1
    f2 = f2
    f3 = f3
    f4 = f4
    u1 = u1
    u2 = u2
    Request = {text, image, other}
    Storage = {s1, s2}
    FileId = {f1, f2}
    User = {u1, u2}
    Member = {u1, u2}
    Kind <- AllKinds
    NoFile = NoFile
    None = None
    Faults = {"storageCrash", "storageLink"}
    MaxFaults = 1
    MaxRetry = 1
INVARIANT AcceptedNotLost
INVARIANT TextSearchable
PROPERTY EventuallyStored
\* The system may stop: every request answered, every queue empty.
CHECK_DEADLOCK FALSE
