\* One file message, the file service out of order once.
SPECIFICATION Spec
CONSTANTS
    text = text
    image = image
    other = other
    s1 = s1
    s2 = s2
    f1 = f1
    f2 = f2
    f3 = f3
    f4 = f4
    u1 = u1
    u2 = u2
    Request = {text, image}
    Storage = {s1, s2}
    FileId = {f1, f2}
    User = {u1, u2}
    Member = {u1, u2}
    Kind <- TwoKinds
    NoFile = NoFile
    None = None
    Faults = {"file"}
    MaxFaults = 1
    MaxRetry = 1
INVARIANT AcceptedNotLost
\* The system may stop: every request answered, every queue empty.
CHECK_DEADLOCK FALSE
