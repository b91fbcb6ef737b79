\* Three calls on an avatar, a photo and a file with a generated id, and a failure of any kind.
SPECIFICATION Spec
CONSTANTS
    c1 = c1
    c2 = c2
    c3 = c3
    avatar = avatar
    photo = photo
    x = x
    y = y
    z = z
    Call = {c1, c2, c3}
    Name = {avatar, photo}
    Block = {x, y, z}
    Pad = Pad
    NoName = NoName
    NoFile = NoFile
    Nobody = Nobody
    MaxItems = 2
    Requests <- AllRequests
    Given <- OneFile
    Faults = {"open", "write", "close", "crash"}
    MaxFaults = 1
SYMMETRY OtherCalls
INVARIANT IInv
INVARIANT ConfirmedIsStored
INVARIANT ReadsWhatWasWritten
INVARIANT ReadsConfirmedPut
INVARIANT PutsOneAfterAnother
PROPERTY ImplementsUploads
\* Every call ends, and then nothing happens.
CHECK_DEADLOCK FALSE
