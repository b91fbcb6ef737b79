\* Two queries while three messages arrive.
SPECIFICATION Spec
CONSTANTS
    alice = alice
    bob = bob
    room = room
    hall = hall
    c1 = c1
    c2 = c2
    hello = hello
    photo = photo
    reply = reply
    AnyChat = AnyChat
    Nobody = Nobody
    Message = {hello, photo, reply}
    Chat = {room, hall}
    User = {alice, bob}
    Call = {c1, c2}
    ChatOf <- Chats
    SenderOf <- Authors
    SentAt <- Times
    Text = {hello}
    Time = {1, 2}
    Wall <- EastOf
    MkTime <- WestOf
    Early = {alice}
    face = face
    Avatar = {face}
    NoAvatar = NoAvatar
    Requests <- AllRequests
    MaxHits = 1
    Faults = {"mysql", "es", "rpc"}
CONSTRAINT OneHistory
INVARIANT IInv
INVARIANT HistoryIsWhole
INVARIANT RecentIsNewest
INVARIANT TimesAreTrue
INVARIANT SeenIsFoundAgain
INVARIANT RefusedForCause
\* Every call ends, and then nothing happens.
CHECK_DEADLOCK FALSE
