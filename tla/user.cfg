\* Three calls on one account, and two failures of any kind.
SPECIFICATION ObservedSpec
CONSTANTS
    alice = alice
    c1 = c1
    c2 = c2
    c3 = c3
    name1 = name1
    name2 = name2
    phone1 = phone1
    phone2 = phone2
    word = word
    newWord = newWord
    bad = bad
    Null = Null
    NoRow = NoRow
    Call = {c1, c2, c3}
    Registered = {alice}
    RowOf <- OneUser
    Value = {name1, name2, phone1, phone2, word, newWord, bad}
    Valid = {name1, name2, phone1, phone2, word, newWord}
    Requests <- AllRequests
    Faults = {"mysql", "mysqlReply", "es", "esReply", "file", "fileReply", "crash"}
    MaxFaults = 2
SYMMETRY OtherCalls
INVARIANT IndexInv
INVARIANT CurrentRowIndexed
INVARIANT UniqueNames
INVARIANT OnlineHasSession
INVARIANT SpentCodeGone
INVARIANT AvatarHasFile
INVARIANT IndexedIsReal
INVARIANT LaterLoginRefused
INVARIANT UndisturbedChangeStays
PROPERTY ImplementsAccounts
\* Every call ends, and then nothing happens.
CHECK_DEADLOCK FALSE
