\* Two logins of one user.
SPECIFICATION Spec
CONSTANTS
    alice = alice
    c1 = c1
    c2 = c2
    c3 = c3
    name1 = name1
    name2 = name2
    phone1 = phone1
    phone2 = phone2
    word = word
    newWord = newWord
    bad = bad
    Null = Null
    NoRow = NoRow
    Call = {c1, c2}
    Registered = {alice}
    RowOf <- OneUser
    Value = {name1, name2, phone1, phone2, word, newWord, bad}
    Valid = {name1, name2, phone1, phone2, word, newWord}
    Requests <- LoggingIn
    Faults = {}
    MaxFaults = 0
INVARIANT OneLogin
\* Every call ends, and then nothing happens.
CHECK_DEADLOCK FALSE
