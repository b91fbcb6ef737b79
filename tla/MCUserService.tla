----------------------------- MODULE MCUserService -----------------------------
(* Small instances of UserService for TLC. *)
EXTENDS UserService, TLC

CONSTANTS alice, c1, c2, c3, name1, name2, phone1, phone2, word, newWord, bad

Alice == [nickname |-> name1, phone |-> phone1, password |-> word,
          description |-> Null, avatar |-> Null]
OneUser == alice :> Alice

Ask(op, value, password) ==
    [op |-> op, user |-> alice, value |-> value, password |-> password,
     code |-> c1]

\* The code of the call c1 and what it is good for, setters of one user, and
\* a registration that wants the nickname a setter wants.  setDescription takes
\* the steps of setNickname.
AllRequests ==
    {Ask("sendCode", phone1, Null), Ask("phoneLogin", phone1, Null),
     Ask("nicknameLogin", name1, word), Ask("setPhone", phone2, Null),
     Ask("phoneRegister", phone2, Null), Ask("sendCode", bad, Null),
     Ask("setAvatar", word, Null), Ask("setNickname", name2, Null),
     Ask("setPassword", newWord, word),
     Ask("nicknameRegister", name2, word)}

\* Every request presents the code of c1; the other calls are alike.
OtherCalls == Permutations({c2, c3})

Setting == {Ask("setDescription", word, Null), Ask("setPassword", newWord, word)}
Renaming == {Ask("setNickname", name2, Null)}
LoggingIn == {Ask("nicknameLogin", name1, word)}
=============================================================================
