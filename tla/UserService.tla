------------------------------ MODULE UserService ------------------------------
(***************************************************************************)
(* The user service: registration, login and the setters, each call a      *)
(* sequence of steps on MySQL, Elasticsearch, redis and the file service.  *)
(* Calls run concurrently and keep the row they read in a local object.    *)
(*                                                                         *)
(* uuid() gives every call an identifier of its own, so whatever a call    *)
(* creates (a user, a session, a code, an avatar file) is named after it.  *)
(***************************************************************************)
EXTENDS Naturals, Sequences, FiniteSets

CONSTANTS
    Call,        \* RPC calls
    Requests,    \* what calls may ask for
    Registered,  \* users from before
    RowOf,       \* [Registered -> Row], their rows
    Value,       \* nicknames, phones, passwords, descriptions
    Valid,       \* those the check functions accept
    Null,        \* SQL NULL, which the accessors read as the empty string
    NoRow,       \* no such user
    Faults,      \* the kinds of failure that may happen
    MaxFaults    \* bound: how many failures happen in one behaviour

User == Registered \cup Call

Registers == {"nicknameRegister", "phoneRegister"}
Logins == {"nicknameLogin", "phoneLogin"}
Setters == {"setNickname", "setPassword", "setPhone", "setDescription",
            "setAvatar"}
Op == Registers \cup Logins \cup Setters \cup {"sendCode"}

\* "code" is the call that sent the verification code this one presents.
Request == [op : Op, user : User, value : Value,
            password : Value \cup {Null}, code : Call]

Row == [nickname : Value \cup User \cup {Null}, phone : Value \cup {Null},
        password : Value \cup {Null}, description : Value \cup {Null},
        avatar : Call \cup {Null}]

\* The fields of a row that go into the index "user".
Doc == [user : User, nickname : Value \cup User \cup {Null},
        phone : Value \cup {Null}, description : Value \cup {Null},
        avatar : Call \cup {Null}]

FaultKinds == {"mysql", "mysqlReply", "es", "esReply", "file", "fileReply", "crash"}

ASSUME RequestsAssumption == Requests \subseteq Request
ASSUME RowOfAssumption ==
    /\ RowOf \in [Registered -> Row]
    /\ \A u \in Registered : RowOf[u].avatar = Null
\* NULL is no value to the unique indexes of the table.
Different(r, s) ==
    /\ r.nickname = s.nickname => r.nickname = Null
    /\ r.phone = s.phone => r.phone = Null

ASSUME DifferentAssumption ==
    \A u, v \in Registered : u # v => Different(RowOf[u], RowOf[v])
ASSUME NullsAssumption ==
    Null \notin Value \cup User /\ NoRow \notin Row \cup User
\* uuid() makes no identifier twice.
ASSUME FreshAssumption == Registered \cap Call = {}
ASSUME ValidAssumption == Valid \subseteq Value
ASSUME FaultAssumption == Faults \subseteq FaultKinds /\ MaxFaults \in Nat

VARIABLES
    rows,      \* [User -> Row or NoRow], the MySQL user table
    docs,      \* the Elasticsearch index "user"
    files,     \* avatar files of the file service
    codes,     \* verification codes in redis
    sessions,  \* [Call -> User or NoRow], sessions in redis, by session id
    online,    \* users whose login status is in redis
    at,        \* [Call -> Nat], the step a call is at
    who,       \* [Call -> User or NoRow], the user id a call works with
    user,      \* [Call -> Row or NoRow], the User object of a call
    result,    \* [Call -> Result]
    faults,    \* failures so far
    task       \* [Call -> Requests], what each call asks for

stores == <<rows, docs, files, codes, sessions, online>>
vars == <<rows, docs, files, codes, sessions, online,
          at, who, user, result, faults, task>>

Result == {"running", "ok", "error", "lost"}

\* The document addData makes of a row.
DocOf(u, row) ==
    [user |-> u, nickname |-> row.nickname, phone |-> row.phone,
     description |-> row.description, avatar |-> row.avatar]

-----------------------------------------------------------------------------
(* The handlers: what each one does after its format checks, in order.      *)

RegisterSteps == <<"free", "insert", "index">>

\* Faulty: the login status is not set.
NoStatus == <<"offline", "session">>

\* Faulty: the login status is set before the session exists.
StatusFirst == <<"offline", "status", "session">>

LoginSteps == <<"offline", "session", "status">>

\* Faulty: the code is not deleted.
KeepCode == <<"code">>

SpendSteps == <<"code", "delete">>

\* Faulty: the setter leaves the index alone.
NoIndexing == <<"select", "update">>

SetterSteps == <<"select", "update", "index">>

\* Faulty: the row names the avatar before the file is there.
UploadLast == <<"select", "update", "upload", "index">>

\* Faulty: the index names the avatar before the file is there.
IndexFirst == <<"select", "index", "upload", "update">>

AvatarSteps == <<"select", "upload", "update", "index">>

Path(op) ==
    CASE op = "nicknameRegister" -> RegisterSteps
      [] op = "phoneRegister" -> <<"code">> \o RegisterSteps
      [] op = "sendCode" -> <<"send">>
      [] op = "nicknameLogin" -> <<"find">> \o LoginSteps
      [] op = "phoneLogin" -> <<"find">> \o SpendSteps \o LoginSteps
      [] op \in {"setNickname", "setDescription"} -> SetterSteps
      [] op = "setPassword" -> <<"select", "update">>
      [] op = "setPhone" -> SpendSteps \o SetterSteps
      [] op = "setAvatar" -> AvatarSteps

OpOf(c) == task[c].op

\* checkNickname, checkPassword and checkPhone come first.
Malformed(c) ==
    \/ OpOf(c) \notin {"nicknameLogin", "setDescription", "setAvatar"}
          /\ task[c].value \notin Valid
    \/ OpOf(c) = "nicknameRegister" /\ task[c].password \notin Valid

Running(c) == result[c] = "running"
AtStep(c, step) ==
    /\ Running(c) /\ ~Malformed(c)
    /\ at[c] <= Len(Path(OpOf(c)))
    /\ Path(OpOf(c))[at[c]] = step

Fault(kind) ==
    /\ kind \in Faults
    /\ faults < MaxFaults
    /\ faults' = faults + 1

Advance(c) ==
    at' = [at EXCEPT ![c] = @ + 1] /\ UNCHANGED <<result, task>>
Answer(c, answer) ==
    result' = [result EXCEPT ![c] = answer] /\ UNCHANGED <<at, task>>

Init ==
    /\ rows = [u \in User |-> IF u \in Registered THEN RowOf[u] ELSE NoRow]
    /\ docs = {DocOf(u, RowOf[u]) : u \in Registered}
    /\ files = {}
    /\ codes = {}
    /\ sessions = [c \in Call |-> NoRow]
    /\ online = {}
    /\ at = [c \in Call |-> 1]
    /\ who = [c \in Call |-> NoRow]
    /\ user = [c \in Call |-> NoRow]
    /\ result = [c \in Call |-> "running"]
    /\ faults = 0
    /\ task \in [Call -> Requests]

\* The format checks failed.
Refuse(c) ==
    /\ Running(c) /\ Malformed(c)
    /\ Answer(c, "error")
    /\ UNCHANGED <<stores, who, user, faults>>

Succeed(c) ==
    /\ Running(c) /\ ~Malformed(c)
    /\ at[c] > Len(Path(OpOf(c)))
    /\ Answer(c, "ok")
    /\ UNCHANGED <<stores, who, user, faults>>

-----------------------------------------------------------------------------
(* MySQL.                                                                   *)

Users == {u \in User : rows[u] # NoRow}

\* The column a call looks its user up by.
Key(c) == IF OpOf(c) \in {"nicknameRegister", "nicknameLogin"}
          THEN "nickname" ELSE "phone"
Holders(c) == {u \in Users : rows[u][Key(c)] = task[c].value}

\* selectByNickname, selectByPhone: a failed query looks like a free name.
CheckFree(c) ==
    /\ AtStep(c, "free")
    /\ \/ Holders(c) = {} /\ Advance(c) /\ UNCHANGED faults
       \/ Holders(c) # {} /\ Answer(c, "error") /\ UNCHANGED faults
       \/ Fault("mysql") /\ Advance(c)
    /\ UNCHANGED <<stores, who, user>>

\* The logins; the nickname login compares the password.
FindUser(c) ==
    /\ AtStep(c, "find")
    /\ LET found == {u \in Holders(c) :
                        OpOf(c) = "nicknameLogin"
                           => rows[u].password = task[c].password}
       IN  \/ \E u \in found : /\ who' = [who EXCEPT ![c] = u]
                               /\ Advance(c)
                               /\ UNCHANGED faults
           \/ found = {} /\ Answer(c, "error") /\ UNCHANGED <<who, faults>>
           \/ Fault("mysql") /\ Answer(c, "error") /\ UNCHANGED who
    /\ UNCHANGED <<stores, user>>

\* The User object after the setter.
Changed(c, row) ==
    LET v == task[c].value IN
    CASE OpOf(c) = "setNickname" -> [row EXCEPT !.nickname = v]
      [] OpOf(c) = "setPassword" -> [row EXCEPT !.password = v]
      [] OpOf(c) = "setPhone" -> [row EXCEPT !.phone = v]
      [] OpOf(c) = "setDescription" -> [row EXCEPT !.description = v]
      [] OpOf(c) = "setAvatar" ->
            IF row.avatar = Null THEN [row EXCEPT !.avatar = c] ELSE row

\* selectByUserId and the setter on the local object.
SelectUser(c) ==
    /\ AtStep(c, "select")
    /\ LET u == task[c].user
           accepted == /\ rows[u] # NoRow
                       /\ OpOf(c) = "setPassword"
                             => rows[u].password = task[c].password
       IN  \/ /\ accepted
              /\ who' = [who EXCEPT ![c] = u]
              /\ user' = [user EXCEPT ![c] = Changed(c, rows[u])]
              /\ Advance(c)
              /\ UNCHANGED faults
           \/ /\ ~accepted
              /\ Answer(c, "error")
              /\ UNCHANGED <<who, user, faults>>
           \/ /\ Fault("mysql")
              /\ Answer(c, "error")
              /\ UNCHANGED <<who, user>>
    /\ UNCHANGED stores

\* Faulty: the columns carry no unique index.
NoIndexConflict(u, row) == FALSE

\* The unique indexes on nickname and phone.
Conflict(u, row) ==
    \E v \in Users \ {u} : ~Different(row, rows[v])

\* One transaction that writes the whole row.  It commits, is refused by an
\* index or by the server, or commits without our hearing of it.
Write(c, u, row) ==
    \/ /\ ~Conflict(u, row)
       /\ rows' = [rows EXCEPT ![u] = row]
       /\ Advance(c)
       /\ UNCHANGED faults
    \/ /\ Conflict(u, row)
       /\ Answer(c, "error")
       /\ UNCHANGED <<rows, faults>>
    \/ /\ Fault("mysql")
       /\ Answer(c, "error")
       /\ UNCHANGED rows
    \/ /\ ~Conflict(u, row)
       /\ Fault("mysqlReply")
       /\ rows' = [rows EXCEPT ![u] = row]
       /\ Answer(c, "error")

\* The two constructors of User that registrations use.
NewRow(c) ==
    IF OpOf(c) = "nicknameRegister"
    THEN [nickname |-> task[c].value, phone |-> Null,
          password |-> task[c].password, description |-> Null, avatar |-> Null]
    ELSE [nickname |-> c, phone |-> task[c].value,
          password |-> Null, description |-> Null, avatar |-> Null]

InsertUser(c) ==
    /\ AtStep(c, "insert")
    /\ who' = [who EXCEPT ![c] = c]
    /\ user' = [user EXCEPT ![c] = NewRow(c)]
    /\ Write(c, c, NewRow(c))
    /\ UNCHANGED <<docs, files, codes, sessions, online>>

\* Faulty: the other setters know nothing of the avatar.
ForgetfulUpdate(c) ==
    LET blank == IF OpOf(c) = "setAvatar" THEN user[c]
                 ELSE [user[c] EXCEPT !.avatar = Null]
    IN  /\ AtStep(c, "update")
        /\ Write(c, who[c], blank)
        /\ UNCHANGED <<docs, files, codes, sessions, online, who, user>>

UpdateUser(c) ==
    /\ AtStep(c, "update")
    /\ Write(c, who[c], user[c])
    /\ UNCHANGED <<docs, files, codes, sessions, online, who, user>>

-----------------------------------------------------------------------------
(* Elasticsearch and the file service.                                      *)

\* addData gives no document id: every call adds a document.
AddData(c) ==
    /\ AtStep(c, "index")
    /\ \/ /\ docs' = docs \cup {DocOf(who[c], user[c])}
          /\ Advance(c)
          /\ UNCHANGED faults
       \/ Fault("es") /\ Answer(c, "error") /\ UNCHANGED docs
       \/ /\ Fault("esReply")
          /\ docs' = docs \cup {DocOf(who[c], user[c])}
          /\ Answer(c, "error")
    /\ UNCHANGED <<rows, files, codes, sessions, online, who, user>>

\* PutSingleFile under the avatar id.  Only a user's first avatar changes
\* the row.
PutAvatar(c) ==
    /\ AtStep(c, "upload")
    /\ \/ /\ files' = files \cup {user[c].avatar}
          /\ IF user[c].avatar = c THEN Advance(c) ELSE Answer(c, "ok")
          /\ UNCHANGED faults
       \/ Fault("file") /\ Answer(c, "error") /\ UNCHANGED files
       \/ /\ Fault("fileReply")
          /\ files' = files \cup {user[c].avatar}
          /\ Answer(c, "error")
    /\ UNCHANGED <<rows, docs, codes, sessions, online, who, user>>

-----------------------------------------------------------------------------
(* redis.                                                                   *)

SendCode(c) ==
    /\ AtStep(c, "send")
    /\ codes' = codes \cup {c}
    /\ Advance(c)
    /\ UNCHANGED <<rows, docs, files, sessions, online, who, user, faults>>

CheckCode(c) ==
    /\ AtStep(c, "code")
    /\ IF task[c].code \in codes THEN Advance(c) ELSE Answer(c, "error")
    /\ UNCHANGED <<stores, who, user, faults>>

DeleteCode(c) ==
    /\ AtStep(c, "delete")
    /\ codes' = codes \ {task[c].code}
    /\ Advance(c)
    /\ UNCHANGED <<rows, docs, files, sessions, online, who, user, faults>>

\* The time to live of a code ends.
ExpireCode(c) ==
    /\ c \in codes
    /\ codes' = codes \ {c}
    /\ UNCHANGED <<rows, docs, files, sessions, online,
                   at, who, user, result, faults, task>>

CheckOffline(c) ==
    /\ AtStep(c, "offline")
    /\ IF who[c] \in online THEN Answer(c, "error") ELSE Advance(c)
    /\ UNCHANGED <<stores, who, user, faults>>

AddSession(c) ==
    /\ AtStep(c, "session")
    /\ sessions' = [sessions EXCEPT ![c] = who[c]]
    /\ Advance(c)
    /\ UNCHANGED <<rows, docs, files, codes, online, who, user, faults>>

AddLoginStatus(c) ==
    /\ AtStep(c, "status")
    /\ online' = online \cup {who[c]}
    /\ Advance(c)
    /\ UNCHANGED <<rows, docs, files, codes, sessions, who, user, faults>>

-----------------------------------------------------------------------------

\* The process that serves a call dies, also of an exception of the redis
\* client, which nobody catches.  With several calls it is several such steps.
Crash(c) ==
    /\ Running(c) /\ at[c] > 1
    /\ Fault("crash")
    /\ Answer(c, "lost")
    /\ UNCHANGED <<stores, who, user>>

Handle(c) ==
    \/ Refuse(c) \/ Succeed(c)
    \/ CheckFree(c) \/ FindUser(c) \/ SelectUser(c)
    \/ InsertUser(c) \/ UpdateUser(c)
    \/ AddData(c) \/ PutAvatar(c)
    \/ SendCode(c) \/ CheckCode(c) \/ DeleteCode(c)
    \/ CheckOffline(c) \/ AddSession(c) \/ AddLoginStatus(c)

Next == \E c \in Call : Handle(c) \/ ExpireCode(c) \/ Crash(c)

Spec == Init /\ [][Next]_vars

-----------------------------------------------------------------------------

TypeOK ==
    /\ rows \in [User -> Row \cup {NoRow}]
    /\ docs \subseteq Doc
    /\ files \subseteq Call
    /\ codes \subseteq Call
    /\ sessions \in [Call -> User \cup {NoRow}]
    /\ online \subseteq User
    /\ at \in [Call -> 1..7]
    /\ who \in [Call -> User \cup {NoRow}]
    /\ user \in [Call -> Row \cup {NoRow}]
    /\ result \in [Call -> Result]
    /\ faults \in 0..MaxFaults
    /\ task \in [Call -> Requests]

\* No two users share a nickname or a phone, although registrations and
\* setters look before they write and others write in between.
UniqueNames ==
    \A u, v \in Users :
        u # v => Different(rows[u], rows[v])

\* The avatar id of a row leads to a file: the file is written first, and
\* no concurrent setter or crash gets in between.
AvatarHasFile == \A u \in Users : rows[u].avatar \in files \cup {Null}

\* A call has the row in hand and is about to index it, or failed to.
Owed(u, row) ==
    \E c \in Call : /\ AtStep(c, "index") \/ result[c] \in {"error", "lost"}
                    /\ user[c] # NoRow
                    /\ DocOf(who[c], user[c]) = DocOf(u, row)

Indexed(u, row) == DocOf(u, row) \in docs \/ Owed(u, row)

\* Search finds every user under the current nickname and phone, unless a
\* call is just about to index them, or failed to and said so or died.
\* Concurrent setters write rows back that they read before, and setPassword
\* indexes nothing, but where every caller hears "success" no row is left
\* whose document nobody added.
CurrentRowIndexed == \A u \in Users : Indexed(u, rows[u])

\* Search shows no user who is not registered and no avatar that is not
\* there, whichever step of a registration or a setter fails.
IndexedIsReal ==
    \A d \in docs : d.user \in Users /\ d.avatar \in files \cup {Null}

\* Whoever counts as logged in has a session: the status is set last, so a
\* login that dies half-way does not lock its user out.
OnlineHasSession == \A u \in online : \E c \in Call : sessions[c] = u

\* A code that a login or a change of phone was completed with is gone.
Spends == {"phoneLogin", "setPhone"}
SpentCodeGone ==
    \A c \in Call :
        result[c] = "ok" /\ OpOf(c) \in Spends => task[c].code \notin codes

\* The strengthening that makes the above inductive: what a call that has
\* taken a step knows from then on.
Past(c, step) ==
    \E i \in 1..Len(Path(OpOf(c))) :
        i < at[c] /\ Path(OpOf(c))[i] = step

HoldsRow(c) ==
    Past(c, "select") \/ Past(c, "insert")
        => /\ who[c] \in Users
           /\ user[c] \in Row
           /\ \/ user[c].avatar \in files \cup {Null}
              \/ OpOf(c) = "setAvatar" /\ ~Past(c, "upload")
           /\ OpOf(c) = "setAvatar" => user[c].avatar # Null

HoldsUser(c) ==
    /\ Past(c, "find") => who[c] \in User
    /\ sessions[c] = IF Past(c, "session") THEN who[c] ELSE NoRow

HoldsCode(c) ==
    /\ c \in codes => Past(c, "send")
    /\ Past(c, "code") => Past(task[c].code, "send")
    /\ Past(c, "delete") => task[c].code \notin codes
    /\ result[c] = "ok" /\ OpOf(c) \in Spends => Past(c, "delete")

IInv ==
    /\ TypeOK
    /\ AvatarHasFile
    /\ IndexedIsReal
    /\ OnlineHasSession
    /\ \A c \in Call : HoldsRow(c) /\ HoldsUser(c) /\ HoldsCode(c)

\* setPassword writes back a row whose document is there or owed.
WritesIndexedRow ==
    \A c \in Call : OpOf(c) = "setPassword" /\ Past(c, "select")
                       => Indexed(who[c], user[c])

IndexInv == IInv /\ CurrentRowIndexed /\ WritesIndexedRow

-----------------------------------------------------------------------------
(* What the other services see: rows with their avatars, and files.         *)

Avatars == [u \in User |-> IF u \in Users THEN rows[u].avatar ELSE Null]

Table == INSTANCE Accounts WITH
    Early <- Registered, Avatar <- Call, NoAvatar <- Null,
    users <- Users, avatar <- Avatars

\* To its readers the service is a table of users who stay, in which an
\* avatar appears once its file is there and may go again, but never shows
\* one that is not there: each step of each handler, failed or not, is one
\* such change or none.
ImplementsAccounts == Table!Spec

-----------------------------------------------------------------------------
(* What the service does not achieve.                                       *)

\* What search shows of a user is the user's current data, once no call is
\* under way.
IndexUpToDate ==
    (\A c \in Call : result[c] = "ok")
        => \A d \in docs : d = DocOf(d.user, rows[d.user])

\* A user who is logged in is not logged in once more.
OneLogin ==
    \A c, d \in Call :
        c # d /\ {OpOf(c), OpOf(d)} \subseteq Logins
              /\ result[c] = "ok" /\ result[d] = "ok"
            => who[c] # who[d]

\* A confirmed change that no other call contends for stays.
FieldOf(op) ==
    CASE op = "setNickname" -> "nickname"
      [] op = "setPassword" -> "password"
      [] op = "setPhone" -> "phone"
      [] op = "setDescription" -> "description"

ConfirmedChangeStays ==
    \A c \in Call :
        /\ OpOf(c) \in Setters \ {"setAvatar"}
        /\ result[c] = "ok"
        /\ \A d \in Call \ {c} :
              OpOf(d) = OpOf(c) => task[d].user # task[c].user
        => rows[task[c].user][FieldOf(OpOf(c))] = task[c].value
=============================================================================
