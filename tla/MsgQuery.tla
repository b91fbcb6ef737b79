-------------------------------- MODULE MsgQuery --------------------------------
(***************************************************************************)
(* The three queries of msgStorage, GetHistoryMessage, GetRecentMessage    *)
(* and MessageSearch, each a sequence of steps on the user service, the    *)
(* message table or the index, and the user and file services again.       *)
(*                                                                         *)
(* Meanwhile messages arrive, users register, and avatars are put and put  *)
(* again.  Of the pipeline a query sees what MessageLog allows: messages   *)
(* enter the table and the index in any order, and stay.  Of the user      *)
(* service it sees what Accounts allows, which UserService implements.     *)
(***************************************************************************)
EXTENDS Integers, Sequences, FiniteSets

CONSTANTS
    Message,     \* messages
    Chat,        \* chat sessions
    User,        \* users
    Call,        \* RPC calls
    ChatOf,      \* [Message -> Chat]
    SenderOf,    \* [Message -> User]
    SentAt,      \* [Message -> Time], the timestamp msgTransmit gives them
    Text,        \* messages of type STRING
    Time,        \* Unix seconds
    Wall(_),     \* localtime_r: the clock on the server's wall at a time
    MkTime(_),   \* mktime: a time at which the wall clock reads that
    AnyChat,     \* the empty chat_session_id
    Nobody,      \* the empty user_id
    Early,       \* users from before
    Avatar,      \* ids of avatars
    NoAvatar,    \* the empty avatar id
    Requests,    \* what calls may ask for
    MaxHits,     \* the size of a page of Elasticsearch
    Faults       \* the services that may fail

\* "keyed" are the messages that contain the search key.
Request == [op : {"history", "recent", "search"}, requester : User \cup {Nobody},
            chat : Chat \cup {AnyChat}, from : Time, to : Time, count : Int,
            keyed : SUBSET Message]

ASSUME MessageAssumption ==
    /\ IsFiniteSet(Message)
    /\ ChatOf \in [Message -> Chat]
    /\ SenderOf \in [Message -> User]
    /\ SentAt \in [Message -> Time]
    /\ Text \subseteq Message
ASSUME ClockAssumption ==
    /\ Time \subseteq Int
    /\ \A t \in Time : /\ Wall(t) \in Int
                       /\ MkTime(t) \in Int
                       /\ MkTime(Wall(t)) \in Time
                       /\ Wall(MkTime(Wall(t))) = Wall(t)
ASSUME RequestsAssumption == Requests \subseteq Request
ASSUME EarlyAssumption == Early \subseteq User
ASSUME NullsAssumption ==
    Nobody \notin User /\ AnyChat \notin Chat /\ NoAvatar \notin Avatar
ASSUME FaultAssumption ==
    MaxHits \in Nat /\ Faults \subseteq {"mysql", "es", "rpc"}

VARIABLES
    sent,      \* messages that passed msgTransmit
    stored,    \* messages in the message table
    indexed,   \* messages that searches can see
    users,     \* registered users
    avatar,    \* [User -> Avatar or NoAvatar], the avatar ids of their rows
    files,     \* avatars in the file service
    step,      \* [Call -> Step]
    found,     \* [Call -> Seq(Row)], the messages of the query
    shown,     \* [Call -> SUBSET Avatar], the avatars to be fetched
    answer,    \* [Call -> Seq(Info)], message_info of the response
    result,    \* [Call -> {"none", "ok", "error"}]
    hit,       \* calls that met a failing service
    torn,      \* calls under which an avatar they read was truncated
    before,    \* [Call -> SUBSET Message], stored when the call arrived
    earlier,   \* [Call -> SUBSET Call], those answered before it arrived
    task       \* [Call -> Requests]

log == <<sent, stored, indexed>>
accounts == <<users, avatar, files>>
calls == <<step, found, shown, answer, result, hit, torn, before, earlier,
           task>>
vars == <<log, accounts, calls>>

Step == {"idle", "check", "avatar", "query", "users", "files", "fill", "done"}
Row == [msg : Message, createTime : Int]
Info == [msg : Message, time : Int]

\* The rows and the avatars of the users.
UserTable == INSTANCE Accounts

Messages(q) == {q[i].msg : i \in DOMAIN q}

Init ==
    /\ sent = {} /\ stored = {} /\ indexed = {}
    /\ UserTable!Init
    /\ step = [c \in Call |-> "idle"]
    /\ found = [c \in Call |-> <<>>]
    /\ shown = [c \in Call |-> {}]
    /\ answer = [c \in Call |-> <<>>]
    /\ result = [c \in Call |-> "none"]
    /\ hit = {} /\ torn = {}
    /\ before = [c \in Call |-> {}]
    /\ earlier = [c \in Call |-> {}]
    /\ task \in [Call -> Requests]

-----------------------------------------------------------------------------
(* The other services.                                                      *)

\* Faulty: msgTransmit does not ask for the sender.
AnySender(m) == TRUE

\* GetSingleUserInfo knows the sender.
KnownSender(m) == SenderOf[m] \in users

GetTransmitTarget(m) ==
    /\ m \notin sent
    /\ KnownSender(m)
    /\ sent' = sent \cup {m}
    /\ UNCHANGED <<stored, indexed, accounts, calls>>

Store(m) ==
    /\ m \in sent \ stored
    /\ stored' = stored \cup {m}
    /\ UNCHANGED <<sent, indexed, accounts, calls>>

\* onMessage has indexed the text and Elasticsearch has refreshed.
Index(m) ==
    /\ m \in (sent \cap Text) \ indexed
    /\ indexed' = indexed \cup {m}
    /\ UNCHANGED <<sent, stored, accounts, calls>>

AccountStep ==
    /\ \E u \in User : UserTable!Register(u) \/ UserTable!WriteRow(u)
    /\ UNCHANGED <<log, calls>>

-----------------------------------------------------------------------------
(* The handlers.                                                            *)

OpOf(c) == task[c].op

Goto(c, s) == step' = [step EXCEPT ![c] = s] /\ UNCHANGED result

Fail(c) == result' = [result EXCEPT ![c] = "error"] /\ UNCHANGED step

Running(c, s) == step[c] = s /\ result[c] = "none"

Reads(c, a) == (Running(c, "avatar") \/ Running(c, "files")) /\ a \in shown[c]

\* SetUserAvatar puts a further avatar under the id of the first: writeFile
\* truncates the file, whoever reads it.
PutAvatar(a) ==
    /\ UserTable!Upload(a)
    /\ torn' = torn \cup {c \in Call : a \in files /\ Reads(c, a)}
    /\ UNCHANGED <<log, step, found, shown, answer, result, hit, before, earlier,
                   task>>

Arrive(c) ==
    /\ Running(c, "idle")
    /\ Goto(c, "check")
    /\ before' = [before EXCEPT ![c] = stored]
    /\ earlier' = [earlier EXCEPT ![c] = {d \in Call : result[d] = "ok"}]
    /\ UNCHANGED <<log, accounts, found, shown, answer, hit, torn, task>>

\* No host, a failing RPC, or a service whose own database fails.
Unavailable(c) ==
    /\ \/ Running(c, "check") /\ task[c].requester # Nobody
       \/ Running(c, "avatar")
       \/ Running(c, "users")
       \/ Running(c, "files")
    /\ "rpc" \in Faults
    /\ Fail(c)
    /\ hit' = hit \cup {c}
    /\ found' = [found EXCEPT ![c] = <<>>]
    /\ shown' = [shown EXCEPT ![c] = {}]
    /\ UNCHANGED <<log, accounts, answer, torn, before, earlier, task>>

\* The avatar id of a row, unless it is empty.
AvatarOf(u) == {avatar[u]} \ {NoAvatar}

\* checkRequester and the first half of GetSingleUserInfo: the user of the
\* session, or the one named, is there.
checkRequester(c) ==
    /\ Running(c, "check")
    /\ LET u == task[c].requester IN
       \/ u = Nobody /\ Goto(c, "query") /\ UNCHANGED shown
       \/ /\ u \in users
          /\ Goto(c, IF AvatarOf(u) = {} THEN "query" ELSE "avatar")
          /\ shown' = [shown EXCEPT ![c] = AvatarOf(u)]
       \/ u \notin users \cup {Nobody} /\ Fail(c) /\ UNCHANGED shown
    /\ UNCHANGED <<log, accounts, found, answer, hit, torn, before, earlier, task>>

\* A missing file is an error, and so is one that was truncated between the
\* measuring and the reading: readFile comes to the end of it too early.
FetchAvatars(c, next) ==
    /\ \/ shown[c] \subseteq files /\ Goto(c, next) /\ torn' = torn \ {c}
       \/ ~ (shown[c] \subseteq files) /\ Fail(c) /\ UNCHANGED torn
       \/ c \in torn /\ Fail(c) /\ UNCHANGED torn
    /\ shown' = [shown EXCEPT ![c] = {}]
    /\ UNCHANGED <<log, accounts, found, answer, hit, before, earlier, task>>

\* The second half of GetSingleUserInfo, with GetSingleFile.
GetAvatar(c) == Running(c, "avatar") /\ FetchAvatars(c, "query")

\* The table keeps the wall clock's reading.
RowOf(m) == [msg |-> m, createTime |-> Wall(SentAt[m])]

InChat(c, S) == {m \in S : ChatOf[m] = task[c].chat}

\* Faulty: the interval is compared without conversion to local time.
RawRange(c) ==
    {m \in InChat(c, stored) :
        RowOf(m).createTime \in task[c].from..task[c].to}

\* MessageTable::range
range(c) ==
    {m \in InChat(c, stored) :
        RowOf(m).createTime \in Wall(task[c].from)..Wall(task[c].to)}

\* The rows of S, one after the other.
Orders(S) ==
    {q \in [1..Cardinality(S) -> {RowOf(m) : m \in S}] : Messages(q) = S}

\* std::sort by create_time; rows of one second come in any order.
Sorted(S) ==
    {q \in Orders(S) :
        \A i, j \in DOMAIN q : i < j => q[i].createTime <= q[j].createTime}

\* Faulty: ORDER BY create_time without DESC.
Oldest(S, T) ==
    \A m \in T, k \in S \ T : RowOf(m).createTime <= RowOf(k).createTime

\* ORDER BY create_time DESC LIMIT n selects T from S.
Newest(S, T) ==
    \A m \in T, k \in S \ T : RowOf(k).createTime <= RowOf(m).createTime

Least(a, b) == IF a <= b THEN a ELSE b

\* std::max(count, 0)
Limit(c) == IF task[c].count < 0 THEN 0 ELSE task[c].count

\* What LIMIT leaves of the chat's rows.
Selections(c) ==
    LET S == InChat(c, stored) IN
    {T \in SUBSET S : /\ Cardinality(T) = Least(Limit(c), Cardinality(S))
                      /\ Newest(S, T)}

Descending(S) ==
    {q \in Orders(S) :
        \A i, j \in DOMAIN q : i < j => q[j].createTime <= q[i].createTime}

\* Faulty: the rows stay as they come.
Unreversed(q) == q

\* std::reverse
Reversed(q) == [i \in DOMAIN q |-> q[Len(q) + 1 - i]]

\* With a clause "must" the clause "should", which has the key, only ranks.
Candidates(c) ==
    IF task[c].chat = AnyChat THEN indexed \cap task[c].keyed
                              ELSE InChat(c, indexed)

\* from_time_t takes the time for a reading.
HitOf(m) == [msg |-> m, createTime |-> SentAt[m]]

\* The first page of the ranking, whatever the ranking is.
Page(c) ==
    {q \in [1..Least(MaxHits, Cardinality(Candidates(c))) ->
               {HitOf(m) : m \in Candidates(c)}] :
        \A i, j \in DOMAIN q : q[i] = q[j] => i = j}

Queried(c) ==
    CASE OpOf(c) = "history" -> Sorted(range(c))
      [] OpOf(c) = "recent" ->
            {Reversed(q) : q \in UNION {Descending(T) : T \in Selections(c)}}
      [] OpOf(c) = "search" -> Page(c)

\* fillUserInfoMap asks for nobody when there is no message.
Found(c, q) ==
    /\ found' = [found EXCEPT ![c] = q]
    /\ Goto(c, IF q = <<>> THEN "fill" ELSE "users")

Query(c) ==
    /\ Running(c, "query")
    /\ \E q \in Queried(c) : Found(c, q)
    /\ UNCHANGED <<log, accounts, shown, answer, hit, torn, before, earlier,
                   task>>

\* A failing query looks like one that finds nothing.
QueryFails(c) ==
    /\ Running(c, "query")
    /\ (IF OpOf(c) = "search" THEN "es" ELSE "mysql") \in Faults
    /\ Found(c, <<>>)
    /\ hit' = hit \cup {c}
    /\ UNCHANGED <<log, accounts, shown, answer, torn, before, earlier, task>>

Senders(c) == {SenderOf[m] : m \in Messages(found[c])}

\* Faulty: a vector of ids instead of the set.
AskedPerMessage(c) == Len(found[c])

\* How many ids fillUserInfoMap puts into the request.
Asked(c) == Cardinality(Senders(c))

\* GetMultiUserInfo: one row for each id, or an error.
SelectUsers(c) ==
    /\ Running(c, "users")
    /\ IF Cardinality(Senders(c) \cap users) = Asked(c)
       THEN /\ Goto(c, "files")
            /\ shown' = [shown EXCEPT ![c] =
                           UNION {AvatarOf(u) : u \in Senders(c)}]
       ELSE Fail(c) /\ UNCHANGED shown
    /\ UNCHANGED <<log, accounts, found, answer, hit, torn, before, earlier,
                   task>>

\* GetMultiFile: an error of one file is an error for all.
GetAvatars(c) == Running(c, "files") /\ FetchAvatars(c, "fill")

\* Faulty: the reading is taken for a time.
TimeOfUTC(row) == row.createTime

\* serverLocalPtimeToUnixSeconds
TimeOf(row) == MkTime(row.createTime)

fillSuccessResponse(c) ==
    /\ Running(c, "fill")
    /\ step' = [step EXCEPT ![c] = "done"]
    /\ result' = [result EXCEPT ![c] = "ok"]
    /\ answer' = [answer EXCEPT ![c] =
          [i \in DOMAIN found[c] |->
              [msg |-> found[c][i].msg, time |-> TimeOf(found[c][i])]]]
    /\ found' = [found EXCEPT ![c] = <<>>]
    /\ UNCHANGED <<log, accounts, shown, hit, torn, before, earlier, task>>

-----------------------------------------------------------------------------

Services ==
    \/ \E m \in Message : GetTransmitTarget(m) \/ Store(m) \/ Index(m)
    \/ AccountStep
    \/ \E a \in Avatar : PutAvatar(a)

Handle(c) ==
    \/ Arrive(c) \/ checkRequester(c) \/ GetAvatar(c) \/ Query(c) \/ QueryFails(c)
    \/ SelectUsers(c) \/ GetAvatars(c) \/ fillSuccessResponse(c)
    \/ Unavailable(c)

Next == Services \/ \E c \in Call : Handle(c)

Spec == Init /\ [][Next]_vars

-----------------------------------------------------------------------------

TypeOK ==
    /\ stored \subseteq sent /\ indexed \subseteq sent /\ sent \subseteq Message
    /\ users \subseteq User /\ files \subseteq Avatar
    /\ avatar \in [User -> Avatar \cup {NoAvatar}]
    /\ step \in [Call -> Step]
    /\ found \in [Call -> Seq(Row)]
    /\ shown \in [Call -> SUBSET Avatar]
    /\ answer \in [Call -> Seq(Info)]
    /\ result \in [Call -> {"none", "ok", "error"}]
    /\ hit \subseteq Call /\ torn \subseteq Call
    /\ before \in [Call -> SUBSET Message]
    /\ earlier \in [Call -> SUBSET Call]
    /\ task \in [Call -> Requests]

Answered(c) == result[c] = "ok"

Searches(c) == OpOf(c) = "search"

\* A query is refused for a failing service, for a requester who is not one of
\* the users from before, or because an avatar was overwritten while it was
\* being read; never for a sender who is not known or an avatar that is not
\* there, although it looks at them long after it found the messages.
RefusedForCause ==
    \A c \in Call :
        result[c] = "error" =>
            \/ c \in hit
            \/ c \in torn
            \/ step[c] = "check" /\ task[c].requester \notin Early

\* A call keeps rows only between its query and its answer.
Phases(c) ==
    /\ step[c] \in {"idle", "check", "avatar", "query", "done"} => found[c] = <<>>
    /\ step[c] = "done" <=> result[c] = "ok"
    /\ step[c] # "done" => answer[c] = <<>>
    /\ step[c] \notin {"avatar", "files"} => shown[c] = {}
    /\ step[c] = "idle" => result[c] = "none"
    /\ c \in hit /\ result[c] # "error" =>
          step[c] \in {"fill", "done"} /\ found[c] = <<>> /\ answer[c] = <<>>

\* A call sees messages that were sent, and avatars that are files.
Known(c) == Messages(found[c]) \subseteq sent /\ shown[c] \subseteq files

\* What the rows and the answer say of the times.
TimesMatch(c) ==
    /\ \A i \in DOMAIN found[c] :
          found[c][i] = IF Searches(c) THEN HitOf(found[c][i].msg)
                                       ELSE RowOf(found[c][i].msg)
    /\ ~ Searches(c) =>
          \A i \in DOMAIN answer[c] :
              answer[c][i].time = MkTime(Wall(SentAt[answer[c][i].msg]))

InOrder(q) ==
    \A i, j \in DOMAIN q : i < j => Wall(SentAt[q[i].msg]) <= Wall(SentAt[q[j].msg])

\* In the chat and, on the wall clock, in the interval.
OnWall(c, m) ==
    /\ ChatOf[m] = task[c].chat
    /\ Wall(SentAt[m]) \in Wall(task[c].from)..Wall(task[c].to)

\* q is what the query of call c promises, on the wall clock.
Promised(c, q) ==
    /\ ~ Searches(c) => InOrder(q) /\ Messages(q) \subseteq stored
    /\ OpOf(c) = "history" =>
          /\ \A m \in Messages(q) : OnWall(c, m)
          /\ \A m \in before[c] : OnWall(c, m) => m \in Messages(q)
    /\ OpOf(c) = "recent" =>
          \A k \in InChat(c, before[c]) \ Messages(q) :
              /\ Len(q) = Limit(c)
              /\ \A m \in Messages(q) : Wall(SentAt[k]) <= Wall(SentAt[m])

PromiseKept(c) ==
    c \notin hit =>
        /\ step[c] \in {"users", "files", "fill"} => Promised(c, found[c])
        /\ step[c] = "done" => Promised(c, answer[c])

\* What a call has shown was stored before the calls that come later.
SeenBefore(d) ==
    /\ before[d] \subseteq stored
    /\ \A c \in earlier[d] :
          Answered(c) /\ (~ Searches(c) => Messages(answer[c]) \subseteq before[d])

\* What holds of all services and calls, in whatever order they take steps.
IInv ==
    /\ TypeOK
    /\ Early \subseteq users
    /\ \A m \in sent : SenderOf[m] \in users
    /\ \A u \in User : avatar[u] \in files \cup {NoAvatar}
    /\ \A c \in Call : /\ Phases(c) /\ Known(c) /\ TimesMatch(c)
                       /\ PromiseKept(c) /\ SeenBefore(c)
    /\ RefusedForCause

\* The wall clock is never set back: a zone without summer time.
SteadyClock == \A s, t \in Time : s < t => Wall(s) < Wall(t)

Within(c, t) == task[c].from <= t /\ t <= task[c].to

\* A query that failed answers with nothing, as one that finds nothing does.
FailedQuery(c) == c \in hit /\ answer[c] = <<>>

\* A history is the chat's messages of the interval and no others, with
\* every message that was stored when the call arrived; unless the database
\* failed, which the answer does not tell from an empty interval.
HistoryIsWhole ==
    \A c \in Call :
        Answered(c) /\ OpOf(c) = "history" /\ ~ FailedQuery(c) =>
            /\ \A m \in Messages(answer[c]) :
                  m \in InChat(c, stored) /\ Within(c, SentAt[m])
            /\ \A m \in InChat(c, before[c]) :
                  Within(c, SentAt[m]) => m \in Messages(answer[c])

\* The recent messages leave one out only when there are as many as were
\* asked for, and none of them is older than it.
RecentIsNewest ==
    \A c \in Call :
        Answered(c) /\ OpOf(c) = "recent" /\ ~ FailedQuery(c) =>
            \A k \in InChat(c, before[c]) \ Messages(answer[c]) :
                /\ Len(answer[c]) = Limit(c)
                /\ \A m \in Messages(answer[c]) : SentAt[k] <= SentAt[m]

\* Histories and recent messages come in the order they were sent in, with
\* the times they were sent at.
TimesAreTrue ==
    \A c \in Call :
        Answered(c) /\ OpOf(c) # "search" =>
            \A i \in DOMAIN answer[c] :
                /\ answer[c][i].time = SentAt[answer[c][i].msg]
                /\ \A j \in DOMAIN answer[c] :
                      i < j => answer[c][i].time <= answer[c][j].time

\* What a history or the recent messages showed, a history that is asked
\* for later shows again at the time it was shown with, whatever the clock
\* does.
SeenIsFoundAgain ==
    \A c, d \in Call :
        /\ Answered(c) /\ OpOf(c) # "search"
        /\ Answered(d) /\ OpOf(d) = "history" /\ ~ FailedQuery(d)
        /\ c \in earlier[d]
        => \A i \in DOMAIN answer[c] :
              LET m == answer[c][i].msg IN
              /\ ChatOf[m] = task[d].chat
              /\ Wall(answer[c][i].time) \in Wall(task[d].from)..Wall(task[d].to)
              => m \in Messages(answer[d])
=============================================================================
