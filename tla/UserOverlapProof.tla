--------------------------- MODULE UserOverlapProof ---------------------------
(***************************************************************************)
(* Logins and setters that do not overlap do what they say, for any calls, *)
(* any users and any number of failures.                                   *)
(***************************************************************************)
EXTENDS UserOverlap, UserServiceProof

-----------------------------------------------------------------------------
(* Paths and steps.                                                         *)

\* What is behind a login.
LEMMA LoginPath ==
    ASSUME TypeOK, NEW c \in Call, OpOf(c) \in Logins
    PROVE  /\ AtStep(c, "find") => at[c] = 1
           /\ ~AtStep(c, "select") /\ ~AtStep(c, "insert")
           /\ ~AtStep(c, "upload")
           /\ AtStep(c, "offline") => at[c] > 1
           /\ \A s : Past(c, s) => at[c] > 1
           /\ AtStep(c, "status") => Past(c, "offline")
           /\ Past(c, "status") => Past(c, "offline")
           /\ at[c] > Len(Path(OpOf(c))) => Past(c, "status") /\ at[c] > 1
<1> DEFINE p == Path(OpOf(c))
<1>1. at[c] \in Nat \ {0}
  BY DEF TypeOK
<1>2. CASE OpOf(c) = "nicknameLogin"
  <2>1. /\ Len(p) = 4
        /\ p[1] = "find" /\ p[2] = "offline" /\ p[3] = "session"
        /\ p[4] = "status"
    BY <1>2 DEF Path, LoginSteps
  <2> QED BY <1>1, <2>1 DEF AtStep, Past
<1>3. CASE OpOf(c) = "phoneLogin"
  <2>1. /\ Len(p) = 6
        /\ p[1] = "find" /\ p[2] = "code" /\ p[3] = "delete"
        /\ p[4] = "offline" /\ p[5] = "session" /\ p[6] = "status"
    BY <1>3 DEF Path, LoginSteps, SpendSteps
  <2> QED BY <1>1, <2>1 DEF AtStep, Past
<1> QED BY <1>2, <1>3 DEF Logins

\* What is behind a setter.
LEMMA SetterPath ==
    ASSUME TypeOK, NEW c \in Call, OpOf(c) \in Setters
    PROVE  /\ ~AtStep(c, "insert") /\ ~AtStep(c, "find")
           /\ \A s : Past(c, s) => at[c] > 1
           /\ AtStep(c, "update") => ~Past(c, "update") /\ at[c] > 1
           /\ AtStep(c, "upload") => ~Past(c, "update") /\ at[c] > 1
           /\ Past(c, "update") => Past(c, "select")
           /\ at[c] > Len(Path(OpOf(c))) => Past(c, "update")
<1> DEFINE p == Path(OpOf(c))
<1>1. at[c] \in Nat \ {0}
  BY DEF TypeOK
<1>2. CASE OpOf(c) \in {"setNickname", "setDescription"}
  <2>1. /\ Len(p) = 3
        /\ p[1] = "select" /\ p[2] = "update" /\ p[3] = "index"
    BY <1>2 DEF Path, SetterSteps
  <2> QED BY <1>1, <2>1 DEF AtStep, Past
<1>3. CASE OpOf(c) = "setPassword"
  <2>1. Len(p) = 2 /\ p[1] = "select" /\ p[2] = "update"
    BY <1>3 DEF Path
  <2> QED BY <1>1, <2>1 DEF AtStep, Past
<1>4. CASE OpOf(c) = "setPhone"
  <2>1. /\ Len(p) = 5
        /\ p[1] = "code" /\ p[2] = "delete" /\ p[3] = "select"
        /\ p[4] = "update" /\ p[5] = "index"
    BY <1>4 DEF Path, SpendSteps, SetterSteps
  <2> QED BY <1>1, <2>1 DEF AtStep, Past
<1>5. CASE OpOf(c) = "setAvatar"
  <2>1. /\ Len(p) = 4
        /\ p[1] = "select" /\ p[2] = "upload" /\ p[3] = "update"
        /\ p[4] = "index"
    BY <1>5 DEF Path, AvatarSteps
  <2> QED BY <1>1, <2>1 DEF AtStep, Past
<1> QED BY <1>2, <1>3, <1>4, <1>5 DEF Setters

\* A call that a step is not of keeps what it has; the others' tasks stay.
LEMMA ActorOnly ==
    ASSUME IInv, [Next]_vars
    PROVE  /\ task' = task
           /\ \/ UNCHANGED vars
              \/ \E c \in Call :
                    /\ Handle(c) \/ ExpireCode(c) \/ Crash(c)
                    /\ \A d \in Call \ {c} :
                          /\ who'[d] = who[d] /\ user'[d] = user[d]
                          /\ at'[d] = at[d] /\ result'[d] = result[d]
<1>1. CASE UNCHANGED vars
  BY <1>1 DEF vars
<1>2. CASE Next
  <2>1. PICK c \in Call : Handle(c) \/ ExpireCode(c) \/ Crash(c)
    BY <1>2 DEF Next
  <2>2. \A d \in Call \ {c} :
           /\ who'[d] = who[d] /\ user'[d] = user[d] /\ at'[d] = at[d]
           /\ result'[d] = result[d]
    BY <2>1, OthersUntouched
  <2>3. task' = task
    BY <2>1 DEF Handle, Refuse, Succeed, CheckFree, FindUser, SelectUser,
                InsertUser, UpdateUser, AddData, PutAvatar, SendCode,
                CheckCode, DeleteCode, CheckOffline, AddSession, Write,
                AddLoginStatus, ExpireCode, Crash, Answer, Advance
  <2> QED BY <2>1, <2>2, <2>3
<1> QED BY <1>1, <1>2

\* What a step does to the call it is of: it moves it on or ends it.
LEMMA StepOf ==
    ASSUME IInv, NEW c \in Call, Handle(c) \/ ExpireCode(c) \/ Crash(c)
    PROVE  \/ UNCHANGED <<at, result>> /\ ExpireCode(c)
           \/ /\ Running(c) /\ UNCHANGED at
              /\ \E a \in {"ok", "error", "lost"} :
                    result' = [result EXCEPT ![c] = a]
           \/ /\ Running(c) /\ UNCHANGED result
              /\ at' = [at EXCEPT ![c] = @ + 1]
<1>1. CASE Refuse(c) \/ Succeed(c) \/ CheckFree(c) \/ CheckCode(c)
           \/ CheckOffline(c) \/ Crash(c)
  BY <1>1 DEF Refuse, Succeed, CheckFree, CheckCode, CheckOffline, Crash,
              Answer, Advance, AtStep
<1>2. CASE FindUser(c) \/ SelectUser(c)
  BY <1>2 DEF FindUser, SelectUser, Answer, Advance, AtStep
<1>3. CASE InsertUser(c) \/ UpdateUser(c)
  BY <1>3 DEF InsertUser, UpdateUser, Write, Answer, Advance, AtStep
<1>4. CASE AddData(c) \/ PutAvatar(c)
  BY <1>4 DEF AddData, PutAvatar, Answer, Advance, AtStep
<1>5. CASE SendCode(c) \/ DeleteCode(c) \/ AddSession(c) \/ AddLoginStatus(c)
  BY <1>5 DEF SendCode, DeleteCode, AddSession, AddLoginStatus, Advance, AtStep
<1>6. CASE ExpireCode(c)
  BY <1>6 DEF ExpireCode
<1> QED BY <1>1, <1>2, <1>3, <1>4, <1>5, <1>6 DEF Handle

\* Calls move on, and what is over stays over.
LEMMA CallsMoveOn ==
    ASSUME IInv, [Next]_vars, NEW d \in Call
    PROVE  /\ at'[d] \in Nat /\ at[d] \in Nat \ {0} /\ at'[d] >= at[d]
           /\ Running(d)' => Running(d)
           /\ ~Running(d) => result'[d] = result[d] /\ at'[d] = at[d]
           /\ \A s : Past(d, s) => Past(d, s)'
<1>1. /\ at'[d] \in {at[d], at[d] + 1} /\ at[d] \in Nat \ {0}
      /\ Running(d)' => Running(d)
      /\ ~Running(d) => result'[d] = result[d] /\ at'[d] = at[d]
  <2>1. CASE UNCHANGED vars
    BY <2>1 DEF vars, Running, IInv, TypeOK
  <2>2. CASE at'[d] = at[d] /\ result'[d] = result[d]
    BY <2>2 DEF Running, IInv, TypeOK
  <2>3. CASE Handle(d) \/ ExpireCode(d) \/ Crash(d)
    BY <2>3, StepOf DEF IInv, TypeOK, Running
  <2> QED BY <2>1, <2>2, <2>3, ActorOnly
<1>2. ASSUME NEW s, Past(d, s) PROVE Past(d, s)'
  BY <1>1, <1>2, ActorOnly DEF Past, OpOf
<1> QED BY <1>1, <1>2

-----------------------------------------------------------------------------
(* The history.                                                             *)

\* The history of a call is written when the call begins.
LEMMA HistoryStep ==
    ASSUME IInv, HistoryOK, [ObservedNext]_observedVars
    PROVE  /\ [Next]_vars
           /\ \A d \in Call :
                 \/ after'[d] = after[d]
                 \/ /\ at[d] = 1 /\ at'[d] # 1
                    /\ after'[d] = Over(d)
           /\ HistoryOK'
<1>1. [Next]_vars
  BY DEF ObservedNext, observedVars, vars
<1>2. ASSUME NEW d \in Call
      PROVE  \/ after'[d] = after[d]
             \/ at[d] = 1 /\ at'[d] # 1 /\ after'[d] = Over(d)
  BY DEF ObservedNext, Watch, Begins, observedVars
<1>3. after' \in [Call -> SUBSET Call]
  BY DEF ObservedNext, Watch, Over, HistoryOK, observedVars
<1>4. ASSUME NEW d \in Call, NEW c \in after'[d]
      PROVE  ~Running(c)'
  <2>1. c \in Call /\ ~Running(c)
    BY <1>2, <1>4 DEF HistoryOK, Over
  <2> QED BY <1>1, <2>1, CallsMoveOn
<1> QED BY <1>1, <1>2, <1>3, <1>4 DEF HistoryOK

-----------------------------------------------------------------------------
(* Logins.                                                                  *)

\* Once a login has found its user, it stays with that user.
LEMMA LoginKeepsUser ==
    ASSUME IInv, [Next]_vars, NEW c \in Call, OpOf(c) \in Logins, at[c] > 1
    PROVE  who'[c] = who[c]
<1>1. /\ ~AtStep(c, "find") /\ ~AtStep(c, "select") /\ ~AtStep(c, "insert")
  BY LoginPath DEF IInv, TypeOK
<1>2. CASE Handle(c) \/ ExpireCode(c) \/ Crash(c)
  BY <1>1, <1>2
  DEF Handle, Refuse, Succeed, CheckFree, FindUser, SelectUser,
      InsertUser, UpdateUser, AddData, PutAvatar, SendCode, CheckCode,
      DeleteCode, CheckOffline, AddSession, AddLoginStatus, ExpireCode, Crash
<1> QED BY <1>2, ActorOnly DEF vars

\* Nobody is logged out.
LEMMA OnlineGrows ==
    ASSUME [Next]_vars
    PROVE  online \subseteq online'
<1>1. ASSUME NEW c \in Call, Handle(c) \/ ExpireCode(c) \/ Crash(c)
      PROVE  online \subseteq online'
  BY <1>1 DEF Handle, Refuse, Succeed, CheckFree, FindUser, SelectUser,
              InsertUser, UpdateUser, AddData, PutAvatar, SendCode,
              CheckCode, DeleteCode, CheckOffline, AddSession,
              AddLoginStatus, ExpireCode, Crash, stores
<1> QED BY <1>1 DEF Next, vars

\* The step that takes a login past one of the two commands on its status.
LEMMA StatusSteps ==
    ASSUME IInv, [Next]_vars, NEW c \in Call, OpOf(c) \in Logins
    PROVE  /\ Past(c, "offline")' =>
                 Past(c, "offline") \/ (CheckOffline(c) /\ Advance(c))
           /\ Past(c, "status")' => Past(c, "status") \/ AddLoginStatus(c)
           /\ result'[c] = "ok" => result[c] = "ok" \/ Past(c, "status")
<1>1. CASE UNCHANGED <<at, task, result>>
  BY <1>1, PastUnchanged
<1>2. ASSUME \/ Refuse(c) \/ Crash(c) \/ ExpireCode(c)
             \/ \E step : AtStep(c, step) /\ Answer(c, "error")
      PROVE  UNCHANGED <<at, task>> /\ (result'[c] = "ok" => result[c] = "ok")
  BY <1>2 DEF IInv, TypeOK, Refuse, Crash, ExpireCode, Answer
<1>3. CASE \/ Refuse(c) \/ Crash(c) \/ ExpireCode(c)
           \/ \E step : AtStep(c, step) /\ Answer(c, "error")
  BY <1>2, <1>3, PastUnchanged
<1>4. CASE Succeed(c)
  BY <1>4, LoginPath, PastUnchanged DEF Succeed, Answer, IInv
<1>5. ASSUME NEW step, AtStep(c, step), Advance(c),
             step = "offline" => CheckOffline(c),
             step = "status" => AddLoginStatus(c)
      PROVE  /\ Past(c, "offline")' =>
                   Past(c, "offline") \/ (CheckOffline(c) /\ Advance(c))
             /\ Past(c, "status")' => Past(c, "status") \/ AddLoginStatus(c)
             /\ result'[c] = "ok" => result[c] = "ok"
  BY <1>5, PastAfterStep DEF IInv, Advance
<1>6. CASE CheckFree(c) \/ FindUser(c) \/ CheckCode(c) \/ CheckOffline(c)
  BY <1>3, <1>5, <1>6 DEF CheckFree, FindUser, CheckCode, CheckOffline
<1>7. CASE SelectUser(c) \/ InsertUser(c) \/ PutAvatar(c)
  BY <1>7, LoginPath DEF SelectUser, InsertUser, PutAvatar, IInv
<1>8. CASE UpdateUser(c) \/ AddData(c)
  BY <1>3, <1>5, <1>8 DEF UpdateUser, AddData, Write
<1>9. CASE SendCode(c) \/ DeleteCode(c) \/ AddSession(c) \/ AddLoginStatus(c)
  BY <1>5, <1>9 DEF SendCode, DeleteCode, AddSession, AddLoginStatus
<1>10. CASE at'[c] = at[c] /\ result'[c] = result[c]
  BY <1>10, ActorOnly DEF Past, OpOf
<1> QED BY <1>3, <1>4, <1>6, <1>7, <1>8, <1>9, <1>10, ActorOnly
    DEF Handle, vars

\* What a login knows stays true.
LEMMA LoginKnowsKept ==
    ASSUME OverlapInv, [ObservedNext]_observedVars, NEW c \in Call,
           OpOf(c) \in Logins
    PROVE  LoginKnows(c)'
<1>1. IInv /\ HistoryOK /\ LoginKnows(c) /\ [Next]_vars
  BY HistoryStep DEF OverlapInv
<1>2. Past(c, "status")' => who'[c] \in online'
  <2>1. CASE Past(c, "status")
    BY <1>1, <2>1, LoginPath, LoginKeepsUser, OnlineGrows
    DEF LoginKnows, IInv
  <2>2. CASE AddLoginStatus(c)
    BY <2>2 DEF AddLoginStatus
  <2> QED BY <1>1, <2>1, <2>2, StatusSteps
<1>3. result'[c] = "ok" => Past(c, "status")'
  BY <1>1, StatusSteps, CallsMoveOn DEF LoginKnows
<1>4. ASSUME Past(c, "offline")', NEW d \in after'[c],
             OpOf(d)' \in Logins, result'[d] = "ok"
      PROVE  who'[d] # who'[c]
  <2>1. at[c] > 1
    BY <1>1, <1>4, StatusSteps, LoginPath DEF IInv, CheckOffline
  <2>2. d \in Call /\ d \in after[c] /\ ~Running(d)
    BY <1>1, <1>4, <2>1, HistoryStep DEF HistoryOK, IInv, TypeOK
  <2>3. OpOf(d) \in Logins /\ result[d] = "ok"
    BY <1>1, <1>4, <2>2, CallsMoveOn, ActorOnly DEF OpOf
  <2>4. Past(d, "status") /\ who[d] \in online /\ at[d] > 1
    BY <2>2, <2>3, LoginPath DEF OverlapInv, LoginKnows, IInv
  <2>5. who'[d] = who[d] /\ who'[c] = who[c]
    BY <1>1, <2>1, <2>2, <2>3, <2>4, LoginKeepsUser
  <2>6. CASE Past(c, "offline")
    BY <1>1, <2>2, <2>3, <2>5, <2>6 DEF LoginKnows
  <2>7. CASE CheckOffline(c) /\ Advance(c)
    <3>1. ~Answer(c, "error")
      BY <1>1, <2>7, AdvanceOrAnswer DEF IInv
    <3>2. who[c] \notin online
      BY <2>7, <3>1 DEF CheckOffline
    <3> QED BY <2>4, <2>5, <3>2
  <2> QED BY <1>1, <1>4, <2>6, <2>7, StatusSteps
<1> QED BY <1>2, <1>3, <1>4 DEF LoginKnows

-----------------------------------------------------------------------------
(* Setters.                                                                 *)

\* A setter puts its change into the row.
LEMMA ChangedShows ==
    ASSUME TypeOK, NEW c \in Call, OpOf(c) \in Setters, NEW row \in Row
    PROVE  /\ Shows(c, Changed(c, row))
           /\ OpOf(c) = "setAvatar" /\ Changed(c, row).avatar # c
                 => Shows(c, row)
BY RequestType, NullsAssumption
   DEF Changed, Shows, FieldOf, Setters, Row, User

\* A setter of another field keeps the change in the row.
LEMMA OtherChangeKeeps ==
    ASSUME TypeOK, NEW c \in Call, NEW d \in Call, NEW row \in Row,
           OpOf(c) \in Setters, OpOf(d) \in Setters, OpOf(d) # OpOf(c),
           Shows(c, row)
    PROVE  Shows(c, Changed(d, row))
<1>1. CASE OpOf(d) = "setAvatar"
  BY <1>1 DEF Changed, Shows, FieldOf, Setters, Row
<1>2. CASE OpOf(d) # "setAvatar"
  BY <1>2 DEF Changed, Shows, FieldOf, Setters, Row
<1> QED BY <1>1, <1>2

\* Who wrote to the table, and what.
LEMMA WhoWrote ==
    ASSUME IInv, [Next]_vars, rows' # rows
    PROVE  \E e \in Call :
              /\ Running(e)
              /\ \/ /\ AtStep(e, "insert") /\ who'[e] = e
                    /\ rows' = [rows EXCEPT ![e] = NewRow(e)]
                    /\ Advance(e) \/ Answer(e, "error")
                 \/ /\ UpdateUser(e) /\ AtStep(e, "update")
                    /\ OpOf(e) \in Setters
                    /\ Past(e, "select") /\ who[e] \in Users /\ user[e] \in Row
                    /\ rows' = [rows EXCEPT ![who[e]] = user[e]]
<1>1. PICK e \in Call : InsertUser(e) \/ UpdateUser(e)
  BY RowsWritten
<1>2. CASE InsertUser(e)
  BY <1>2 DEF InsertUser, Write, AtStep, IInv, TypeOK
<1>3. CASE UpdateUser(e)
  <2>1. /\ AtStep(e, "update") /\ Running(e)
        /\ rows' = [rows EXCEPT ![who[e]] = user[e]]
    BY <1>3 DEF UpdateUser, Write, AtStep
  <2>2. Past(e, "select")
    BY <2>1, PathOrder DEF IInv
  <2>3. OpOf(e) \in Setters
    <3>1. OpOf(e) \notin Registers \cup {"sendCode"}
      BY <2>1, RequestType DEF AtStep, Path, RegisterSteps, IInv, Registers, TypeOK
    <3>2. OpOf(e) \notin Logins
      BY <2>1, RequestType DEF AtStep, Path, LoginSteps, SpendSteps, IInv, Logins, TypeOK
    <3> QED BY <3>1, <3>2, RequestType DEF IInv, Op
  <2> QED BY <1>3, <2>1, <2>2, <2>3 DEF HoldsRow, IInv
<1> QED BY <1>1, <1>2, <1>3

\* A registration writes its row once.
LEMMA RowStaysFresh ==
    ASSUME OverlapInv, [Next]_vars, NEW c \in Call
    PROVE  RowIsFresh(c)'
<1>1. IInv /\ RowIsFresh(c) /\ c \in User
  BY DEF OverlapInv, User
<1>2. CASE rows'[c] = rows[c]
  BY <1>1, <1>2, CallsMoveOn DEF RowIsFresh
<1>3. CASE rows'[c] # rows[c]
  <2>1. PICK e \in Call :
           \/ /\ AtStep(e, "insert")
              /\ rows' = [rows EXCEPT ![e] = NewRow(e)]
              /\ Advance(e) \/ Answer(e, "error")
           \/ /\ who[e] \in Users
              /\ rows' = [rows EXCEPT ![who[e]] = user[e]]
    BY <1>1, <1>3, WhoWrote
  <2>2. CASE /\ AtStep(e, "insert")
             /\ rows' = [rows EXCEPT ![e] = NewRow(e)]
             /\ Advance(e) \/ Answer(e, "error")
    <3>1. e = c
      BY <1>1, <1>3, <2>2 DEF IInv, TypeOK
    <3>2. Advance(e) => Past(c, "insert")'
      BY <1>1, <2>2, <3>1, PastAfterStep DEF IInv
    <3>3. Answer(e, "error") => ~Running(c)'
      BY <1>1, <3>1 DEF Answer, Running, IInv, TypeOK
    <3> QED BY <2>2, <3>2, <3>3 DEF RowIsFresh
  <2>3. CASE /\ who[e] \in Users
             /\ rows' = [rows EXCEPT ![who[e]] = user[e]]
    <3>1. rows[c] # NoRow
      BY <1>1, <1>3, <2>3 DEF IInv, TypeOK, Users
    <3> QED BY <1>1, <3>1, CallsMoveOn DEF RowIsFresh
  <2> QED BY <2>1, <2>2, <2>3
<1> QED BY <1>2, <1>3

\* While an undisturbed call runs, the other setters have not begun or are
\* over.
LEMMA RunsAlone ==
    ASSUME IInv, HistoryOK, NEW c \in Call, Undisturbed(c), Running(c),
           NEW d \in OtherSetters(c), Running(d)
    PROVE  at[d] = 1 /\ \A s : ~Past(d, s)
<1>1. at[d] = 1
  BY DEF Undisturbed, HistoryOK, OtherSetters
<1>2. OpOf(d) \in Setters /\ d \in Call
  BY DEF OtherSetters
<1> QED BY <1>1, <1>2, SetterPath DEF IInv

\* A call that has begun was undisturbed if it still is.
LEMMA UndisturbedBefore ==
    ASSUME IInv, HistoryOK, [ObservedNext]_observedVars, NEW c \in Call,
           at[c] > 1, Undisturbed(c)'
    PROVE  Undisturbed(c)
<1>1. after'[c] = after[c] /\ [Next]_vars
  BY HistoryStep DEF IInv, TypeOK
<1>2. OtherSetters(c)' = OtherSetters(c)
  BY <1>1, ActorOnly DEF OtherSetters, OpOf
<1> SUFFICES ASSUME NEW d \in OtherSetters(c)
             PROVE  \/ at[d] = 1
                    \/ d \in after[c]
                    \/ c \in after[d] /\ OpOf(d) # OpOf(c)
  BY DEF Undisturbed
<1>3. \/ at'[d] = 1
      \/ d \in after'[c]
      \/ c \in after'[d] /\ OpOf(d)' # OpOf(c)'
  BY <1>2 DEF Undisturbed
<1>4. d \in Call /\ OpOf(d)' = OpOf(d) /\ OpOf(c)' = OpOf(c)
  BY <1>1, ActorOnly DEF OtherSetters, OpOf
<1>5. at'[d] = 1 => at[d] = 1
  BY <1>1, <1>4, CallsMoveOn
<1>6. c \in after'[d] => c \in after[d] \/ at[d] = 1
  BY <1>4, HistoryStep
<1> QED BY <1>1, <1>3, <1>4, <1>5, <1>6

\* The step that takes a setter past its update, or to its answer.
LEMMA UpdateSteps ==
    ASSUME IInv, [Next]_vars, NEW c \in Call, OpOf(c) \in Setters
    PROVE  /\ Past(c, "update")' =>
                 \/ Past(c, "update")
                 \/ /\ Running(c) /\ Past(c, "select")
                    /\ rows' = [rows EXCEPT ![who[c]] = user[c]]
           /\ result'[c] = "ok" =>
                 \/ result[c] = "ok" \/ Past(c, "update")
                 \/ /\ Running(c) /\ Past(c, "select")
                    /\ OpOf(c) = "setAvatar" /\ user[c].avatar # c
                    /\ rows' = rows
<1>1. CASE UNCHANGED <<at, task, result>>
  BY <1>1, PastUnchanged
<1>2. CASE \/ Refuse(c) \/ Crash(c) \/ ExpireCode(c)
           \/ \E step : AtStep(c, step) /\ Answer(c, "error")
  <2>1. UNCHANGED <<at, task>> /\ (result'[c] = "ok" => result[c] = "ok")
    BY <1>2 DEF IInv, TypeOK, Refuse, Crash, ExpireCode, Answer
  <2> QED BY <2>1, PastUnchanged
<1>3. CASE Succeed(c)
  BY <1>3, SetterPath, PastUnchanged DEF Succeed, Answer, IInv
<1>4. ASSUME NEW step, AtStep(c, step), Advance(c), step # "update"
      PROVE  /\ Past(c, "update")' => Past(c, "update")
             /\ result'[c] = "ok" => result[c] = "ok"
  BY <1>4, PastAfterStep DEF IInv, Advance
<1>5. CASE CheckFree(c) \/ CheckCode(c) \/ CheckOffline(c) \/ SelectUser(c)
  BY <1>2, <1>4, <1>5 DEF CheckFree, CheckCode, CheckOffline, SelectUser
<1>6. CASE FindUser(c) \/ InsertUser(c)
  BY <1>6, SetterPath DEF FindUser, InsertUser, IInv
<1>7. CASE UpdateUser(c)
  <2>1. AtStep(c, "update") /\ Running(c) /\ Past(c, "select")
    BY <1>7, PathOrder DEF UpdateUser, AtStep, IInv
  <2>2. CASE Answer(c, "error")
    BY <1>2, <2>1, <2>2
  <2>3. CASE Advance(c) /\ rows' = [rows EXCEPT ![who[c]] = user[c]]
    BY <2>1, <2>3 DEF Advance, AtStep, Running
  <2> QED BY <1>7, <2>2, <2>3 DEF UpdateUser, Write
<1>8. CASE AddData(c)
  BY <1>2, <1>4, <1>8 DEF AddData
<1>9. CASE PutAvatar(c)
  <2>1. /\ AtStep(c, "upload") /\ Running(c) /\ Past(c, "select")
        /\ OpOf(c) = "setAvatar"
    BY <1>9, PathOrder DEF PutAvatar, AtStep, IInv
  <2>2. CASE Answer(c, "ok") /\ user[c].avatar # c
    BY <1>9, <2>1, <2>2, PastUnchanged DEF PutAvatar, Answer
  <2> QED BY <1>2, <1>4, <1>9, <2>1, <2>2 DEF PutAvatar
<1>10. CASE SendCode(c) \/ DeleteCode(c) \/ AddSession(c) \/ AddLoginStatus(c)
  BY <1>4, <1>10 DEF SendCode, DeleteCode, AddSession, AddLoginStatus
<1>11. CASE at'[c] = at[c] /\ result'[c] = result[c]
  BY <1>11, ActorOnly DEF Past, OpOf
<1> QED BY <1>2, <1>3, <1>5, <1>6, <1>7, <1>8, <1>9, <1>10, <1>11, ActorOnly
    DEF Handle, vars

\* Only a setter of the user changes a row that is there, and writes what it
\* read and changed.
LEMMA RowChangedBySetter ==
    ASSUME OverlapInv, [Next]_vars, NEW u \in User,
           rows[u] # NoRow, rows'[u] # rows[u]
    PROVE  \E e \in Call :
              /\ Running(e) /\ OpOf(e) \in Setters
              /\ AtStep(e, "update") /\ UpdateUser(e) /\ Past(e, "select")
              /\ task[e].user = u /\ user[e] \in Row
              /\ rows'[u] = user[e]
<1>1. IInv
  BY DEF OverlapInv
<1>2. PICK e \in Call :
         /\ Running(e)
         /\ \/ AtStep(e, "insert") /\ rows' = [rows EXCEPT ![e] = NewRow(e)]
            \/ /\ UpdateUser(e) /\ AtStep(e, "update")
               /\ OpOf(e) \in Setters
               /\ Past(e, "select") /\ who[e] \in Users /\ user[e] \in Row
               /\ rows' = [rows EXCEPT ![who[e]] = user[e]]
  BY <1>1, WhoWrote
<1>3. ASSUME AtStep(e, "insert"), rows' = [rows EXCEPT ![e] = NewRow(e)]
      PROVE  FALSE
  <2>1. e = u
    BY <1>1, <1>3 DEF IInv, TypeOK
  <2>2. ~Past(e, "insert")
    BY <1>1, <1>3, PathOrder DEF IInv
  <2> QED BY <1>2, <2>1, <2>2 DEF OverlapInv, RowIsFresh
<1>4. who[e] = u /\ rows'[u] = user[e]
  BY <1>1, <1>2, <1>3 DEF IInv, TypeOK, Users
<1>5. task[e].user = u
  BY <1>2, <1>3, <1>4 DEF OverlapInv, SetterKnows
<1> QED BY <1>2, <1>3, <1>4, <1>5

\* A setter begins to work on the row as it is.
LEMMA SelectReads ==
    ASSUME IInv, NEW d \in Call, OpOf(d) \in Setters,
           SelectUser(d), Advance(d)
    PROVE  /\ rows' = rows /\ rows[task[d].user] \in Row
           /\ who'[d] = task[d].user
           /\ user'[d] = Changed(d, rows[task[d].user])
           /\ Running(d) /\ at'[d] = at[d] + 1
<1>1. ~Answer(d, "error")
  BY AdvanceOrAnswer DEF IInv
<1>2. /\ rows[task[d].user] # NoRow /\ rows' = rows
      /\ who' = [who EXCEPT ![d] = task[d].user]
      /\ user' = [user EXCEPT ![d] = Changed(d, rows[task[d].user])]
  BY <1>1 DEF SelectUser, stores
<1>3. task[d].user \in User
  BY RequestType DEF IInv
<1> QED BY <1>2, <1>3 DEF SelectUser, AtStep, Advance, IInv, TypeOK

\* What an undisturbed setter under way knows stays true.
LEMMA RunningSetterKept ==
    ASSUME OverlapInv, [ObservedNext]_observedVars, NEW c \in Call,
           OpOf(c) \in Setters, Undisturbed(c)', Running(c)',
           Past(c, "select")'
    PROVE  /\ Shows(c, user[c])'
           /\ OpOf(c)' = "setAvatar" /\ user'[c].avatar # c
                 => Shows(c, rows[task[c].user])'
<1> DEFINE u == task[c].user
<1>1. /\ IInv /\ HistoryOK /\ SetterKnows(c) /\ [Next]_vars
      /\ task' = task /\ HoldsRow(c) /\ u \in User
  BY HistoryStep, ActorOnly, RequestType DEF OverlapInv, IInv
<1>2. CASE user'[c] = user[c] /\ Past(c, "select")
  <2>1. at[c] > 1 /\ Undisturbed(c) /\ Running(c)
    BY <1>1, <1>2, SetterPath, UndisturbedBefore, CallsMoveOn DEF IInv
  <2>2. /\ Shows(c, user[c])
        /\ OpOf(c) = "setAvatar" /\ user[c].avatar # c => Shows(c, rows[u])
    BY <1>1, <1>2, <2>1 DEF SetterKnows
  <2>3. CASE rows'[u] = rows[u]
    BY <1>1, <1>2, <2>2, <2>3 DEF Shows, OpOf
  <2>4. CASE rows'[u] # rows[u]
    <3>1. rows[u] # NoRow
      BY <1>1, <1>2 DEF HoldsRow, Users, SetterKnows
    <3>2. PICK e \in Call :
             /\ Running(e) /\ OpOf(e) \in Setters
             /\ Past(e, "select") /\ task[e].user = u
             /\ rows'[u] = user[e]
      BY <1>1, <2>4, <3>1, RowChangedBySetter
    <3>3. e = c
      <4>1. e # c => e \in OtherSetters(c)
        BY <3>2 DEF OtherSetters
      <4> QED BY <1>1, <2>1, <3>2, <4>1, RunsAlone
    <3> QED BY <1>1, <1>2, <2>2, <3>2, <3>3 DEF Shows, OpOf
  <2> QED BY <2>3, <2>4
<1>3. CASE SelectUser(c) /\ Advance(c)
  <2>1. /\ rows' = rows /\ rows[u] \in Row
        /\ user'[c] = Changed(c, rows[u])
    BY <1>1, <1>3, SelectReads
  <2>2. /\ Shows(c, Changed(c, rows[u]))
        /\ OpOf(c) = "setAvatar" /\ Changed(c, rows[u]).avatar # c
              => Shows(c, rows[u])
    BY <1>1, <2>1, ChangedShows DEF IInv
  <2> QED BY <1>1, <2>1, <2>2 DEF Shows, OpOf
<1> QED BY <1>1, <1>2, <1>3, SelectedKept

\* A change that is done still shows, after any step of any call.
LEMMA DoneStaysDone ==
    ASSUME OverlapInv, [ObservedNext]_observedVars, NEW c \in Call,
           OpOf(c) \in Setters, Undisturbed(c)', Done(c)
    PROVE  ShowsEverywhere(c)'
<1> DEFINE u == task[c].user
<1>1. /\ IInv /\ HistoryOK /\ SetterKnows(c) /\ [Next]_vars
      /\ task' = task /\ HoldsRow(c) /\ u \in User
  BY HistoryStep, ActorOnly, RequestType DEF OverlapInv, IInv
<1>2. Past(c, "select") /\ at[c] > 1
  BY <1>1, SetterPath DEF Done, SetterKnows, IInv
<1>3. Undisturbed(c)
  BY <1>1, <1>2, UndisturbedBefore
<1>4. ShowsEverywhere(c) /\ rows[u] \in Row
  BY <1>1, <1>2, <1>3 DEF SetterKnows, HoldsRow, Users, IInv, TypeOK
<1>5. Shows(c, rows[u])'
  <2>1. CASE rows'[u] = rows[u]
    BY <1>1, <1>4, <2>1 DEF ShowsEverywhere, Shows, OpOf
  <2>2. CASE rows'[u] # rows[u]
    <3>1. PICK e \in Call :
             /\ Running(e) /\ OpOf(e) \in Setters
             /\ AtStep(e, "update") /\ Past(e, "select") /\ task[e].user = u
             /\ rows'[u] = user[e]
      BY <1>1, <1>4, <2>2, RowChangedBySetter, NullsAssumption
    <3>2. e # c
      BY <1>1, <3>1, SetterPath DEF Done, Running, IInv
    <3>3. Shows(c, user[e])
      BY <1>4, <3>1, <3>2 DEF ShowsEverywhere, OtherSetters
    <3> QED BY <1>1, <3>1, <3>3 DEF Shows, OpOf
  <2> QED BY <2>1, <2>2
<1>6. ASSUME NEW d \in OtherSetters(c)', Running(d)', Past(d, "select")'
      PROVE  Shows(c, user[d])'
  <2>1. /\ d \in OtherSetters(c) /\ d \in Call /\ OpOf(d) \in Setters
        /\ task[d].user = u /\ Running(d)
    BY <1>1, <1>6, CallsMoveOn DEF OtherSetters, OpOf
  <2>2. CASE user'[d] = user[d] /\ Past(d, "select")
    BY <1>1, <1>4, <2>1, <2>2 DEF ShowsEverywhere, Shows, OpOf
  <2>3. CASE SelectUser(d) /\ Advance(d)
    <3>1. user'[d] = Changed(d, rows[u]) /\ at'[d] # 1
      BY <1>1, <2>1, <2>3, SelectReads, CallsMoveOn
    <3>2. d \notin after'[c]
      BY <1>1, <1>2, <2>1, HistoryStep DEF HistoryOK
    <3>3. OpOf(d) # OpOf(c)
      BY <1>1, <1>6, <3>1, <3>2 DEF Undisturbed, OpOf
    <3>4. Shows(c, Changed(d, rows[u]))
      BY <1>1, <1>4, <2>1, <3>3, OtherChangeKeeps DEF ShowsEverywhere, IInv
    <3> QED BY <1>1, <3>1, <3>4 DEF Shows, OpOf
  <2> QED BY <1>1, <1>6, <2>1, <2>2, <2>3, SelectedKept
<1> QED BY <1>5, <1>6 DEF ShowsEverywhere

\* The step that completes a change leaves it in the row, and nobody else
\* has a copy of the row.
LEMMA BecomesDone ==
    ASSUME OverlapInv, [ObservedNext]_observedVars, NEW c \in Call,
           OpOf(c) \in Setters, Undisturbed(c)', ~Done(c), Done(c)'
    PROVE  ShowsEverywhere(c)'
<1> DEFINE u == task[c].user
<1>1. /\ IInv /\ HistoryOK /\ SetterKnows(c) /\ [Next]_vars
      /\ task' = task /\ HoldsRow(c) /\ u \in User
  BY HistoryStep, ActorOnly, RequestType DEF OverlapInv, IInv
<1>2. /\ Running(c) /\ Past(c, "select")
      /\ \/ rows' = [rows EXCEPT ![who[c]] = user[c]]
         \/ /\ OpOf(c) = "setAvatar" /\ user[c].avatar # c
            /\ rows' = rows
  BY <1>1, UpdateSteps DEF Done
<1>3. at[c] > 1 /\ Undisturbed(c) /\ who[c] = u
  BY <1>1, <1>2, SetterPath, UndisturbedBefore DEF IInv, SetterKnows
<1>4. Shows(c, rows[u])'
  <2>1. /\ Shows(c, user[c])
        /\ OpOf(c) = "setAvatar" /\ user[c].avatar # c => Shows(c, rows[u])
    BY <1>1, <1>2, <1>3 DEF SetterKnows
  <2>2. rows'[u] = user[c] \/ rows' = rows
    BY <1>1, <1>2, <1>3 DEF IInv, TypeOK
  <2> QED BY <1>1, <1>2, <2>1, <2>2, <1>3 DEF Shows, OpOf, IInv, TypeOK
<1>5. ASSUME NEW d \in OtherSetters(c)', Running(d)', Past(d, "select")'
      PROVE  FALSE
  <2>1. /\ d \in OtherSetters(c) /\ d \in Call /\ OpOf(d) \in Setters
        /\ Running(d) /\ d # c
    BY <1>1, <1>5, CallsMoveOn DEF OtherSetters, OpOf
  <2>2. ~Past(d, "select")
    BY <1>1, <1>2, <1>3, <2>1, RunsAlone
  <2>3. at'[d] # at[d]
    BY <1>1, <1>5, <2>2 DEF Past, OpOf
  <2>4. at'[c] = at[c] /\ result'[c] = result[c]
    BY <1>1, <2>1, <2>3, ActorOnly DEF vars
  <2> QED BY <1>1, <2>4 DEF Done, Past, OpOf
<1> QED BY <1>4, <1>5 DEF ShowsEverywhere

\* What a setter knows stays true.
LEMMA SetterKnowsKept ==
    ASSUME OverlapInv, [ObservedNext]_observedVars, NEW c \in Call,
           OpOf(c) \in Setters
    PROVE  SetterKnows(c)'
<1>1. /\ IInv /\ SetterKnows(c) /\ [Next]_vars /\ task' = task
  BY HistoryStep, ActorOnly DEF OverlapInv
<1>2. Past(c, "select")' => who'[c] = task'[c].user
  BY <1>1, SelectedKept, SelectReads DEF SetterKnows
<1>3. result'[c] = "ok" => Past(c, "select")'
  <2>1. result'[c] = "ok" => Past(c, "select")
    BY <1>1, UpdateSteps, SetterPath DEF SetterKnows, IInv
  <2> QED BY <1>1, <2>1, CallsMoveOn
<1>4. Undisturbed(c)' /\ Running(c)' /\ Past(c, "select")' =>
         /\ Shows(c, user[c])'
         /\ OpOf(c)' = "setAvatar" /\ user'[c].avatar # c
               => Shows(c, rows[task[c].user])'
  BY RunningSetterKept
<1>5. Undisturbed(c)' /\ Done(c)' => ShowsEverywhere(c)'
  BY DoneStaysDone, BecomesDone
<1> QED BY <1>2, <1>3, <1>4, <1>5 DEF SetterKnows

-----------------------------------------------------------------------------
(* The theorems.                                                            *)

\* Nothing has happened at first.
LEMMA InitOverlapInv == ObservedInit => OverlapInv
<1> SUFFICES ASSUME ObservedInit PROVE OverlapInv
  OBVIOUS
<1>1. IInv /\ Init
  BY InitIInv DEF ObservedInit
<1>2. HistoryOK
  BY DEF ObservedInit, HistoryOK
<1>3. ASSUME NEW c \in Call
      PROVE  (\A s : ~Past(c, s)) /\ result[c] = "running" /\ rows[c] = NoRow
  <2>1. \A s : ~Past(c, s)
    BY <1>1, RequestType, PathLength DEF IInv, Past, Init
  <2> QED BY <1>1, <2>1, FreshAssumption DEF Init, User
<1>4. \A c \in Call : OpOf(c) \in Logins => LoginKnows(c)
  BY <1>3 DEF LoginKnows
<1>5. \A c \in Call : OpOf(c) \in Setters => SetterKnows(c)
  BY <1>3 DEF SetterKnows, Done
<1> QED BY <1>1, <1>2, <1>3, <1>4, <1>5 DEF OverlapInv, RowIsFresh

\* Every step keeps what the calls know of each other.
LEMMA NextOverlapInv ==
    OverlapInv /\ [ObservedNext]_observedVars => OverlapInv'
<1> SUFFICES ASSUME OverlapInv, [ObservedNext]_observedVars
             PROVE  OverlapInv'
  OBVIOUS
<1>1. IInv /\ HistoryOK
  BY DEF OverlapInv
<1>2. [Next]_vars /\ HistoryOK'
  BY <1>1, HistoryStep
<1>3. IInv' /\ task' = task
  BY <1>1, <1>2, NextIInv, ActorOnly
<1>4. \A c \in Call : RowIsFresh(c)'
  BY <1>2, RowStaysFresh
<1>5. \A c \in Call : OpOf(c)' \in Logins => LoginKnows(c)'
  BY <1>3, LoginKnowsKept DEF OpOf
<1>6. \A c \in Call : OpOf(c)' \in Setters => SetterKnows(c)'
  BY <1>3, SetterKnowsKept DEF OpOf
<1> QED BY <1>2, <1>3, <1>4, <1>5, <1>6 DEF OverlapInv

\* In every state, under every failure, the calls know what makes calls that
\* do not overlap work.
THEOREM OverlapInvariant == ObservedSpec => []OverlapInv
BY InitOverlapInv, NextOverlapInv, PTL DEF ObservedSpec

\* The history changes nothing: what is watched is the user service.
THEOREM ObservedIsSpec == ObservedSpec => Spec
<1>1. ObservedInit => Init
  BY DEF ObservedInit
<1>2. [ObservedNext]_observedVars => [Next]_vars
  BY DEF ObservedNext, observedVars, vars
<1> QED BY <1>1, <1>2, PTL DEF ObservedSpec, Spec

\* A login that begins after the answer to another of the same user does not
\* succeed as well.
THEOREM LaterLoginsAreRefused == ObservedSpec => []LaterLoginRefused
<1>1. OverlapInv => LaterLoginRefused
  <2> SUFFICES ASSUME OverlapInv, NEW c \in Call, NEW d \in Call,
                      {OpOf(c), OpOf(d)} \subseteq Logins, c \in after[d],
                      result[c] = "ok", result[d] = "ok"
               PROVE  who[c] # who[d]
    BY DEF LaterLoginRefused
  <2>1. LoginKnows(d) /\ IInv
    BY DEF OverlapInv
  <2>2. Past(d, "offline")
    BY <2>1, LoginPath DEF LoginKnows, IInv
  <2> QED BY <2>1, <2>2 DEF LoginKnows
<1> QED BY <1>1, OverlapInvariant, PTL

\* A confirmed change stays where no setter of the user ran meanwhile.
THEOREM UndisturbedChangesStay == ObservedSpec => []UndisturbedChangeStays
<1>1. OverlapInv => UndisturbedChangeStays
  BY DEF OverlapInv, UndisturbedChangeStays, SetterKnows, Done,
         ShowsEverywhere
<1> QED BY <1>1, OverlapInvariant, PTL
=============================================================================
