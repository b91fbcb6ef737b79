---------------------------- MODULE UserServiceProof ----------------------------
(***************************************************************************)
(* The user service keeps its stores consistent, for any calls, any users  *)
(* and any number of failures.                                             *)
(***************************************************************************)
EXTENDS UserService, TLAPS

-----------------------------------------------------------------------------
(* Requests, and the steps of the handlers.                                 *)

\* What a request carries.
LEMMA RequestType ==
    ASSUME TypeOK, NEW c \in Call
    PROVE  /\ OpOf(c) \in Op
           /\ task[c].user \in User
           /\ task[c].value \in Value
           /\ task[c].code \in Call
           /\ task[c].password \in Value \cup {Null}
<1>1. task[c] \in Request
  BY RequestsAssumption DEF TypeOK
<1> QED BY <1>1 DEF Request, OpOf

\* No handler takes more than six steps.
LEMMA PathLength ==
    ASSUME NEW op \in Op
    PROVE  Len(Path(op)) \in 1..6
BY DEF Op, Registers, Logins, Setters, Path, RegisterSteps, LoginSteps,
       SpendSteps, SetterSteps, AvatarSteps

\* A handler that has taken a step has it behind it for good, and any other
\* handler has taken what it had taken.
LEMMA PastAfterStep ==
    ASSUME TypeOK, NEW c \in Call, NEW step, AtStep(c, step), Advance(c)
    PROVE  \A d \in Call : \A s :
              Past(d, s)' <=> Past(d, s) \/ (d = c /\ s = step)
<1> TAKE d \in Call
<1> TAKE s
<1>1. OpOf(d)' = OpOf(d) /\ at[c] \in Nat /\ at' = [at EXCEPT ![c] = @ + 1]
  BY DEF Advance, OpOf, TypeOK
<1>2. /\ at[c] \in 1..Len(Path(OpOf(c))) 
      /\ Path(OpOf(c))[at[c]] = step
  BY RequestType, PathLength, <1>1 DEF AtStep, TypeOK
<1>3. CASE d # c
  BY <1>1, <1>3 DEF Past, TypeOK
<1>4. CASE d = c
  <2>1. at'[c] = at[c] + 1
    BY <1>1 DEF TypeOK
  <2>2. ASSUME Past(c, s)'
        PROVE  Past(c, s) \/ s = step
    <3>1. PICK i \in 1..Len(Path(OpOf(c))) :
             i < at'[c] /\ Path(OpOf(c))[i] = s
      BY <2>2, <1>1, <1>4 DEF Past
    <3> QED BY <3>1, <2>1, <1>1, <1>2, RequestType, PathLength DEF Past
  <2>3. ASSUME Past(c, s) \/ s = step
        PROVE  Past(c, s)'
    <3>1. CASE Past(c, s)
      <4>1. PICK i \in 1..Len(Path(OpOf(c))) :
               i < at[c] /\ Path(OpOf(c))[i] = s
        BY <3>1 DEF Past
      <4> QED BY <4>1, <2>1, <1>1, <1>4, RequestType, PathLength DEF Past
    <3>2. CASE s = step
      BY <3>2, <2>1, <1>1, <1>2, <1>4, RequestType, PathLength DEF Past
    <3> QED BY <2>3, <3>1, <3>2
  <2> QED BY <2>2, <2>3, <1>4
<1> QED BY <1>3, <1>4

\* A handler that stays where it is has taken what it had taken.
LEMMA PastUnchanged ==
    ASSUME UNCHANGED <<at, task>>
    PROVE  \A d \in Call : \A s : Past(d, s)' <=> Past(d, s)
BY DEF Past, OpOf

\* What is behind a handler that is about to take a step.
LEMMA PathOrder ==
    ASSUME TypeOK, NEW c \in Call
    PROVE  /\ AtStep(c, "select") =>
                 /\ OpOf(c) \in Setters
                 /\ ~Past(c, "select") /\ ~Past(c, "upload")
                 /\ ~Past(c, "session")
           /\ AtStep(c, "upload") => OpOf(c) = "setAvatar" /\ Past(c, "select")
           /\ AtStep(c, "update") =>
                 /\ Past(c, "select")
                 /\ OpOf(c) = "setAvatar" => Past(c, "upload")
           /\ AtStep(c, "index") =>
                 /\ Past(c, "select") \/ Past(c, "insert")
                 /\ OpOf(c) = "setAvatar" => Past(c, "upload")
           /\ AtStep(c, "insert") =>
                 /\ OpOf(c) \in Registers
                 /\ ~Past(c, "select") /\ ~Past(c, "insert")
                 /\ ~Past(c, "session") /\ ~Past(c, "find")
           /\ AtStep(c, "find") =>
                 /\ ~Past(c, "select") /\ ~Past(c, "insert")
                 /\ ~Past(c, "session")
           /\ AtStep(c, "insert") \/ (AtStep(c, "update")
                                        /\ OpOf(c) # "setPassword") =>
                 /\ at[c] + 1 <= Len(Path(OpOf(c)))
                 /\ Path(OpOf(c))[at[c] + 1] = "index"
           /\ AtStep(c, "offline") => Past(c, "find")
           /\ AtStep(c, "session") => Past(c, "find") /\ ~Past(c, "session")
           /\ AtStep(c, "status") => Past(c, "find") /\ Past(c, "session")
           /\ AtStep(c, "send") => ~Past(c, "send")
           /\ AtStep(c, "delete") => Past(c, "code")
           /\ Past(c, "delete") => Past(c, "code")
           /\ OpOf(c) \in Spends /\ at[c] > Len(Path(OpOf(c)))
                 => Past(c, "delete")
<1> DEFINE p == Path(OpOf(c))
<1>1. at[c] \in Nat \ {0} /\ OpOf(c) \in Op
  BY RequestType DEF TypeOK
<1>2. CASE OpOf(c) = "nicknameRegister"
  <2>1. /\ Len(p) = 3
        /\ p[1] = "free" /\ p[2] = "insert" /\ p[3] = "index"
    BY <1>2 DEF Path, RegisterSteps
  <2>2. \A s : AtStep(c, s) =>
           \/ at[c] = 1 /\ s = "free"
           \/ at[c] = 2 /\ s = "insert"
           \/ at[c] = 3 /\ s = "index"
    BY <1>1, <2>1 DEF AtStep
  <2>3. \A s : Past(c, s) <=>
           \/ at[c] > 1 /\ s = "free"
           \/ at[c] > 2 /\ s = "insert"
           \/ at[c] > 3 /\ s = "index"
    BY <1>1, <2>1 DEF Past
  <2>4. at[c] = 2 => at[c] + 1 <= Len(p) /\ p[at[c] + 1] = "index"
    BY <2>1
  <2> QED BY <1>1, <1>2, <2>1, <2>2, <2>3, <2>4 DEF Spends, Registers, Setters
<1>3. CASE OpOf(c) = "phoneRegister"
  <2>1. /\ Len(p) = 4
        /\ p[1] = "code" /\ p[2] = "free" /\ p[3] = "insert"
        /\ p[4] = "index"
    BY <1>3 DEF Path, RegisterSteps
  <2>2. \A s : AtStep(c, s) =>
           \/ at[c] = 1 /\ s = "code"
           \/ at[c] = 2 /\ s = "free"
           \/ at[c] = 3 /\ s = "insert"
           \/ at[c] = 4 /\ s = "index"
    BY <1>1, <2>1 DEF AtStep
  <2>3. \A s : Past(c, s) <=>
           \/ at[c] > 1 /\ s = "code"
           \/ at[c] > 2 /\ s = "free"
           \/ at[c] > 3 /\ s = "insert"
           \/ at[c] > 4 /\ s = "index"
    BY <1>1, <2>1 DEF Past
  <2>4. at[c] = 3 => at[c] + 1 <= Len(p) /\ p[at[c] + 1] = "index"
    BY <2>1
  <2> QED BY <1>1, <1>3, <2>1, <2>2, <2>3, <2>4 DEF Spends, Registers, Setters
<1>4. CASE OpOf(c) = "sendCode"
  <2>1. /\ Len(p) = 1
        /\ p[1] = "send"
    BY <1>4 DEF Path
  <2>2. \A s : AtStep(c, s) =>
           \/ at[c] = 1 /\ s = "send"
    BY <1>1, <2>1 DEF AtStep
  <2>3. \A s : Past(c, s) <=>
           \/ at[c] > 1 /\ s = "send"
    BY <1>1, <2>1 DEF Past
  <2> QED BY <1>1, <1>4, <2>1, <2>2, <2>3 DEF Spends, Registers, Setters
<1>5. CASE OpOf(c) = "nicknameLogin"
  <2>1. /\ Len(p) = 4
        /\ p[1] = "find" /\ p[2] = "offline" /\ p[3] = "session"
        /\ p[4] = "status"
    BY <1>5 DEF Path, LoginSteps
  <2>2. \A s : AtStep(c, s) =>
           \/ at[c] = 1 /\ s = "find"
           \/ at[c] = 2 /\ s = "offline"
           \/ at[c] = 3 /\ s = "session"
           \/ at[c] = 4 /\ s = "status"
    BY <1>1, <2>1 DEF AtStep
  <2>3. \A s : Past(c, s) <=>
           \/ at[c] > 1 /\ s = "find"
           \/ at[c] > 2 /\ s = "offline"
           \/ at[c] > 3 /\ s = "session"
           \/ at[c] > 4 /\ s = "status"
    BY <1>1, <2>1 DEF Past
  <2> QED BY <1>1, <1>5, <2>1, <2>2, <2>3 DEF Spends, Registers, Setters
<1>6. CASE OpOf(c) = "phoneLogin"
  <2>1. /\ Len(p) = 6
        /\ p[1] = "find" /\ p[2] = "code" /\ p[3] = "delete"
        /\ p[4] = "offline" /\ p[5] = "session" /\ p[6] = "status"
    BY <1>6 DEF Path, LoginSteps, SpendSteps
  <2>2. \A s : AtStep(c, s) =>
           \/ at[c] = 1 /\ s = "find"
           \/ at[c] = 2 /\ s = "code"
           \/ at[c] = 3 /\ s = "delete"
           \/ at[c] = 4 /\ s = "offline"
           \/ at[c] = 5 /\ s = "session"
           \/ at[c] = 6 /\ s = "status"
    BY <1>1, <2>1 DEF AtStep
  <2>3. \A s : Past(c, s) <=>
           \/ at[c] > 1 /\ s = "find"
           \/ at[c] > 2 /\ s = "code"
           \/ at[c] > 3 /\ s = "delete"
           \/ at[c] > 4 /\ s = "offline"
           \/ at[c] > 5 /\ s = "session"
           \/ at[c] > 6 /\ s = "status"
    BY <1>1, <2>1 DEF Past
  <2> QED BY <1>1, <1>6, <2>1, <2>2, <2>3 DEF Spends, Registers, Setters
<1>7. CASE OpOf(c) = "setPassword"
  <2>1. /\ Len(p) = 2
        /\ p[1] = "select" /\ p[2] = "update"
    BY <1>7 DEF Path
  <2>2. \A s : AtStep(c, s) =>
           \/ at[c] = 1 /\ s = "select"
           \/ at[c] = 2 /\ s = "update"
    BY <1>1, <2>1 DEF AtStep
  <2>3. \A s : Past(c, s) <=>
           \/ at[c] > 1 /\ s = "select"
           \/ at[c] > 2 /\ s = "update"
    BY <1>1, <2>1 DEF Past
  <2> QED BY <1>1, <1>7, <2>1, <2>2, <2>3 DEF Spends, Registers, Setters
<1>8. CASE OpOf(c) = "setPhone"
  <2>1. /\ Len(p) = 5
        /\ p[1] = "code" /\ p[2] = "delete" /\ p[3] = "select"
        /\ p[4] = "update" /\ p[5] = "index"
    BY <1>8 DEF Path, SpendSteps, SetterSteps
  <2>2. \A s : AtStep(c, s) =>
           \/ at[c] = 1 /\ s = "code"
           \/ at[c] = 2 /\ s = "delete"
           \/ at[c] = 3 /\ s = "select"
           \/ at[c] = 4 /\ s = "update"
           \/ at[c] = 5 /\ s = "index"
    BY <1>1, <2>1 DEF AtStep
  <2>3. \A s : Past(c, s) <=>
           \/ at[c] > 1 /\ s = "code"
           \/ at[c] > 2 /\ s = "delete"
           \/ at[c] > 3 /\ s = "select"
           \/ at[c] > 4 /\ s = "update"
           \/ at[c] > 5 /\ s = "index"
    BY <1>1, <2>1 DEF Past
  <2>4. at[c] = 4 => at[c] + 1 <= Len(p) /\ p[at[c] + 1] = "index"
    BY <2>1
  <2> QED BY <1>1, <1>8, <2>1, <2>2, <2>3, <2>4 DEF Spends, Registers, Setters
<1>9. CASE OpOf(c) = "setAvatar"
  <2>1. /\ Len(p) = 4
        /\ p[1] = "select" /\ p[2] = "upload" /\ p[3] = "update"
        /\ p[4] = "index"
    BY <1>9 DEF Path, AvatarSteps
  <2>2. \A s : AtStep(c, s) =>
           \/ at[c] = 1 /\ s = "select"
           \/ at[c] = 2 /\ s = "upload"
           \/ at[c] = 3 /\ s = "update"
           \/ at[c] = 4 /\ s = "index"
    BY <1>1, <2>1 DEF AtStep
  <2>3. \A s : Past(c, s) <=>
           \/ at[c] > 1 /\ s = "select"
           \/ at[c] > 2 /\ s = "upload"
           \/ at[c] > 3 /\ s = "update"
           \/ at[c] > 4 /\ s = "index"
    BY <1>1, <2>1 DEF Past
  <2>4. at[c] = 3 => at[c] + 1 <= Len(p) /\ p[at[c] + 1] = "index"
    BY <2>1
  <2> QED BY <1>1, <1>9, <2>1, <2>2, <2>3, <2>4 DEF Spends, Registers, Setters
<1>10. CASE OpOf(c) \in {"setNickname", "setDescription"}
  <2>1. /\ Len(p) = 3
        /\ p[1] = "select" /\ p[2] = "update" /\ p[3] = "index"
    BY <1>10 DEF Path, SetterSteps
  <2>2. \A s : AtStep(c, s) =>
           \/ at[c] = 1 /\ s = "select"
           \/ at[c] = 2 /\ s = "update"
           \/ at[c] = 3 /\ s = "index"
    BY <1>1, <2>1 DEF AtStep
  <2>3. \A s : Past(c, s) <=>
           \/ at[c] > 1 /\ s = "select"
           \/ at[c] > 2 /\ s = "update"
           \/ at[c] > 3 /\ s = "index"
    BY <1>1, <2>1 DEF Past
  <2>4. at[c] = 2 => at[c] + 1 <= Len(p) /\ p[at[c] + 1] = "index"
    BY <2>1
  <2> QED BY <1>1, <1>10, <2>1, <2>2, <2>3, <2>4 DEF Spends, Registers, Setters
<1> QED BY <1>1, <1>2, <1>3, <1>4, <1>5, <1>6, <1>7, <1>8, <1>9, <1>10
    DEF Op, Registers, Logins, Setters

-----------------------------------------------------------------------------
(* The invariant, one lemma per kind of step.                               *)

\* A step of a handler moves on within its path.
LEMMA AtNext ==
    ASSUME TypeOK, NEW c \in Call, NEW step, AtStep(c, step), Advance(c)
    PROVE  at' \in [Call -> 1..7] /\ UNCHANGED <<result, task>>
BY RequestType, PathLength DEF TypeOK, AtStep, Advance

\* A failure is counted.
LEMMA FaultCounted ==
    ASSUME TypeOK, NEW kind, Fault(kind)
    PROVE  faults' \in 0..MaxFaults
BY FaultAssumption DEF TypeOK, Fault

\* A call that changes no store and keeps its local object.
LEMMA QuietStep ==
    ASSUME IInv, NEW c \in Call, NEW step,
           UNCHANGED <<stores, who, user>>, faults' \in 0..MaxFaults,
           \/ /\ AtStep(c, step) /\ Advance(c)
              /\ step \in {"free", "code", "offline"}
              /\ step = "code" => task[c].code \in codes
           \/ Answer(c, "error") \/ Answer(c, "lost")
           \/ Answer(c, "ok") /\ at[c] > Len(Path(OpOf(c)))
    PROVE  IInv'
<1> DEFINE passed == /\ step \in {"free", "code", "offline"}
                     /\ step = "code" => task[c].code \in codes
<1>1. \A d \in Call : \A s :
         /\ Past(d, s) => Past(d, s)'
         /\ Past(d, s)' => Past(d, s) \/ (d = c /\ s = step /\ passed)
  <2>1. CASE AtStep(c, step) /\ Advance(c) /\ passed
    BY <2>1, PastAfterStep DEF IInv
  <2>2. CASE UNCHANGED <<at, task>>
    BY <2>2, PastUnchanged
  <2> QED BY <2>1, <2>2 DEF Answer
<1>2. TypeOK' /\ UNCHANGED task
  BY AtNext DEF IInv, TypeOK, Answer, Advance, Result, stores
<1>3. AvatarHasFile' /\ IndexedIsReal' /\ OnlineHasSession'
  BY DEF IInv, AvatarHasFile, IndexedIsReal, OnlineHasSession, Users, stores
<1>4. ASSUME NEW d \in Call
      PROVE  HoldsRow(d)' /\ HoldsUser(d)'
  <2>1. HoldsRow(d) /\ HoldsUser(d)
    BY DEF IInv
  <2>2. \A s \in {"select", "insert", "upload", "find", "session"} :
           Past(d, s)' <=> Past(d, s)
    BY <1>1
  <2> QED BY <1>2, <2>1, <2>2
       DEF HoldsRow, HoldsUser, Users, OpOf, stores
<1>5. ASSUME NEW d \in Call
      PROVE  HoldsCode(d)'
  <2>1. HoldsCode(d) /\ \A e \in Call : HoldsCode(e)
    BY DEF IInv
  <2>2. task[d].code \in Call /\ task' = task
    BY <1>2, RequestType DEF IInv
  <2>3. \A e \in Call : /\ Past(e, "send")' <=> Past(e, "send")
                        /\ Past(e, "delete")' <=> Past(e, "delete")
    BY <1>1
  <2>4. Past(d, "code")' => Past(d, "code") \/ task[d].code \in codes
    BY <1>1
  <2>5. result'[d] = "ok" /\ OpOf(d) \in Spends => Past(d, "delete")
    <3>1. CASE result'[d] = result[d]
      BY <3>1, <2>1 DEF HoldsCode
    <3>2. CASE d = c /\ at[c] > Len(Path(OpOf(c)))
      BY <3>2, PathOrder DEF IInv
    <3> QED BY <3>1, <3>2 DEF IInv, TypeOK, Answer, Advance
  <2> QED BY <2>1, <2>2, <2>3, <2>4, <2>5 DEF HoldsCode, OpOf, stores
<1> QED BY <1>2, <1>3, <1>4, <1>5 DEF IInv

\* A login finds its user.
LEMMA FindUserKeeps ==
    ASSUME IInv, NEW c \in Call, FindUser(c)
    PROVE  IInv'
<1>1. CASE UNCHANGED <<stores, who, user>> /\ Answer(c, "error")
  <2>1. faults' \in 0..MaxFaults
    BY FaultCounted DEF FindUser, IInv, TypeOK
  <2> QED BY <1>1, <2>1, QuietStep
<1>2. CASE \E u \in Holders(c) : /\ who' = [who EXCEPT ![c] = u]
                                /\ Advance(c)
                                /\ UNCHANGED <<stores, user, faults>>
  <2>1. PICK u \in Users : who' = [who EXCEPT ![c] = u]
    BY <1>2 DEF Holders
  <2>2. u \in User /\ AtStep(c, "find") /\ Advance(c)
    BY <1>2 DEF Users, FindUser
  <2>3. \A d \in Call : \A s :
           Past(d, s)' <=> Past(d, s) \/ (d = c /\ s = "find")
    BY <2>2, PastAfterStep DEF IInv
  <2>4. ~Past(c, "select") /\ ~Past(c, "insert") /\ ~Past(c, "session")
    BY <2>2, PathOrder DEF IInv
  <2>5. TypeOK' /\ UNCHANGED <<task, result>>
    BY <1>2, <2>1, <2>2, AtNext DEF IInv, TypeOK, stores
  <2>6. AvatarHasFile' /\ IndexedIsReal' /\ OnlineHasSession'
    BY <1>2 DEF IInv, AvatarHasFile, IndexedIsReal, OnlineHasSession, Users,
                stores
  <2>7. ASSUME NEW d \in Call
        PROVE  HoldsRow(d)' /\ HoldsUser(d)'
    <3>1. HoldsRow(d) /\ HoldsUser(d)
      BY DEF IInv
    <3>2. CASE d = c
      BY <3>1, <3>2, <1>2, <2>1, <2>2, <2>3, <2>4
         DEF HoldsRow, HoldsUser, IInv, TypeOK, stores
    <3>3. CASE d # c
      BY <3>1, <3>3, <1>2, <2>1, <2>3, <2>5
         DEF HoldsRow, HoldsUser, Users, OpOf, stores, IInv, TypeOK
    <3> QED BY <3>2, <3>3
  <2>8. ASSUME NEW d \in Call
        PROVE  HoldsCode(d)'
    <3>1. HoldsCode(d) /\ task[d].code \in Call
      BY RequestType DEF IInv
    <3> QED BY <3>1, <1>2, <2>3, <2>5 DEF HoldsCode, OpOf, stores
  <2> QED BY <2>5, <2>6, <2>7, <2>8 DEF IInv
<1> QED BY <1>1, <1>2 DEF FindUser, Holders, stores

\* A step that changes a store, or ends the call.
Moves(c, step) ==
    \/ AtStep(c, step) /\ Advance(c)
    \/ Answer(c, "error")
    \/ Answer(c, "ok") /\ OpOf(c) \notin Spends

\* What such a step does to the position of the calls.
LEMMA MoveFacts ==
    ASSUME IInv, NEW c \in Call, NEW step, Moves(c, step)
    PROVE  /\ task' = task
           /\ at' \in [Call -> 1..7]
           /\ result' \in [Call -> Result]
           /\ \A d \in Call : \A s :
                 /\ Past(d, s) => Past(d, s)'
                 /\ Past(d, s)' => Past(d, s) \/ (d = c /\ s = step)
           /\ \A d \in Call : result'[d] = "ok" =>
                 result[d] = "ok" \/ OpOf(d) \notin Spends
<1>1. CASE AtStep(c, step) /\ Advance(c)
  BY <1>1, AtNext, PastAfterStep DEF IInv, TypeOK, Advance
<1>2. CASE Answer(c, "error") \/ (Answer(c, "ok") /\ OpOf(c) \notin Spends)
  BY <1>2, PastUnchanged DEF IInv, TypeOK, Answer, Result
<1> QED BY <1>1, <1>2 DEF Moves

\* Steps that leave redis alone keep what is known of codes.
LEMMA CodesFrame ==
    ASSUME IInv, NEW c \in Call, NEW step, Moves(c, step),
           step \notin {"send", "code", "delete"}, UNCHANGED codes
    PROVE  \A d \in Call : HoldsCode(d)'
<1> SUFFICES ASSUME NEW d \in Call PROVE HoldsCode(d)'
  OBVIOUS
<1>1. HoldsCode(d) /\ task[d].code \in Call
  BY RequestType DEF IInv
<1>2. \A e \in Call : \A s \in {"send", "code", "delete"} :
         Past(e, s)' <=> Past(e, s)
  BY MoveFacts
<1> QED BY <1>1, <1>2, MoveFacts DEF HoldsCode, OpOf

\* Steps other than a login's keep what is known of its user.
LEMMA UserFrame ==
    ASSUME IInv, NEW c \in Call, NEW step, Moves(c, step),
           step \notin {"find", "session"}, UNCHANGED sessions,
           who' = who \/ \E u \in User : /\ who' = [who EXCEPT ![c] = u]
                                        /\ ~Past(c, "session")
    PROVE  \A d \in Call : HoldsUser(d)'
<1> SUFFICES ASSUME NEW d \in Call PROVE HoldsUser(d)'
  OBVIOUS
<1>1. HoldsUser(d)
  BY DEF IInv
<1>2. \A s \in {"find", "session"} : Past(d, s)' <=> Past(d, s)
  BY MoveFacts
<1> QED BY <1>1, <1>2 DEF HoldsUser, IInv, TypeOK

\* The setter keeps the type of a row, and gives every setAvatar an avatar.
LEMMA ChangedType ==
    ASSUME TypeOK, NEW c \in Call, NEW row \in Row
    PROVE  /\ Changed(c, row) \in Row \/ OpOf(c) \notin Setters
           /\ OpOf(c) \in Setters \ {"setAvatar"} =>
                 Changed(c, row).avatar = row.avatar
           /\ OpOf(c) = "setAvatar" => Changed(c, row).avatar # Null
BY RequestType, NullsAssumption DEF Changed, Row, Setters, User

\* A setter reads the row it will write.
LEMMA SelectUserKeeps ==
    ASSUME IInv, NEW c \in Call, SelectUser(c)
    PROVE  IInv'
<1> DEFINE u == task[c].user
<1>1. CASE UNCHANGED <<stores, who, user>> /\ Answer(c, "error")
  <2>1. faults' \in 0..MaxFaults
    BY FaultCounted DEF SelectUser, IInv, TypeOK
  <2> QED BY <1>1, <2>1, QuietStep
<1>2. CASE /\ rows[u] # NoRow
           /\ who' = [who EXCEPT ![c] = u]
           /\ user' = [user EXCEPT ![c] = Changed(c, rows[u])]
           /\ Advance(c)
           /\ UNCHANGED <<stores, faults>>
  <2>1. u \in User /\ AtStep(c, "select") /\ Moves(c, "select")
    BY <1>2, RequestType DEF SelectUser, Moves, IInv
  <2>2. u \in Users /\ rows[u] \in Row
    BY <1>2, <2>1 DEF Users, IInv, TypeOK
  <2>3. OpOf(c) \in Setters
    BY <2>1, PathOrder DEF IInv
  <2>4. ~Past(c, "upload") /\ ~Past(c, "session")
    BY <2>1, PathOrder DEF IInv
  <2>5. TypeOK'
    BY <1>2, <2>1, <2>2, <2>3, ChangedType, MoveFacts DEF IInv, TypeOK, stores
  <2>6. AvatarHasFile' /\ IndexedIsReal' /\ OnlineHasSession'
    BY <1>2 DEF IInv, AvatarHasFile, IndexedIsReal, OnlineHasSession, Users,
                stores
  <2>7. ASSUME NEW d \in Call
        PROVE  HoldsRow(d)'
    <3>1. HoldsRow(d) /\ OpOf(d)' = OpOf(d) /\ Users' = Users
      BY <1>2, <2>1, MoveFacts DEF IInv, OpOf, Users, stores
    <3>2. CASE d = c
      <4>1. who'[c] = u /\ user'[c] = Changed(c, rows[u])
        BY <1>2 DEF IInv, TypeOK
      <4>2. /\ Changed(c, rows[u]) \in Row
            /\ OpOf(c) # "setAvatar" =>
                  Changed(c, rows[u]).avatar \in files \cup {Null}
            /\ OpOf(c) = "setAvatar" => Changed(c, rows[u]).avatar # Null
        BY <2>2, <2>3, ChangedType DEF IInv, AvatarHasFile
      <4>3. ~Past(c, "upload")'
        BY <2>1, <2>4, MoveFacts
      <4> QED BY <3>1, <3>2, <4>1, <4>2, <4>3, <2>2, <1>2
              DEF HoldsRow, stores
    <3>3. CASE d # c
      <4>1. \A s : Past(d, s)' <=> Past(d, s)
        BY <2>1, <3>3, MoveFacts
      <4> QED BY <3>1, <3>3, <4>1, <1>2 DEF HoldsRow, IInv, TypeOK, stores
    <3> QED BY <3>2, <3>3
  <2>8. \A d \in Call : HoldsUser(d)' /\ HoldsCode(d)'
    BY <1>2, <2>1, <2>4, UserFrame, CodesFrame DEF stores
  <2> QED BY <2>5, <2>6, <2>7, <2>8 DEF IInv
<1> QED BY <1>1, <1>2 DEF SelectUser, stores

\* Writing a row whose avatar is there keeps the table, the index and the
\* file service consistent.
LEMMA WriteRow ==
    ASSUME IInv, NEW u \in User, NEW row \in Row,
           row.avatar \in files \cup {Null},
           rows' = [rows EXCEPT ![u] = row],
           UNCHANGED <<docs, files, sessions, online>>
    PROVE  /\ rows' \in [User -> Row \cup {NoRow}]
           /\ Users \subseteq Users'
           /\ u \in Users'
           /\ AvatarHasFile' /\ IndexedIsReal' /\ OnlineHasSession'
<1>1. rows' \in [User -> Row \cup {NoRow}] /\ row # NoRow
  BY NullsAssumption DEF IInv, TypeOK
<1>2. Users' = Users \cup {u}
  BY <1>1 DEF Users, IInv, TypeOK
<1> QED BY <1>1, <1>2 DEF IInv, TypeOK, Users, AvatarHasFile, IndexedIsReal,
                          OnlineHasSession

\* What Write leaves alone, and how it may end.
LEMMA WriteCases ==
    ASSUME IInv, NEW c \in Call, NEW u, NEW row, NEW step,
           AtStep(c, step), Write(c, u, row)
    PROVE  /\ Moves(c, step)
           /\ faults' \in 0..MaxFaults
           /\ \/ rows' = rows /\ Answer(c, "error")
              \/ rows' = [rows EXCEPT ![u] = row]
BY FaultCounted DEF Write, Moves, IInv, TypeOK

\* The row of a registration.
LEMMA NewRowType ==
    ASSUME TypeOK, NEW c \in Call, OpOf(c) \in Registers
    PROVE  NewRow(c) \in Row /\ NewRow(c).avatar = Null
BY RequestType DEF NewRow, Row, Registers, User

\* A registration inserts its row.
LEMMA InsertUserKeeps ==
    ASSUME IInv, NEW c \in Call, InsertUser(c)
    PROVE  IInv'
<1>1. /\ AtStep(c, "insert") /\ Write(c, c, NewRow(c)) /\ c \in User
      /\ who' = [who EXCEPT ![c] = c]
      /\ user' = [user EXCEPT ![c] = NewRow(c)]
      /\ UNCHANGED <<docs, files, codes, sessions, online>>
  BY DEF InsertUser, User
<1>2. /\ OpOf(c) \in Registers
      /\ ~Past(c, "select") /\ ~Past(c, "insert") /\ ~Past(c, "session")
  BY <1>1, PathOrder DEF IInv
<1>3. NewRow(c) \in Row /\ NewRow(c).avatar = Null
  BY <1>2, NewRowType DEF IInv
<1>4. Moves(c, "insert") /\ faults' \in 0..MaxFaults
  BY <1>1, WriteCases
<1>5. /\ rows' \in [User -> Row \cup {NoRow}]
      /\ Users \subseteq Users'
      /\ AvatarHasFile' /\ IndexedIsReal' /\ OnlineHasSession'
      /\ c \in Users' \/ Answer(c, "error")
  <2>1. CASE rows' = rows /\ Answer(c, "error")
    BY <2>1, <1>1 DEF IInv, TypeOK, AvatarHasFile, IndexedIsReal,
                      OnlineHasSession, Users
  <2>2. CASE rows' = [rows EXCEPT ![c] = NewRow(c)]
    BY <2>2, <1>1, <1>3, WriteRow
  <2> QED BY <2>1, <2>2, <1>1, WriteCases
<1>6. TypeOK'
  BY <1>1, <1>3, <1>4, <1>5, MoveFacts DEF IInv, TypeOK
<1>7. ASSUME NEW d \in Call
      PROVE  HoldsRow(d)'
  <2>1. HoldsRow(d) /\ OpOf(d)' = OpOf(d)
    BY <1>4, MoveFacts DEF IInv, OpOf
  <2>2. CASE d = c
    <3>1. CASE Answer(c, "error")
      <4>1. ~Past(c, "select")' /\ ~Past(c, "insert")'
        BY <1>2, <3>1, PastUnchanged DEF Answer
      <4> QED BY <4>1, <2>2 DEF HoldsRow
    <3>2. CASE c \in Users'
      <4>1. who'[c] = c /\ user'[c] = NewRow(c)
        BY <1>1 DEF IInv, TypeOK
      <4> QED BY <4>1, <3>2, <2>1, <2>2, <1>1, <1>2, <1>3
              DEF HoldsRow, Registers
    <3> QED BY <3>1, <3>2, <1>5
  <2>3. CASE d # c
    <3>1. \A s : Past(d, s)' <=> Past(d, s)
      BY <1>4, <2>3, MoveFacts
    <3>2. who'[d] = who[d] /\ user'[d] = user[d]
      BY <1>1, <2>3 DEF IInv, TypeOK
    <3> QED BY <3>1, <3>2, <2>1, <1>1, <1>5 DEF HoldsRow
  <2> QED BY <2>2, <2>3
<1>8. \A d \in Call : HoldsUser(d)' /\ HoldsCode(d)'
  BY <1>1, <1>2, <1>4, UserFrame, CodesFrame
<1> QED BY <1>5, <1>6, <1>7, <1>8 DEF IInv

\* Steps that keep rows, files and the local objects keep HoldsRow.
LEMMA RowFrame ==
    ASSUME IInv, NEW c \in Call, NEW step, Moves(c, step),
           step \notin {"select", "insert"}, UNCHANGED <<who, user>>,
           Users \subseteq Users', files \subseteq files',
           step = "upload" => user[c].avatar \in files' \/ Answer(c, "error")
    PROVE  \A d \in Call : HoldsRow(d)'
<1> SUFFICES ASSUME NEW d \in Call PROVE HoldsRow(d)'
  OBVIOUS
<1>1. HoldsRow(d) /\ OpOf(d)' = OpOf(d)
  BY MoveFacts DEF IInv, OpOf
<1>2. \A s \in {"select", "insert"} : Past(d, s)' <=> Past(d, s)
  BY MoveFacts
<1>3. Past(d, "upload")' =>
         Past(d, "upload") \/ user[d].avatar \in files'
  <2>1. CASE Answer(c, "error")
    BY <2>1, PastUnchanged DEF Answer
  <2>2. CASE ~Answer(c, "error")
    BY <2>2, MoveFacts
  <2> QED BY <2>1, <2>2
<1> QED BY <1>1, <1>2, <1>3 DEF HoldsRow

\* A setter writes its row back.
LEMMA UpdateUserKeeps ==
    ASSUME IInv, NEW c \in Call, UpdateUser(c)
    PROVE  IInv'
<1>1. /\ AtStep(c, "update") /\ Write(c, who[c], user[c])
      /\ UNCHANGED <<docs, files, codes, sessions, online, who, user>>
  BY DEF UpdateUser
<1>2. /\ who[c] \in User /\ user[c] \in Row
      /\ user[c].avatar \in files \cup {Null}
  BY <1>1, PathOrder DEF IInv, HoldsRow, Users
<1>3. Moves(c, "update") /\ faults' \in 0..MaxFaults
  BY <1>1, WriteCases
<1>4. /\ rows' \in [User -> Row \cup {NoRow}]
      /\ Users \subseteq Users'
      /\ AvatarHasFile' /\ IndexedIsReal' /\ OnlineHasSession'
  <2>1. CASE rows' = rows
    BY <2>1, <1>1 DEF IInv, TypeOK, AvatarHasFile, IndexedIsReal,
                      OnlineHasSession, Users
  <2>2. CASE rows' = [rows EXCEPT ![who[c]] = user[c]]
    BY <2>2, <1>1, <1>2, WriteRow
  <2> QED BY <2>1, <2>2, <1>1, WriteCases
<1>5. TypeOK'
  BY <1>1, <1>3, <1>4, MoveFacts DEF IInv, TypeOK
<1>6. \A d \in Call : HoldsRow(d)' /\ HoldsUser(d)' /\ HoldsCode(d)'
  BY <1>1, <1>3, <1>4, RowFrame, UserFrame, CodesFrame
<1> QED BY <1>4, <1>5, <1>6 DEF IInv

\* A registration or a setter adds its document.
LEMMA AddDataKeeps ==
    ASSUME IInv, NEW c \in Call, AddData(c)
    PROVE  IInv'
<1> DEFINE doc == DocOf(who[c], user[c])
<1>1. /\ AtStep(c, "index")
      /\ docs' = docs \/ docs' = docs \cup {doc}
      /\ UNCHANGED <<rows, files, codes, sessions, online, who, user>>
  BY DEF AddData
<1>2. /\ who[c] \in Users /\ user[c] \in Row
      /\ user[c].avatar \in files \cup {Null}
  BY <1>1, PathOrder DEF IInv, HoldsRow
<1>3. Moves(c, "index") /\ faults' \in 0..MaxFaults
  BY FaultCounted DEF AddData, Moves, IInv, TypeOK
<1>4. doc \in Doc /\ doc.user = who[c] /\ doc.avatar = user[c].avatar
  BY <1>2 DEF DocOf, Doc, Row, Users
<1>5. TypeOK'
  BY <1>1, <1>3, <1>4, MoveFacts DEF IInv, TypeOK
<1>6. AvatarHasFile' /\ IndexedIsReal' /\ OnlineHasSession'
  BY <1>1, <1>2, <1>4 DEF IInv, AvatarHasFile, IndexedIsReal,
                          OnlineHasSession, Users
<1>7. \A d \in Call : HoldsRow(d)' /\ HoldsUser(d)' /\ HoldsCode(d)'
  <2>1. Users' = Users
    BY <1>1 DEF Users
  <2> QED BY <1>1, <1>3, <2>1, RowFrame, UserFrame, CodesFrame
<1> QED BY <1>5, <1>6, <1>7 DEF IInv

\* An avatar reaches the file service.
LEMMA PutAvatarKeeps ==
    ASSUME IInv, NEW c \in Call, PutAvatar(c)
    PROVE  IInv'
<1>1. /\ AtStep(c, "upload")
      /\ \/ files' = files \cup {user[c].avatar}
         \/ files' = files /\ Answer(c, "error")
      /\ UNCHANGED <<rows, docs, codes, sessions, online, who, user>>
  BY DEF PutAvatar
<1>2. /\ OpOf(c) = "setAvatar" /\ user[c] \in Row /\ user[c].avatar # Null
  BY <1>1, PathOrder DEF IInv, HoldsRow
<1>3. Moves(c, "upload") /\ faults' \in 0..MaxFaults
  BY <1>2, FaultCounted DEF PutAvatar, Moves, IInv, TypeOK, Spends
<1>4. user[c].avatar \in Call
  BY <1>2 DEF Row
<1>5. TypeOK'
  BY <1>1, <1>3, <1>4, MoveFacts DEF IInv, TypeOK
<1>6. AvatarHasFile' /\ IndexedIsReal' /\ OnlineHasSession'
  BY <1>1 DEF IInv, AvatarHasFile, IndexedIsReal, OnlineHasSession, Users
<1>7. \A d \in Call : HoldsRow(d)' /\ HoldsUser(d)' /\ HoldsCode(d)'
  <2>1. Users' = Users
    BY <1>1 DEF Users
  <2> QED BY <1>1, <1>3, <2>1, RowFrame, UserFrame, CodesFrame
<1> QED BY <1>5, <1>6, <1>7 DEF IInv

\* A code is sent.
LEMMA SendCodeKeeps ==
    ASSUME IInv, NEW c \in Call, SendCode(c)
    PROVE  IInv'
<1>1. /\ AtStep(c, "send") /\ Advance(c) /\ Moves(c, "send")
      /\ codes' = codes \cup {c}
      /\ UNCHANGED <<rows, docs, files, sessions, online, who, user, faults>>
  BY DEF SendCode, Moves
<1>2. \A d \in Call : \A s :
         Past(d, s)' <=> Past(d, s) \/ (d = c /\ s = "send")
  BY <1>1, PastAfterStep DEF IInv
<1>3. ~Past(c, "send")
  BY <1>1, PathOrder DEF IInv
<1>4. TypeOK'
  BY <1>1, MoveFacts DEF IInv, TypeOK
<1>5. AvatarHasFile' /\ IndexedIsReal' /\ OnlineHasSession' /\ Users' = Users
  BY <1>1 DEF IInv, AvatarHasFile, IndexedIsReal, OnlineHasSession, Users
<1>6. ASSUME NEW d \in Call
      PROVE  HoldsCode(d)'
  <2>1. HoldsCode(d) /\ HoldsCode(c) /\ task[d].code \in Call
    BY RequestType DEF IInv
  <2>2. task[d].code = c => ~Past(d, "code") /\ ~Past(d, "delete")
    BY <1>3, <2>1, PathOrder DEF HoldsCode, IInv
  <2> QED BY <1>1, <1>2, <2>1, <2>2, MoveFacts DEF HoldsCode, OpOf
<1>7. \A d \in Call : HoldsRow(d)' /\ HoldsUser(d)'
  BY <1>1, <1>5, RowFrame, UserFrame
<1> QED BY <1>4, <1>5, <1>6, <1>7 DEF IInv

\* A code is spent.
LEMMA DeleteCodeKeeps ==
    ASSUME IInv, NEW c \in Call, DeleteCode(c)
    PROVE  IInv'
<1>1. /\ AtStep(c, "delete") /\ Advance(c) /\ Moves(c, "delete")
      /\ codes' = codes \ {task[c].code}
      /\ UNCHANGED <<rows, docs, files, sessions, online, who, user, faults>>
  BY DEF DeleteCode, Moves
<1>2. \A d \in Call : \A s :
         Past(d, s)' <=> Past(d, s) \/ (d = c /\ s = "delete")
  BY <1>1, PastAfterStep DEF IInv
<1>3. TypeOK'
  BY <1>1, MoveFacts DEF IInv, TypeOK
<1>4. AvatarHasFile' /\ IndexedIsReal' /\ OnlineHasSession' /\ Users' = Users
  BY <1>1 DEF IInv, AvatarHasFile, IndexedIsReal, OnlineHasSession, Users
<1>5. ASSUME NEW d \in Call
      PROVE  HoldsCode(d)'
  <2>1. HoldsCode(d) /\ task[d].code \in Call
    BY RequestType DEF IInv
  <2> QED BY <1>1, <1>2, <2>1, MoveFacts DEF HoldsCode, OpOf
<1>6. \A d \in Call : HoldsRow(d)' /\ HoldsUser(d)'
  BY <1>1, <1>4, RowFrame, UserFrame
<1> QED BY <1>3, <1>4, <1>5, <1>6 DEF IInv

\* A code expires.
LEMMA ExpireCodeKeeps ==
    ASSUME IInv, NEW c \in Call, ExpireCode(c)
    PROVE  IInv'
<1>1. /\ codes' = codes \ {c}
      /\ UNCHANGED <<rows, docs, files, sessions, online, at, who, user,
                     result, faults, task>>
  BY DEF ExpireCode
<1>2. /\ \A d \in Call : \A s : Past(d, s)' <=> Past(d, s)
      /\ \A d \in Call : OpOf(d)' = OpOf(d)
  BY <1>1, PastUnchanged DEF OpOf
<1>3. TypeOK'
  BY <1>1 DEF IInv, TypeOK
<1>4. AvatarHasFile' /\ IndexedIsReal' /\ OnlineHasSession' /\ Users' = Users
  BY <1>1 DEF IInv, AvatarHasFile, IndexedIsReal, OnlineHasSession, Users
<1>5. ASSUME NEW d \in Call
      PROVE  HoldsRow(d)' /\ HoldsUser(d)'
  <2>1. HoldsRow(d) /\ HoldsUser(d)
    BY DEF IInv
  <2> QED BY <1>1, <1>2, <1>4, <2>1 DEF HoldsRow, HoldsUser
<1>6. ASSUME NEW d \in Call
      PROVE  HoldsCode(d)'
  <2>1. HoldsCode(d) /\ task[d].code \in Call
    BY RequestType DEF IInv
  <2> QED BY <1>1, <1>2, <2>1 DEF HoldsCode
<1> QED BY <1>3, <1>4, <1>5, <1>6 DEF IInv

\* A login records its session.
LEMMA AddSessionKeeps ==
    ASSUME IInv, NEW c \in Call, AddSession(c)
    PROVE  IInv'
<1>1. /\ AtStep(c, "session") /\ Advance(c) /\ Moves(c, "session")
      /\ sessions' = [sessions EXCEPT ![c] = who[c]]
      /\ UNCHANGED <<rows, docs, files, codes, online, who, user, faults>>
  BY DEF AddSession, Moves
<1>2. \A d \in Call : \A s :
         Past(d, s)' <=> Past(d, s) \/ (d = c /\ s = "session")
  BY <1>1, PastAfterStep DEF IInv
<1>3. who[c] \in User
  BY <1>1, PathOrder DEF IInv, HoldsUser
<1>4. TypeOK'
  BY <1>1, <1>3, MoveFacts DEF IInv, TypeOK
<1>5. AvatarHasFile' /\ IndexedIsReal' /\ Users' = Users
  BY <1>1 DEF IInv, AvatarHasFile, IndexedIsReal, Users
<1>6. \A d \in Call : HoldsUser(d)'
  BY <1>1, <1>2 DEF IInv, HoldsUser, TypeOK
<1>7. OnlineHasSession'
  <2> SUFFICES ASSUME NEW u \in online PROVE \E d \in Call : sessions'[d] = u
    BY <1>1 DEF OnlineHasSession
  <2>1. PICK d \in Call : sessions[d] = u
    BY DEF IInv, OnlineHasSession
  <2>2. u \in User
    BY DEF IInv, TypeOK
  <2>3. sessions[c] = NoRow
    BY <1>1, PathOrder DEF IInv, HoldsUser
  <2>4. d # c
    BY <2>1, <2>2, <2>3, NullsAssumption
  <2> QED BY <1>1, <2>1, <2>4 DEF IInv, TypeOK
<1>8. \A d \in Call : HoldsRow(d)' /\ HoldsCode(d)'
  BY <1>1, <1>5, RowFrame, CodesFrame
<1> QED BY <1>4, <1>5, <1>6, <1>7, <1>8 DEF IInv

\* A login records that its user is logged in.
LEMMA AddLoginStatusKeeps ==
    ASSUME IInv, NEW c \in Call, AddLoginStatus(c)
    PROVE  IInv'
<1>1. /\ AtStep(c, "status") /\ Advance(c) /\ Moves(c, "status")
      /\ online' = online \cup {who[c]}
      /\ UNCHANGED <<rows, docs, files, codes, sessions, who, user, faults>>
  BY DEF AddLoginStatus, Moves
<1>2. who[c] \in User /\ sessions[c] = who[c]
  BY <1>1, PathOrder DEF IInv, HoldsUser
<1>3. TypeOK'
  BY <1>1, <1>2, MoveFacts DEF IInv, TypeOK
<1>4. AvatarHasFile' /\ IndexedIsReal' /\ OnlineHasSession' /\ Users' = Users
  BY <1>1, <1>2 DEF IInv, AvatarHasFile, IndexedIsReal, OnlineHasSession,
                    Users
<1>5. \A d \in Call : HoldsRow(d)' /\ HoldsUser(d)' /\ HoldsCode(d)'
  BY <1>1, <1>4, RowFrame, UserFrame, CodesFrame
<1> QED BY <1>3, <1>4, <1>5 DEF IInv

\* Every other step of a handler changes no store.
LEMMA QuietHandlersKeep ==
    ASSUME IInv, NEW c \in Call,
           Refuse(c) \/ Succeed(c) \/ CheckFree(c) \/ CheckCode(c)
           \/ CheckOffline(c) \/ Crash(c)
    PROVE  IInv'
<1>1. faults' \in 0..MaxFaults
  BY FaultCounted DEF IInv, TypeOK, Refuse, Succeed, CheckFree, CheckCode,
                      CheckOffline, Crash
<1>2. UNCHANGED <<stores, who, user>>
  BY DEF Refuse, Succeed, CheckFree, CheckCode, CheckOffline, Crash
<1>3. CASE Answer(c, "error") \/ Answer(c, "lost")
  BY <1>1, <1>2, <1>3, QuietStep
<1>4. CASE Succeed(c)
  BY <1>1, <1>2, <1>4, QuietStep DEF Succeed
<1>5. CASE CheckFree(c) /\ Advance(c)
  <2>1. AtStep(c, "free")
    BY <1>5 DEF CheckFree
  <2> QED BY <1>1, <1>2, <1>5, <2>1, QuietStep
<1>6. CASE CheckCode(c) /\ Advance(c) /\ task[c].code \in codes
  <2>1. AtStep(c, "code")
    BY <1>6 DEF CheckCode
  <2> QED BY <1>1, <1>2, <1>6, <2>1, QuietStep
<1>7. CASE CheckOffline(c) /\ Advance(c)
  <2>1. AtStep(c, "offline")
    BY <1>7 DEF CheckOffline
  <2> QED BY <1>1, <1>2, <1>7, <2>1, QuietStep
<1> QED BY <1>3, <1>4, <1>5, <1>6, <1>7
    DEF Refuse, CheckFree, CheckCode, CheckOffline, Crash

-----------------------------------------------------------------------------
(* Theorems.                                                                *)

\* The invariant holds at first.
LEMMA InitIInv == Init => IInv
<1> SUFFICES ASSUME Init PROVE IInv
  OBVIOUS
<1>1. /\ rows \in [User -> Row \cup {NoRow}]
      /\ Users = Registered
      /\ \A u \in Registered : rows[u] = RowOf[u] /\ RowOf[u].avatar = Null
  BY RowOfAssumption, NullsAssumption DEF Init, Users, User
<1>2. /\ docs \subseteq Doc
      /\ \A d \in docs : d.user \in Registered /\ d.avatar = Null
  BY RowOfAssumption DEF Init, Doc, DocOf, Row, User
<1>3. TypeOK
  BY <1>1, <1>2, FaultAssumption DEF Init, TypeOK, Result
<1>4. AvatarHasFile /\ IndexedIsReal /\ OnlineHasSession
  BY <1>1, <1>2 DEF Init, AvatarHasFile, IndexedIsReal, OnlineHasSession
<1>5. ASSUME NEW c \in Call
      PROVE  HoldsRow(c) /\ HoldsUser(c) /\ HoldsCode(c)
  <2>1. \A s : ~Past(c, s)
    BY RequestType, PathLength, <1>3 DEF Past, Init
  <2> QED BY <2>1 DEF HoldsRow, HoldsUser, HoldsCode, Init
<1> QED BY <1>3, <1>4, <1>5 DEF IInv

\* Every step keeps it.
LEMMA NextIInv == IInv /\ [Next]_vars => IInv'
<1> SUFFICES ASSUME IInv, [Next]_vars PROVE IInv'
  OBVIOUS
<1>1. ASSUME NEW c \in Call, Handle(c)
      PROVE  IInv'
  BY <1>1, QuietHandlersKeep, FindUserKeeps, SelectUserKeeps, InsertUserKeeps,
     UpdateUserKeeps, AddDataKeeps, PutAvatarKeeps, SendCodeKeeps,
     DeleteCodeKeeps, AddSessionKeeps, AddLoginStatusKeeps DEF Handle
<1>2. ASSUME NEW c \in Call, ExpireCode(c) \/ Crash(c)
      PROVE  IInv'
  BY <1>2, ExpireCodeKeeps, QuietHandlersKeep
<1>3. CASE UNCHANGED vars
  <2>1. /\ \A d \in Call : \A s : Past(d, s)' <=> Past(d, s)
        /\ \A d \in Call : OpOf(d)' = OpOf(d)
    BY <1>3, PastUnchanged DEF vars, OpOf
  <2>2. TypeOK' /\ AvatarHasFile' /\ IndexedIsReal' /\ OnlineHasSession'
        /\ Users' = Users
    BY <1>3 DEF vars, IInv, TypeOK, AvatarHasFile, IndexedIsReal,
                OnlineHasSession, Users
  <2>3. ASSUME NEW d \in Call
        PROVE  HoldsRow(d)' /\ HoldsUser(d)' /\ HoldsCode(d)'
    <3>1. HoldsRow(d) /\ HoldsUser(d) /\ HoldsCode(d) /\ task[d].code \in Call
      BY RequestType DEF IInv
    <3>2. HoldsRow(d)' /\ HoldsUser(d)'
      BY <1>3, <2>1, <2>2, <3>1 DEF HoldsRow, HoldsUser, vars
    <3>3. HoldsCode(d)'
      BY <1>3, <2>1, <3>1 DEF HoldsCode, vars
    <3> QED BY <3>2, <3>3
  <2> QED BY <2>2, <2>3 DEF IInv
<1> QED BY <1>1, <1>2, <1>3 DEF Next

\* The inductive invariant holds in every state: what each store holds, and
\* what every call knows of the steps behind it.
THEOREM InductiveInvariant == Spec => []IInv
<1>1. Init => IInv
  BY InitIInv
<1>2. IInv /\ [Next]_vars => IInv'
  BY NextIInv
<1> QED BY <1>1, <1>2, PTL DEF Spec

\* The avatar id of a row always leads to a file.
THEOREM AvatarsAreThere == Spec => []AvatarHasFile
<1>1. IInv => AvatarHasFile
  BY DEF IInv
<1> QED BY <1>1, InductiveInvariant, PTL

\* Search shows registered users only, with avatars that are there.
THEOREM IndexedUsersAreReal == Spec => []IndexedIsReal
<1>1. IInv => IndexedIsReal
  BY DEF IInv
<1> QED BY <1>1, InductiveInvariant, PTL

\* Whoever counts as logged in has a session.
THEOREM LoggedInHasSession == Spec => []OnlineHasSession
<1>1. IInv => OnlineHasSession
  BY DEF IInv
<1> QED BY <1>1, InductiveInvariant, PTL

\* A code that a login or a change of phone was completed with is gone.
THEOREM SpentCodesAreGone == Spec => []SpentCodeGone
<1>1. IInv => SpentCodeGone
  BY DEF IInv, HoldsCode, SpentCodeGone
<1> QED BY <1>1, InductiveInvariant, PTL

-----------------------------------------------------------------------------
(* Unique names.                                                            *)

\* A row that conflicts with no other leaves the names unique.
LEMMA WriteKeepsUnique ==
    ASSUME IInv, UniqueNames, NEW c \in Call, NEW u \in User, NEW row \in Row,
           Write(c, u, row)
    PROVE  UniqueNames'
<1>1. CASE rows' = rows
  BY <1>1 DEF UniqueNames, Users
<1>2. CASE ~Conflict(u, row) /\ rows' = [rows EXCEPT ![u] = row]
  <2>1. rows'[u] = row /\ \A v \in User \ {u} : rows'[v] = rows[v]
    BY <1>2 DEF IInv, TypeOK
  <2>2. Users' \subseteq Users \cup {u}
    BY <2>1 DEF Users
  <2>3. \A v \in Users \ {u} : /\ Different(row, rows[v])
                             /\ Different(rows[v], row)
    BY <1>2 DEF Conflict, Different
  <2>4. Users \subseteq User
    BY DEF Users
  <2> QED BY <2>1, <2>2, <2>3, <2>4 DEF UniqueNames
<1> QED BY <1>1, <1>2 DEF Write

\* No two users share a nickname or a phone.
THEOREM NamesAreUnique == Spec => []UniqueNames
<1>1. Init => UniqueNames
  <2> SUFFICES ASSUME Init PROVE UniqueNames
    OBVIOUS
  <2>1. Users = Registered /\ \A u \in Registered : rows[u] = RowOf[u]
    BY RowOfAssumption, NullsAssumption DEF Init, Users, User
  <2> QED BY <2>1, DifferentAssumption DEF UniqueNames
<1>2. IInv /\ UniqueNames /\ [Next]_vars => UniqueNames'
  <2> SUFFICES ASSUME IInv, UniqueNames, [Next]_vars PROVE UniqueNames'
    OBVIOUS
  <2>1. CASE rows' = rows
    BY <2>1 DEF UniqueNames, Users
  <2>2. ASSUME NEW c \in Call, InsertUser(c)
        PROVE  UniqueNames'
    <3>1. OpOf(c) \in Registers /\ c \in User
      BY <2>2, PathOrder DEF InsertUser, IInv, User
    <3> QED BY <2>2, <3>1, NewRowType, WriteKeepsUnique DEF InsertUser, IInv
  <2>3. ASSUME NEW c \in Call, UpdateUser(c)
        PROVE  UniqueNames'
    <3>1. who[c] \in User /\ user[c] \in Row
      BY <2>3, PathOrder DEF UpdateUser, IInv, HoldsRow, Users
    <3> QED BY <2>3, <3>1, WriteKeepsUnique DEF UpdateUser
  <2>4. ASSUME NEW c \in Call,
               Refuse(c) \/ Succeed(c) \/ CheckFree(c) \/ FindUser(c)
               \/ SelectUser(c) \/ AddData(c) \/ PutAvatar(c) \/ SendCode(c)
               \/ CheckCode(c) \/ DeleteCode(c) \/ CheckOffline(c)
               \/ AddSession(c) \/ AddLoginStatus(c) \/ ExpireCode(c)
               \/ Crash(c)
        PROVE  rows' = rows
    BY <2>4 DEF Refuse, Succeed, CheckFree, FindUser, SelectUser, AddData,
                PutAvatar, SendCode, CheckCode, DeleteCode, CheckOffline,
                AddSession, AddLoginStatus, ExpireCode, Crash, stores
  <2> QED BY <2>1, <2>2, <2>3, <2>4 DEF Next, Handle, vars
<1> QED BY <1>1, <1>2, InductiveInvariant, PTL DEF Spec

-----------------------------------------------------------------------------
(* The index.                                                               *)

\* A call does not touch what another call works with.
LEMMA OthersUntouched ==
    ASSUME IInv, NEW c \in Call, NEW d \in Call, d # c,
           Handle(c) \/ ExpireCode(c) \/ Crash(c)
    PROVE  /\ who'[d] = who[d] /\ user'[d] = user[d] /\ at'[d] = at[d]
           /\ result'[d] = result[d] /\ task' = task
<1>1. CASE Refuse(c) \/ Succeed(c) \/ CheckFree(c) \/ CheckCode(c)
           \/ CheckOffline(c) \/ ExpireCode(c) \/ Crash(c)
  BY <1>1 DEF IInv, TypeOK, Refuse, Succeed, CheckFree, CheckCode,
              CheckOffline, ExpireCode, Crash, Answer, Advance
<1>2. CASE FindUser(c) \/ SelectUser(c)
  BY <1>2 DEF IInv, TypeOK, FindUser, SelectUser, Answer, Advance
<1>3. CASE InsertUser(c) \/ UpdateUser(c)
  BY <1>3 DEF IInv, TypeOK, InsertUser, UpdateUser, Write, Answer, Advance
<1>4. CASE AddData(c) \/ PutAvatar(c)
  BY <1>4 DEF IInv, TypeOK, AddData, PutAvatar, Answer, Advance
<1>5. CASE SendCode(c) \/ DeleteCode(c) \/ AddSession(c) \/ AddLoginStatus(c)
  BY <1>5 DEF IInv, TypeOK, SendCode, DeleteCode, AddSession, AddLoginStatus,
              Advance
<1> QED BY <1>1, <1>2, <1>3, <1>4, <1>5 DEF Handle

\* A call that is about to index does nothing else.
LEMMA IndexStepOnly ==
    ASSUME TypeOK, NEW c \in Call, AtStep(c, "index"), Handle(c)
    PROVE  AddData(c)
<1>1. \A s : AtStep(c, s) => s = "index"
  BY DEF AtStep
<1>2. ~Refuse(c) /\ ~Succeed(c)
  <2>1. ~Malformed(c) /\ ~(at[c] > Len(Path(OpOf(c))))
    BY RequestType, PathLength DEF AtStep, TypeOK
  <2> QED BY <2>1 DEF Refuse, Succeed
<1>3. /\ ~CheckFree(c) /\ ~FindUser(c) /\ ~SelectUser(c) /\ ~InsertUser(c)
      /\ ~UpdateUser(c) /\ ~PutAvatar(c)
  BY <1>1 DEF CheckFree, FindUser, SelectUser, InsertUser, UpdateUser,
              PutAvatar
<1>4. /\ ~SendCode(c) /\ ~CheckCode(c) /\ ~DeleteCode(c)
      /\ ~CheckOffline(c) /\ ~AddSession(c) /\ ~AddLoginStatus(c)
  BY <1>1 DEF SendCode, CheckCode, DeleteCode, CheckOffline, AddSession,
              AddLoginStatus
<1> QED BY <1>2, <1>3, <1>4 DEF Handle

\* What is indexed or owed remains so.
LEMMA IndexedStable ==
    ASSUME IInv, [Next]_vars, NEW u, NEW row, Indexed(u, row)
    PROVE  Indexed(u, row)'
<1>1. docs \subseteq docs'
  <2>1. ASSUME NEW c \in Call, Handle(c) \/ ExpireCode(c) \/ Crash(c)
        PROVE  docs \subseteq docs'
    BY <2>1 DEF Handle, Refuse, Succeed, CheckFree, FindUser, SelectUser,
                InsertUser, UpdateUser, AddData, PutAvatar, SendCode,
                CheckCode, DeleteCode, CheckOffline, AddSession,
                AddLoginStatus, ExpireCode, Crash, stores
  <2> QED BY <2>1 DEF Next, vars
<1>2. CASE DocOf(u, row) \in docs
  BY <1>1, <1>2 DEF Indexed, DocOf
<1>3. CASE Owed(u, row)
  <2>1. PICK c \in Call : /\ AtStep(c, "index") \/ result[c] \in {"error", "lost"}
                         /\ user[c] # NoRow
                         /\ DocOf(who[c], user[c]) = DocOf(u, row)
    BY <1>3 DEF Owed
  <2>2. CASE /\ who'[c] = who[c] /\ user'[c] = user[c] /\ at'[c] = at[c]
             /\ result'[c] = result[c] /\ task' = task
    <3>1. AtStep(c, "index") => AtStep(c, "index")'
      BY <2>2 DEF AtStep, Running, Malformed, OpOf
    <3> QED BY <2>1, <2>2, <3>1 DEF Indexed, Owed, DocOf
  <2>3. ASSUME who'[c] = who[c], user'[c] = user[c], result'[c] \in {"error", "lost"}
        PROVE  Indexed(u, row)'
    BY <2>1, <2>3 DEF Indexed, Owed, DocOf
  <2>4. CASE Handle(c)
    <3>1. AtStep(c, "index")
      <4>1. Running(c)
        BY <2>4 DEF Handle, Refuse, Succeed, CheckFree, FindUser, SelectUser,
                    InsertUser, UpdateUser, AddData, PutAvatar, SendCode,
                    CheckCode, DeleteCode, CheckOffline, AddSession,
                    AddLoginStatus, AtStep
      <4> QED BY <2>1, <4>1 DEF Running
    <3>2. AddData(c)
      BY <2>4, <3>1, IndexStepOnly DEF IInv
    <3>3. CASE docs' = docs \cup {DocOf(who[c], user[c])}
      BY <2>1, <3>3 DEF Indexed, DocOf
    <3>4. CASE Answer(c, "error")
      BY <2>3, <3>2, <3>4 DEF AddData, Answer, IInv, TypeOK
    <3> QED BY <3>2, <3>3, <3>4 DEF AddData
  <2>5. CASE Crash(c)
    BY <2>3, <2>5 DEF Crash, Answer, IInv, TypeOK
  <2>6. CASE ExpireCode(c) \/ UNCHANGED vars
    BY <2>2, <2>6 DEF ExpireCode, vars
  <2>7. ASSUME NEW d \in Call, d # c, Handle(d) \/ ExpireCode(d) \/ Crash(d)
        PROVE  Indexed(u, row)'
    BY <2>2, <2>7, OthersUntouched
  <2> QED BY <2>4, <2>5, <2>6, <2>7 DEF Next
<1> QED BY <1>2, <1>3 DEF Indexed

\* A handler whose next step is the index comes to it.
LEMMA MovesToIndex ==
    ASSUME TypeOK, NEW c \in Call, NEW step, AtStep(c, step), Advance(c),
           at[c] + 1 <= Len(Path(OpOf(c))),
           Path(OpOf(c))[at[c] + 1] = "index"
    PROVE  AtStep(c, "index")'
<1>1. /\ at'[c] = at[c] + 1 /\ result' = result
      /\ OpOf(c)' = OpOf(c) /\ Malformed(c)' = Malformed(c)
  BY DEF Advance, TypeOK, OpOf, Malformed
<1> QED BY <1>1 DEF AtStep, Running

\* The row a handler writes is indexed or owed by that handler.
LEMMA WrittenIsIndexed ==
    ASSUME IndexInv, [Next]_vars, NEW c \in Call,
           InsertUser(c) \/ UpdateUser(c), rows' # rows
    PROVE  /\ who'[c] \in User /\ user'[c] \in Row
           /\ rows' = [rows EXCEPT ![who'[c]] = user'[c]]
           /\ \/ Indexed(who[c], user[c])'
              \/ AtStep(c, "index")'
              \/ result'[c] = "error"
<1>1. CASE InsertUser(c)
  <2>1. /\ AtStep(c, "insert") /\ (Advance(c) \/ Answer(c, "error"))
        /\ who' = [who EXCEPT ![c] = c]
        /\ user' = [user EXCEPT ![c] = NewRow(c)]
        /\ rows' = [rows EXCEPT ![c] = NewRow(c)]
    BY <1>1 DEF InsertUser, Write
  <2>2. AtStep(c, "insert")
    BY <1>1 DEF InsertUser
  <2>3. NewRow(c) \in Row /\ c \in User
    BY <2>2, PathOrder, NewRowType DEF IndexInv, IInv, User
  <2>4. who'[c] = c /\ user'[c] = NewRow(c)
    BY <2>1 DEF IndexInv, IInv, TypeOK
  <2>5. Advance(c) => AtStep(c, "index")'
    BY <2>2, PathOrder, MovesToIndex DEF IndexInv, IInv
  <2>6. Answer(c, "error") => result'[c] = "error"
    BY DEF Answer, IndexInv, IInv, TypeOK
  <2> QED BY <2>1, <2>3, <2>4, <2>5, <2>6
<1>2. CASE UpdateUser(c)
  <2>1. /\ Advance(c) \/ Answer(c, "error")
        /\ UNCHANGED <<who, user>>
        /\ rows' = [rows EXCEPT ![who[c]] = user[c]]
    BY <1>2 DEF UpdateUser, Write
  <2>2. AtStep(c, "update")
    BY <1>2 DEF UpdateUser
  <2>3. who[c] \in User /\ user[c] \in Row /\ Past(c, "select")
    BY <2>2, PathOrder DEF IndexInv, IInv, HoldsRow, Users
  <2>4. CASE Answer(c, "error")
    BY <2>1, <2>3, <2>4 DEF Answer, IndexInv, IInv, TypeOK
  <2>5. CASE Advance(c) /\ OpOf(c) = "setPassword"
    <3>1. Indexed(who[c], user[c])
      BY <2>3, <2>5 DEF IndexInv, WritesIndexedRow
    <3>2. ASSUME NEW u, NEW row, Indexed(u, row) PROVE Indexed(u, row)'
      BY <3>2, IndexedStable DEF IndexInv
    <3>3. PICK u, row : u = who[c] /\ row = user[c]
      OBVIOUS
    <3>4. Indexed(u, row)'
      BY <3>1, <3>2, <3>3
    <3>5. Indexed(who[c], user[c])'
      BY <3>3, <3>4, <2>1 DEF Indexed, Owed, DocOf
    <3> QED BY <2>1, <2>3, <3>5
  <2>6. CASE Advance(c) /\ OpOf(c) # "setPassword"
    <3>1. AtStep(c, "index")'
      BY <2>2, <2>6, PathOrder, MovesToIndex DEF IndexInv, IInv
    <3> QED BY <2>1, <2>3, <3>1
  <2> QED BY <2>1, <2>4, <2>5, <2>6
<1> QED BY <1>1, <1>2

\* A call that moves on does not answer.
LEMMA AdvanceOrAnswer ==
    ASSUME TypeOK, NEW c \in Call, Advance(c)
    PROVE  \A a : ~Answer(c, a)
BY DEF TypeOK, Advance, Answer

\* Only registrations and setters write to the table.
LEMMA RowsWritten ==
    ASSUME [Next]_vars, rows' # rows
    PROVE  \E c \in Call : InsertUser(c) \/ UpdateUser(c)
<1>1. PICK c \in Call : Handle(c) \/ ExpireCode(c) \/ Crash(c)
  BY DEF Next, vars
<1>2. /\ ~Refuse(c) /\ ~Succeed(c) /\ ~CheckFree(c) /\ ~FindUser(c)
      /\ ~SelectUser(c) /\ ~AddData(c) /\ ~PutAvatar(c) /\ ~SendCode(c)
      /\ ~CheckCode(c) /\ ~DeleteCode(c) /\ ~CheckOffline(c)
      /\ ~AddSession(c) /\ ~AddLoginStatus(c) /\ ~ExpireCode(c) /\ ~Crash(c)
  BY DEF Refuse, Succeed, CheckFree, FindUser, SelectUser, AddData, PutAvatar,
         SendCode, CheckCode, DeleteCode, CheckOffline, AddSession,
         AddLoginStatus, ExpireCode, Crash, stores
<1> QED BY <1>1, <1>2 DEF Handle

\* A setter that has selected its row keeps it.
LEMMA SelectedKept ==
    ASSUME IInv, [Next]_vars, NEW d \in Call, Past(d, "select")'
    PROVE  /\ task' = task
           /\ \/ /\ who'[d] = who[d] /\ user'[d] = user[d]
                 /\ Past(d, "select")
              \/ SelectUser(d) /\ Advance(d)
<1>1. CASE UNCHANGED <<who, user, at, task>>
  BY <1>1, PastUnchanged
<1>2. ASSUME NEW c \in Call, c # d, Handle(c) \/ ExpireCode(c) \/ Crash(c)
      PROVE  /\ task' = task /\ who'[d] = who[d] /\ user'[d] = user[d]
             /\ Past(d, "select")
  BY <1>2, OthersUntouched DEF Past, OpOf
<1>3. ASSUME NEW step, AtStep(d, step), Moves(d, step), step # "select"
      PROVE  Past(d, "select") /\ task' = task
  BY <1>3, MoveFacts
<1>4. CASE FindUser(d) \/ InsertUser(d)
  <2>1. CASE FindUser(d)
    <3>1. Moves(d, "find") /\ AtStep(d, "find")
      BY <2>1 DEF FindUser, Moves
    <3> QED BY <3>1, <1>3, PathOrder DEF IInv
  <2>2. CASE InsertUser(d)
    <3>1. Moves(d, "insert") /\ AtStep(d, "insert")
      BY <2>2, WriteCases DEF InsertUser
    <3> QED BY <3>1, <1>3, PathOrder DEF IInv
  <2> QED BY <1>4, <2>1, <2>2
<1>5. CASE UpdateUser(d)
  <2>1. Moves(d, "update") /\ AtStep(d, "update") /\ UNCHANGED <<who, user>>
    BY <1>5, WriteCases DEF UpdateUser
  <2> QED BY <2>1, <1>3
<1>6. CASE CheckFree(d) \/ CheckCode(d) \/ CheckOffline(d)
  <2>1. UNCHANGED <<who, user>> /\ \E step \in {"free", "code", "offline"} :
           AtStep(d, step) /\ Moves(d, step)
    BY <1>6 DEF CheckFree, CheckCode, CheckOffline, Moves
  <2> QED BY <2>1, <1>3
<1>7. CASE AddData(d) \/ PutAvatar(d)
  <2>1. CASE AddData(d)
    <3>1. Moves(d, "index") /\ AtStep(d, "index") /\ UNCHANGED <<who, user>>
      BY <2>1 DEF AddData, Moves
    <3> QED BY <3>1, <1>3
  <2>2. CASE PutAvatar(d)
    <3>1. AtStep(d, "upload") /\ UNCHANGED <<who, user>>
      BY <2>2 DEF PutAvatar
    <3>2. Moves(d, "upload")
      BY <2>2, <3>1, PathOrder DEF PutAvatar, Moves, IInv, Spends
    <3> QED BY <3>1, <3>2, <1>3
  <2> QED BY <1>7, <2>1, <2>2
<1>8. CASE SendCode(d) \/ DeleteCode(d) \/ AddSession(d) \/ AddLoginStatus(d)
  <2>1. UNCHANGED <<who, user>> /\
        \E step \in {"send", "delete", "session", "status"} :
           AtStep(d, step) /\ Moves(d, step)
    BY <1>8 DEF SendCode, DeleteCode, AddSession, AddLoginStatus, Moves
  <2> QED BY <2>1, <1>3
<1>9. CASE SelectUser(d)
  <2>1. CASE Answer(d, "error") /\ UNCHANGED <<who, user>>
    BY <2>1, <1>1 DEF Answer
  <2>2. CASE Advance(d)
    BY <1>9, <2>2 DEF Advance
  <2> QED BY <1>9, <2>1, <2>2 DEF SelectUser
<1>10. CASE Refuse(d) \/ Succeed(d) \/ ExpireCode(d)
  BY <1>10, <1>1 DEF Refuse, Succeed, ExpireCode, Answer
<1>11. CASE Crash(d)
  BY <1>11, <1>1 DEF Crash, Answer
<1> QED BY <1>1, <1>2, <1>4, <1>5, <1>6, <1>7, <1>8, <1>9, <1>10, <1>11
    DEF Next, Handle, vars

\* Whatever a step writes to the table is indexed or about to be.
LEMMA NextIndexInv == IndexInv /\ [Next]_vars => IndexInv'
<1> SUFFICES ASSUME IndexInv, [Next]_vars PROVE IndexInv'
  OBVIOUS
<1>1. IInv /\ IInv'
  BY NextIInv DEF IndexInv
<1>2. ASSUME NEW u, NEW row, Indexed(u, row)
      PROVE  Indexed(u, row)'
  BY <1>1, <1>2, IndexedStable
<1>3. ASSUME NEW v \in Users'
      PROVE  Indexed(v, rows[v])'
  <2>1. v \in User
    BY <1>3 DEF Users
  <2>2. PICK row : row = rows'[v]
    OBVIOUS
  <2>3. CASE rows[v] = rows'[v]
    <3>1. Indexed(v, row)
      BY <1>3, <2>1, <2>2, <2>3 DEF IndexInv, CurrentRowIndexed, Users
    <3>2. Indexed(v, row)'
      BY <3>1, <1>2
    <3> QED BY <2>2, <3>2 DEF Indexed, Owed, DocOf
  <2>4. CASE rows[v] # rows'[v]
    <3>1. PICK c \in Call : InsertUser(c) \/ UpdateUser(c)
      BY <2>4, RowsWritten
    <3>2. /\ rows' = [rows EXCEPT ![who'[c]] = user'[c]]
          /\ user'[c] \in Row
          /\ \/ Indexed(who[c], user[c])'
             \/ AtStep(c, "index")'
             \/ result'[c] = "error"
      BY <2>4, <3>1, WrittenIsIndexed
    <3>3. v = who'[c] /\ rows'[v] = user'[c]
      BY <1>1, <2>1, <2>4, <3>2 DEF IInv, TypeOK
    <3>4. CASE Indexed(who[c], user[c])'
      BY <3>3, <3>4 DEF Indexed, Owed, DocOf
    <3>5. CASE AtStep(c, "index")' \/ result'[c] = "error"
      BY <3>2, <3>3, <3>5, NullsAssumption DEF Indexed, Owed, DocOf
    <3> QED BY <3>2, <3>4, <3>5
  <2> QED BY <2>3, <2>4
<1>4. CurrentRowIndexed'
  BY <1>3 DEF CurrentRowIndexed
<1>5. ASSUME NEW d \in Call, OpOf(d)' = "setPassword", Past(d, "select")'
      PROVE  Indexed(who[d], user[d])'
  <2>1. task' = task /\ OpOf(d) = "setPassword"
    BY <1>1, <1>5, SelectedKept DEF OpOf
  <2>2. CASE who'[d] = who[d] /\ user'[d] = user[d] /\ Past(d, "select")
    <3>1. PICK u, row : u = who[d] /\ row = user[d]
      OBVIOUS
    <3>2. Indexed(u, row)
      BY <2>1, <2>2, <3>1 DEF IndexInv, WritesIndexedRow
    <3>3. Indexed(u, row)'
      BY <3>2, <1>2
    <3> QED BY <2>2, <3>1, <3>3 DEF Indexed, Owed, DocOf
  <2>3. CASE SelectUser(d) /\ Advance(d)
    <3>1. PICK u : u = task[d].user
      OBVIOUS
    <3>2. PICK row : row = Changed(d, rows[u])
      OBVIOUS
    <3>3. /\ u \in Users /\ rows[u] \in Row
          /\ who'[d] = u /\ user'[d] = row
      <4>1. /\ rows[u] # NoRow /\ who' = [who EXCEPT ![d] = u]
            /\ user' = [user EXCEPT ![d] = row]
        BY <1>1, <2>3, <3>1, <3>2, AdvanceOrAnswer DEF SelectUser, IInv
      <4> QED BY <1>1, <4>1, <3>1, RequestType DEF IInv, TypeOK, Users
    <3>4. DocOf(u, row) = DocOf(u, rows[u])
      BY <2>1, <3>2, <3>3, RequestType DEF Changed, DocOf, Row
    <3>5. Indexed(u, rows[u])
      BY <3>3 DEF IndexInv, CurrentRowIndexed
    <3>6. Indexed(u, row)
      BY <3>4, <3>5 DEF Indexed, Owed
    <3>7. Indexed(u, row)'
      BY <3>6, <1>2
    <3> QED BY <3>3, <3>7 DEF Indexed, Owed, DocOf
  <2> QED BY <1>1, <1>5, <2>2, <2>3, SelectedKept
<1> QED BY <1>1, <1>4, <1>5 DEF IndexInv, WritesIndexedRow

\* The stronger invariant holds in every state, too.
THEOREM IndexInvariant == Spec => []IndexInv
<1>1. Init => IndexInv
  <2> SUFFICES ASSUME Init PROVE IndexInv
    OBVIOUS
  <2>1. IInv
    BY InitIInv
  <2>2. Users = Registered /\ \A u \in Registered : rows[u] = RowOf[u]
    BY RowOfAssumption, NullsAssumption DEF Init, Users, User
  <2>3. CurrentRowIndexed
    BY <2>2 DEF Init, CurrentRowIndexed, Indexed
  <2>4. \A c \in Call : \A s : ~Past(c, s)
    BY <2>1, RequestType, PathLength DEF IInv, Past, Init
  <2> QED BY <2>1, <2>3, <2>4 DEF IndexInv, WritesIndexedRow
<1>2. IndexInv /\ [Next]_vars => IndexInv'
  BY NextIndexInv
<1> QED BY <1>1, <1>2, PTL DEF Spec

\* Search finds every user under the current data, unless a call is about to
\* add them or failed to.
THEOREM CurrentRowsAreIndexed == Spec => []CurrentRowIndexed
<1>1. IndexInv => CurrentRowIndexed
  BY DEF IndexInv
<1> QED BY <1>1, IndexInvariant, PTL

-----------------------------------------------------------------------------
(* The table of accounts.                                                    *)

\* A row with an avatar that is there is a registration or a change of row.
LEMMA WriteImplements ==
    ASSUME IInv, NEW u \in User, NEW row \in Row,
           row.avatar \in files \cup {Null},
           u \notin Users => row.avatar = Null,
           rows' = [rows EXCEPT ![u] = row], files' = files
    PROVE  [Table!Next]_(Table!absVars)
<1>1. row # NoRow /\ rows \in [User -> Row \cup {NoRow}]
  BY NullsAssumption DEF IInv, TypeOK
<1>2. \A v \in User : rows'[v] = IF v = u THEN row ELSE rows[v]
  BY <1>1
<1>3. Users' = Users \cup {u}
  BY <1>1, <1>2 DEF Users
<1>4. Avatars' = [Avatars EXCEPT ![u] = row.avatar]
  <2>1. Avatars' = [v \in User |-> IF v \in Users' THEN rows'[v].avatar ELSE Null]
    BY DEF Avatars
  <2>2. \A v \in User : (IF v \in Users' THEN rows'[v].avatar ELSE Null)
                       = IF v = u THEN row.avatar ELSE Avatars[v]
    BY <1>2, <1>3 DEF Avatars
  <2>3. Avatars' = [v \in User |-> IF v = u THEN row.avatar ELSE Avatars[v]]
    BY <2>1, <2>2
  <2> QED BY <2>3 DEF Avatars
<1>5. CASE u \notin Users
  <2>1. Avatars[u] = Null /\ row.avatar = Null
    BY <1>5 DEF Avatars
  <2>2. Avatars' = Avatars
    BY <1>4, <2>1 DEF Avatars
  <2>3. Table!Register(u)
    BY <1>3, <1>5, <2>2 DEF Table!Register
  <2> QED BY <2>3 DEF Table!Next
<1>6. CASE u \in Users
  <2>1. Users' = Users
    BY <1>3, <1>6
  <2>2. CASE row.avatar = Avatars[u]
    <3>1. Avatars' = Avatars
      BY <1>4, <2>2 DEF Avatars
    <3> QED BY <2>1, <3>1 DEF Table!absVars
  <2>3. CASE row.avatar # Avatars[u]
    <3>1. Table!WriteRow(u)
      BY <1>4, <1>6, <2>1, <2>3 DEF Table!WriteRow
    <3> QED BY <3>1 DEF Table!Next
  <2> QED BY <2>2, <2>3
<1> QED BY <1>5, <1>6

\* A step that writes neither rows nor files is invisible.
LEMMA QuietImplements ==
    ASSUME UNCHANGED <<rows, files>>
    PROVE  UNCHANGED Table!absVars
BY DEF Table!absVars, Avatars, Users

\* Every step of the service is a step of the table or changes nothing in it.
LEMMA NextImplements ==
    IInv /\ [Next]_vars => [Table!Next]_(Table!absVars)
<1> SUFFICES ASSUME IInv, [Next]_vars
             PROVE  [Table!Next]_(Table!absVars)
  OBVIOUS
<1>1. ASSUME NEW c \in Call, InsertUser(c)
      PROVE  [Table!Next]_(Table!absVars)
  <2>1. /\ AtStep(c, "insert") /\ Write(c, c, NewRow(c)) /\ c \in User
        /\ files' = files
    BY <1>1 DEF InsertUser, User
  <2>2. OpOf(c) \in Registers
    BY <2>1, PathOrder DEF IInv
  <2>3. NewRow(c) \in Row /\ NewRow(c).avatar = Null
    BY <2>2, NewRowType DEF IInv
  <2>4. rows' = rows \/ rows' = [rows EXCEPT ![c] = NewRow(c)]
    BY <2>1 DEF Write
  <2> QED BY <2>1, <2>3, <2>4, WriteImplements, QuietImplements
<1>2. ASSUME NEW c \in Call, UpdateUser(c)
      PROVE  [Table!Next]_(Table!absVars)
  <2>1. /\ AtStep(c, "update") /\ Write(c, who[c], user[c])
        /\ files' = files
    BY <1>2 DEF UpdateUser
  <2>2. /\ who[c] \in User /\ who[c] \in Users /\ user[c] \in Row
        /\ user[c].avatar \in files \cup {Null}
    BY <2>1, PathOrder DEF IInv, HoldsRow, Users
  <2>3. rows' = rows \/ rows' = [rows EXCEPT ![who[c]] = user[c]]
    BY <2>1 DEF Write
  <2> QED BY <2>1, <2>2, <2>3, WriteImplements, QuietImplements
<1>3. ASSUME NEW c \in Call, PutAvatar(c)
      PROVE  [Table!Next]_(Table!absVars)
  <2>1. /\ AtStep(c, "upload") /\ rows' = rows
        /\ files' = files \/ files' = files \cup {user[c].avatar}
    BY <1>3 DEF PutAvatar
  <2>2. user[c] \in Row /\ user[c].avatar # Null
    BY <2>1, PathOrder DEF IInv, HoldsRow
  <2>3. user[c].avatar \in Call
    BY <2>2 DEF Row
  <2>4. Users' = Users /\ Avatars' = Avatars
    BY <2>1 DEF Users, Avatars
  <2>5. CASE files' = files
    BY <2>1, <2>5, QuietImplements
  <2>6. CASE user[c].avatar \notin files /\ files' = files \cup {user[c].avatar}
    <3>1. Table!Upload(user[c].avatar)
      BY <2>4, <2>6 DEF Table!Upload
    <3> QED BY <2>3, <3>1 DEF Table!Next
  <2>7. files' = files \/ user[c].avatar \notin files
    BY <2>1
  <2> QED BY <2>1, <2>5, <2>6, <2>7
<1>4. ASSUME NEW c \in Call,
             Refuse(c) \/ Succeed(c) \/ CheckFree(c) \/ FindUser(c)
             \/ SelectUser(c) \/ AddData(c) \/ SendCode(c)
             \/ CheckCode(c) \/ DeleteCode(c) \/ CheckOffline(c)
             \/ AddSession(c) \/ AddLoginStatus(c) \/ ExpireCode(c)
             \/ Crash(c)
      PROVE  UNCHANGED <<rows, files>>
  BY <1>4 DEF Refuse, Succeed, CheckFree, FindUser, SelectUser, AddData,
              SendCode, CheckCode, DeleteCode, CheckOffline, AddSession,
              AddLoginStatus, ExpireCode, Crash, stores
<1>5. CASE UNCHANGED vars
  BY <1>5, QuietImplements DEF vars
<1> QED BY <1>1, <1>2, <1>3, <1>4, <1>5, QuietImplements DEF Next, Handle

\* Seen from its readers the service is a table of accounts: users stay and
\* the avatar a row names is always a file, under every failure.
THEOREM ServiceImplementsAccounts == Spec => ImplementsAccounts
<1>1. Init => Table!Init
  <2> SUFFICES ASSUME Init PROVE Table!Init
    OBVIOUS
  <2>1. Users = Registered /\ \A u \in Registered : rows[u] = RowOf[u]
    BY RowOfAssumption, NullsAssumption DEF Init, Users, User
  <2>2. Avatars = [u \in User |-> Null]
    BY <2>1, RowOfAssumption DEF Avatars
  <2> QED BY <2>1, <2>2 DEF Init, Table!Init
<1> QED
  BY <1>1, NextImplements, InductiveInvariant, PTL
     DEF Spec, ImplementsAccounts, Table!Spec
=============================================================================
