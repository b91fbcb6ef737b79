----------------------------- MODULE MsgQueryProof -----------------------------
(* Proofs about MsgQuery, for any messages, users, calls and requests, and   *)
(* for any wall clock that ClockAssumption describes.                        *)
EXTENDS MsgQuery, FiniteSetTheorems, TLAPS

\* Chats are compared on sets of messages, which are finite.
LEMMA InChatFacts ==
    ASSUME NEW c, NEW S \in SUBSET Message
    PROVE  /\ InChat(c, S) \subseteq S
           /\ IsFiniteSet(InChat(c, S))
           /\ Cardinality(InChat(c, S)) \in Nat
<1>1. InChat(c, S) \subseteq S
  BY DEF InChat
<1>2. IsFiniteSet(InChat(c, S))
  BY <1>1, MessageAssumption, FS_Subset
<1> QED
  BY <1>1, <1>2, FS_CardinalityType

\* A row is well formed and has the message it was made from.
LEMMA RowType ==
    ASSUME NEW m \in Message
    PROVE  /\ RowOf(m) \in Row /\ RowOf(m).msg = m
           /\ RowOf(m).createTime = Wall(SentAt[m]) /\ Wall(SentAt[m]) \in Int
           /\ HitOf(m) \in Row /\ HitOf(m).msg = m
  BY MessageAssumption, ClockAssumption DEF RowOf, HitOf, Row

\* What a set of rows in some order looks like.
LEMMA OrdersFacts ==
    ASSUME NEW S \in SUBSET Message, NEW q \in Orders(S)
    PROVE  /\ q \in Seq(Row)
           /\ Len(q) = Cardinality(S)
           /\ Messages(q) = S
           /\ \A i \in DOMAIN q : q[i] = RowOf(q[i].msg) /\ q[i].msg \in S
<1>1. Cardinality(S) \in Nat
  BY MessageAssumption, FS_Subset, FS_CardinalityType
<1>2. q \in [1..Cardinality(S) -> {RowOf(m) : m \in S}] /\ Messages(q) = S
  BY DEF Orders
<1>3. \A i \in DOMAIN q : q[i] = RowOf(q[i].msg) /\ q[i].msg \in S
  BY <1>2, RowType
<1>4. q \in [1..Cardinality(S) -> Row]
  BY <1>2, RowType
<1>5. q \in Seq(Row) /\ Len(q) = Cardinality(S)
  BY <1>1, <1>4
<1> QED
  BY <1>2, <1>3, <1>5

\* std::reverse keeps the rows and turns their order round.
LEMMA ReversedFacts ==
    ASSUME NEW q \in Seq(Row)
    PROVE  /\ Reversed(q) \in Seq(Row)
           /\ Len(Reversed(q)) = Len(q)
           /\ DOMAIN Reversed(q) = DOMAIN q
           /\ \A i \in DOMAIN q : /\ Len(q) + 1 - i \in DOMAIN q
                                  /\ Reversed(q)[i] = q[Len(q) + 1 - i]
           /\ Messages(Reversed(q)) = Messages(q)
<1>1. DOMAIN q = 1..Len(q) /\ Len(q) \in Nat
  OBVIOUS
<1>2. \A i \in DOMAIN q : /\ Len(q) + 1 - i \in DOMAIN q
                          /\ Reversed(q)[i] = q[Len(q) + 1 - i]
  BY <1>1 DEF Reversed
<1>3. DOMAIN Reversed(q) = DOMAIN q
  BY DEF Reversed
<1>4. Reversed(q) \in [1..Len(q) -> Row]
  BY <1>1, <1>2 DEF Reversed
<1>5. Reversed(q) \in Seq(Row) /\ Len(Reversed(q)) = Len(q)
  BY <1>1, <1>4
<1>6. \A i \in DOMAIN q : Reversed(q)[Len(q) + 1 - i] = q[i]
  <2> TAKE i \in DOMAIN q
  <2>1. Len(q) + 1 - (Len(q) + 1 - i) = i
    BY <1>1
  <2> QED
    BY <1>2, <2>1
<1>7. Messages(Reversed(q)) = Messages(q)
  BY <1>2, <1>3, <1>6 DEF Messages
<1> QED
  BY <1>2, <1>3, <1>5, <1>7

\* The query of a history, on the wall clock.
LEMMA HistoryQueried ==
    ASSUME TypeOK, NEW c \in Call, SeenBefore(c), OpOf(c) = "history",
           NEW q \in Queried(c)
    PROVE  /\ q \in Seq(Row) /\ Messages(q) \subseteq stored /\ Promised(c, q)
           /\ \A i \in DOMAIN q : q[i] = RowOf(q[i].msg)
<1>1. q \in Sorted(range(c))
  BY DEF Queried
<1>2. stored \in SUBSET Message /\ before[c] \subseteq stored
  BY DEF TypeOK, SeenBefore
<1>3. range(c) \in SUBSET Message /\ range(c) \subseteq InChat(c, stored)
  BY <1>2, InChatFacts DEF range
<1>4. \A m \in stored : m \in range(c) <=> OnWall(c, m)
  <2> SUFFICES ASSUME NEW m \in stored
               PROVE  m \in range(c) <=> OnWall(c, m)
    OBVIOUS
  <2>1. m \in Message
    BY <1>2
  <2> QED
    BY <2>1, RowType DEF range, InChat, OnWall
<1>5. /\ q \in Orders(range(c))
      /\ \A i, j \in DOMAIN q : i < j => q[i].createTime <= q[j].createTime
  BY <1>1 DEF Sorted
<1>6. /\ q \in Seq(Row) /\ Messages(q) = range(c)
      /\ \A i \in DOMAIN q : q[i] = RowOf(q[i].msg) /\ q[i].msg \in range(c)
  BY <1>3, <1>5, OrdersFacts
<1>7. \A i \in DOMAIN q : q[i].createTime = Wall(SentAt[q[i].msg])
  BY <1>3, <1>6, RowType
<1>8. InOrder(q)
  BY <1>5, <1>7 DEF InOrder
<1>9. Messages(q) \subseteq stored
  BY <1>2, <1>3, <1>6, InChatFacts
<1> QED
  BY <1>2, <1>4, <1>6, <1>8, <1>9 DEF Promised

\* The query of the recent messages, on the wall clock.
LEMMA RecentQueried ==
    ASSUME TypeOK, NEW c \in Call, SeenBefore(c), OpOf(c) = "recent",
           NEW q \in Queried(c)
    PROVE  /\ q \in Seq(Row) /\ Messages(q) \subseteq stored /\ Promised(c, q)
           /\ \A i \in DOMAIN q : q[i] = RowOf(q[i].msg)
<1>0. PICK T \in Selections(c) : \E e \in Descending(T) : q = Reversed(e)
  BY DEF Queried
<1>1. PICK d \in Descending(T) : q = Reversed(d)
  BY <1>0
<1>2. stored \in SUBSET Message /\ before[c] \subseteq stored
  BY DEF TypeOK, SeenBefore
<1> DEFINE S == InChat(c, stored)
<1>3. /\ S \subseteq stored /\ S \in SUBSET Message
      /\ IsFiniteSet(S) /\ Cardinality(S) \in Nat
  BY <1>2, InChatFacts
<1>4. /\ T \subseteq S /\ Newest(S, T)
      /\ Cardinality(T) = Least(Limit(c), Cardinality(S))
  BY DEF Selections
<1>5. /\ d \in Orders(T)
      /\ \A i, j \in DOMAIN d : i < j => d[j].createTime <= d[i].createTime
  BY DEF Descending
<1>6. T \in SUBSET Message
  BY <1>3, <1>4
<1>7. /\ d \in Seq(Row) /\ Len(d) = Cardinality(T) /\ Messages(d) = T
      /\ \A i \in DOMAIN d : d[i] = RowOf(d[i].msg) /\ d[i].msg \in T
  BY <1>5, <1>6, OrdersFacts
<1>8. \A i \in DOMAIN d : d[i].createTime = Wall(SentAt[d[i].msg])
  BY <1>6, <1>7, RowType
<1>9. /\ q \in Seq(Row) /\ Len(q) = Cardinality(T) /\ Messages(q) = T
      /\ DOMAIN q = DOMAIN d /\ DOMAIN d = 1..Len(d) /\ Len(d) \in Nat
      /\ \A i \in DOMAIN q : Len(d) + 1 - i \in DOMAIN d /\ q[i] = d[Len(d) + 1 - i]
  BY <1>1, <1>7, ReversedFacts
<1>10. \A i \in DOMAIN q : q[i] = RowOf(q[i].msg)
  BY <1>7, <1>9
<1>11. InOrder(q)
  <2> SUFFICES ASSUME NEW i \in DOMAIN q, NEW j \in DOMAIN q, i < j
               PROVE  Wall(SentAt[q[i].msg]) <= Wall(SentAt[q[j].msg])
    BY DEF InOrder
  <2>1. Len(d) + 1 - j < Len(d) + 1 - i
    BY <1>9
  <2> QED
    BY <2>1, <1>5, <1>8, <1>9
<1>12. ASSUME NEW k \in S \ T
       PROVE  /\ Len(q) = Limit(c)
              /\ \A m \in T : Wall(SentAt[k]) <= Wall(SentAt[m])
  <2>1. Cardinality(T) # Cardinality(S)
    BY <1>3, <1>4, FS_Subset
  <2>2. Cardinality(T) = Limit(c)
    BY <2>1, <1>4 DEF Least
  <2>3. \A m \in T : RowOf(k).createTime <= RowOf(m).createTime
    BY <1>4 DEF Newest
  <2> QED
    BY <2>2, <2>3, <1>3, <1>6, <1>9, RowType
<1>13. InChat(c, before[c]) \subseteq S
  BY <1>2 DEF InChat
<1>14. Messages(q) \subseteq stored
  BY <1>3, <1>4, <1>9
<1> QED
  BY <1>9, <1>10, <1>11, <1>12, <1>13, <1>14 DEF Promised

\* The query of a search: hits are messages that passed msgTransmit.
LEMMA SearchQueried ==
    ASSUME TypeOK, NEW c \in Call, OpOf(c) = "search", NEW q \in Queried(c)
    PROVE  /\ q \in Seq(Row) /\ Messages(q) \subseteq sent /\ Promised(c, q)
           /\ \A i \in DOMAIN q : q[i] = HitOf(q[i].msg)
<1>1. q \in Page(c)
  BY DEF Queried
<1> DEFINE S == Candidates(c)
<1>2. S \subseteq indexed /\ S \in SUBSET Message /\ indexed \subseteq sent
  BY DEF Candidates, InChat, TypeOK
<1>3. Cardinality(S) \in Nat
  BY <1>2, MessageAssumption, FS_Subset, FS_CardinalityType
<1>4. Least(MaxHits, Cardinality(S)) \in Nat
  BY <1>3, FaultAssumption DEF Least
<1>5. q \in [1..Least(MaxHits, Cardinality(S)) -> {HitOf(m) : m \in S}]
  BY <1>1 DEF Page
<1>6. \A i \in DOMAIN q : q[i] = HitOf(q[i].msg) /\ q[i].msg \in S
  BY <1>2, <1>5, RowType
<1>7. q \in [1..Least(MaxHits, Cardinality(S)) -> Row]
  BY <1>2, <1>5, RowType
<1>8. q \in Seq(Row)
  BY <1>4, <1>7
<1>9. Messages(q) \subseteq sent
  BY <1>2, <1>6 DEF Messages
<1> QED
  BY <1>6, <1>8, <1>9 DEF Promised, Searches

-----------------------------------------------------------------------------
(* The invariant.                                                            *)

\* What the invariant says of the steps of one call.
CallInv(c) == Phases(c) /\ Known(c) /\ TimesMatch(c) /\ PromiseKept(c)

\* The state of call d stays as it is.
Rests(d) ==
    /\ step'[d] = step[d] /\ found'[d] = found[d] /\ shown'[d] = shown[d]
    /\ answer'[d] = answer[d] /\ result'[d] = result[d]
    /\ before'[d] = before[d] /\ earlier'[d] = earlier[d]
    /\ (d \in hit' <=> d \in hit)

\* Messages and files stay.
Grows ==
    /\ sent \subseteq sent' /\ stored \subseteq stored'
    /\ files \subseteq files' /\ task' = task

\* A call that rests keeps its part of the invariant.
LEMMA CallRests ==
    ASSUME NEW d \in Call, Grows, Rests(d), CallInv(d)
    PROVE  CallInv(d)'
<1> USE DEF Grows, Rests, CallInv
<1>1. Phases(d)'
  BY DEF Phases
<1>2. Known(d)'
  BY DEF Known, Messages
<1>3. TimesMatch(d)'
  BY DEF TimesMatch, Searches, OpOf, HitOf, RowOf
<1>4. PromiseKept(d)'
  <2>1. ASSUME Promised(d, found[d]) PROVE Promised(d, found[d])'
    BY <2>1 DEF Promised, Searches, OpOf, InChat, OnWall, Limit, InOrder, Messages
  <2>2. ASSUME Promised(d, answer[d]) PROVE Promised(d, answer[d])'
    BY <2>2 DEF Promised, Searches, OpOf, InChat, OnWall, Limit, InOrder, Messages
  <2> QED
    BY <2>1, <2>2 DEF PromiseKept
<1> QED
  BY <1>1, <1>2, <1>3, <1>4

\* What call d has seen stays seen, when answers stay.
LEMMA SeenStays ==
    ASSUME NEW d \in Call, Grows, before'[d] = before[d],
           earlier'[d] = earlier[d], earlier[d] \subseteq Call,
           \A c \in Call : Answered(c) => result'[c] = "ok" /\ answer'[c] = answer[c],
           SeenBefore(d)
    PROVE  SeenBefore(d)'
  BY DEF SeenBefore, Grows, Answered, Searches, OpOf, Messages

\* A step of one call leaves the others alone.
LEMMA OneCall ==
    ASSUME IInv, TypeOK', UNCHANGED <<log, accounts, task>>, NEW c \in Call,
           \A d \in Call \ {c} : Rests(d),
           ~ Answered(c), CallInv(c)', before'[c] = before[c],
           earlier'[c] = earlier[c],
           torn \ {c} \subseteq torn',
           result'[c] = "error" =>
               \/ c \in hit' \/ c \in torn'
               \/ step'[c] = "check" /\ task[c].requester \notin Early
    PROVE  IInv'
<1>1. Grows
  BY DEF Grows, log, accounts
<1>2. \A d \in Call : CallInv(d)'
  <2> SUFFICES ASSUME NEW d \in Call, d # c PROVE CallInv(d)'
    OBVIOUS
  <2>1. CallInv(d)
    BY DEF IInv, CallInv
  <2> QED
    BY <1>1, <2>1, CallRests
<1>3. \A d \in Call : before'[d] = before[d] /\ earlier'[d] = earlier[d]
  BY DEF Rests
<1>4. \A d \in Call : Answered(d) => result'[d] = "ok" /\ answer'[d] = answer[d]
  BY DEF Answered, Rests
<1>5. \A d \in Call : earlier[d] \subseteq Call /\ SeenBefore(d)
  BY DEF IInv, TypeOK
<1>6. \A d \in Call : SeenBefore(d)'
  BY <1>1, <1>3, <1>4, <1>5, SeenStays
<1>7. RefusedForCause'
  <2> SUFFICES ASSUME NEW d \in Call, d # c, result'[d] = "error"
               PROVE  \/ d \in hit' \/ d \in torn'
                      \/ step'[d] = "check" /\ task'[d].requester \notin Early
    BY DEF RefusedForCause
  <2> QED
    BY DEF IInv, RefusedForCause, Rests
<1> QED
  BY <1>2, <1>6, <1>7 DEF IInv, CallInv, log, accounts

\* The initial states satisfy the invariant.
LEMMA InitIInv == Init => IInv
<1> SUFFICES ASSUME Init PROVE IInv
  OBVIOUS
<1>1. TypeOK
  BY EarlyAssumption DEF Init, UserTable!Init, TypeOK, Step
<1>2. \A c \in Call : CallInv(c) /\ SeenBefore(c)
  BY DEF Init, CallInv, Phases, Known, TimesMatch, PromiseKept, SeenBefore, Messages
<1> QED
  BY <1>1, <1>2 DEF Init, UserTable!Init, IInv, CallInv, RefusedForCause

\* The other services keep the invariant.
LEMMA ServicesIInv ==
    ASSUME IInv, Services
    PROVE  IInv'
<1> USE DEF log, accounts, calls
<1>1. /\ UNCHANGED <<step, found, shown, answer, result, hit, before, earlier>>
      /\ torn \subseteq torn' /\ Grows /\ users \subseteq users'
      /\ TypeOK' /\ (\A m \in sent' : SenderOf[m] \in users')
      /\ \A u \in User : avatar'[u] \in files' \cup {NoAvatar}
  <2>1. CASE AccountStep
    <3>1. UNCHANGED <<log, calls>> /\ TypeOK
      BY <2>1 DEF AccountStep, IInv
    <3>2. ASSUME NEW u \in User, UserTable!Register(u)
          PROVE  /\ files' = files /\ avatar' = avatar
                 /\ users \subseteq users' /\ users' \subseteq User
      BY <3>1, <3>2 DEF UserTable!Register, TypeOK
    <3>3. ASSUME NEW u \in User, UserTable!WriteRow(u)
          PROVE  /\ files' = files /\ users' = users
                 /\ \E a \in files \cup {NoAvatar} : avatar' = [avatar EXCEPT ![u] = a]
      BY <3>3 DEF UserTable!WriteRow
    <3>4. /\ files' = files
          /\ users \subseteq users' /\ users' \subseteq User
          /\ avatar' \in [User -> Avatar \cup {NoAvatar}]
          /\ \A u \in User : avatar'[u] \in files' \cup {NoAvatar}
      BY <2>1, <3>1, <3>2, <3>3 DEF AccountStep, IInv, TypeOK
    <3> QED
      BY <3>1, <3>4 DEF Grows, TypeOK, IInv
  <2>2. CASE \E m \in Message : GetTransmitTarget(m) \/ Store(m) \/ Index(m)
    BY <2>2 DEF GetTransmitTarget, KnownSender, Store, Index, Grows, IInv, TypeOK
  <2>3. ASSUME NEW a \in Avatar, PutAvatar(a)
        PROVE  /\ UNCHANGED <<step, found, shown, answer, result, hit, before,
                              earlier, task, sent, stored, indexed, users, avatar>>
               /\ files' = files \cup {a}
               /\ torn \subseteq torn' /\ torn' \subseteq torn \cup Call
    BY <2>3 DEF PutAvatar, UserTable!Upload
  <2>4. CASE \E a \in Avatar : PutAvatar(a)
    BY <2>3, <2>4 DEF Grows, IInv, TypeOK
  <2> QED
    BY <2>1, <2>2, <2>4 DEF Services
<1>5. \A d \in Call : Rests(d)
  BY <1>1 DEF Rests, calls
<1>6. \A d \in Call : CallInv(d)'
  BY <1>1, <1>5, CallRests DEF IInv, CallInv
<1>7. \A d \in Call : SeenBefore(d)'
  <2>1. \A d \in Call : earlier[d] \subseteq Call /\ SeenBefore(d)
    BY DEF IInv, TypeOK
  <2>2. \A d \in Call : Answered(d) => result'[d] = "ok" /\ answer'[d] = answer[d]
    BY <1>1 DEF calls, Answered
  <2> QED
    BY <1>1, <1>5, <2>1, <2>2, SeenStays DEF Rests
<1>8. RefusedForCause'
  BY <1>1 DEF Grows, IInv, RefusedForCause
<1> QED
  BY <1>1, <1>6, <1>7, <1>8 DEF IInv, CallInv

\* Each step of a call keeps the invariant.
LEMMA HandleIInv ==
    ASSUME IInv, NEW c \in Call, Handle(c)
    PROVE  IInv'
<1> USE DEF log, accounts, calls
<1>1. /\ TypeOK /\ CallInv(c) /\ SeenBefore(c) /\ RefusedForCause
      /\ \A m \in sent : SenderOf[m] \in users
      /\ \A u \in User : avatar[u] \in files \cup {NoAvatar}
      /\ Early \subseteq users
      /\ result[c] = "none" => ~ Answered(c)
  BY DEF IInv, CallInv, Answered
<1>2. /\ answer[c] \in Seq(Info) /\ found[c] \in Seq(Row)
      /\ task[c] \in Request /\ earlier[c] \subseteq Call
  BY <1>1, RequestsAssumption DEF TypeOK
<1>3. CASE Arrive(c)
  <2>1. TypeOK'
    BY <1>1, <1>3 DEF Arrive, Running, Goto, TypeOK, Step
  <2>2. \A d \in Call \ {c} : Rests(d)
    BY <1>1, <1>3 DEF Arrive, Running, Goto, TypeOK, Rests
  <2>3. /\ step'[c] = "check" /\ result'[c] = "none" /\ found' = found
        /\ shown' = shown /\ answer' = answer /\ hit' = hit /\ torn' = torn
        /\ step[c] = "idle" /\ result[c] = "none"
        /\ before'[c] = stored
        /\ earlier'[c] = {d \in Call : Answered(d)}
        /\ UNCHANGED <<log, accounts, task>>
    BY <1>1, <1>3 DEF Arrive, Running, Goto, TypeOK, Answered
  <2>4. CallInv(c)'
    BY <1>1, <2>3 DEF CallInv, Phases, Known, TimesMatch, PromiseKept, Searches,
       OpOf, HitOf, RowOf
  <2>5. Grows /\ \A d \in Call : Answered(d) => result'[d] = "ok" /\ answer'[d] = answer[d]
    BY <2>2, <2>3 DEF Grows, Rests, Answered, CallInv, Phases
  <2>6. \A d \in Call \ {c} : CallInv(d)' /\ SeenBefore(d)'
    <3> SUFFICES ASSUME NEW d \in Call \ {c} PROVE CallInv(d)' /\ SeenBefore(d)'
      OBVIOUS
    <3>1. CallInv(d) /\ SeenBefore(d) /\ Rests(d) /\ earlier[d] \subseteq Call
      BY <2>2 DEF IInv, CallInv, TypeOK
    <3> QED
      BY <2>5, <3>1, CallRests, SeenStays DEF Rests
  <2>7. SeenBefore(c)'
    <3>1. ASSUME NEW d \in Call, Answered(d), ~ Searches(d)
          PROVE  Messages(answer[d]) \subseteq stored
      <4>1. Phases(d) /\ PromiseKept(d)
        BY DEF IInv
      <4> QED
        BY <3>1, <4>1 DEF Phases, PromiseKept, Promised, Answered, Messages
    <3> QED
      BY <2>3, <2>5, <3>1 DEF SeenBefore, Answered, Searches, OpOf, Messages
  <2>8. RefusedForCause'
    BY <1>1, <2>2, <2>3 DEF RefusedForCause, Rests
  <2> QED
    BY <1>1, <2>1, <2>3, <2>4, <2>6, <2>7, <2>8 DEF IInv, CallInv
<1>4. CASE Unavailable(c)
  <2>1. TypeOK'
    BY <1>1, <1>4 DEF Unavailable, Running, Fail, TypeOK, Step
  <2>2. \A d \in Call \ {c} : Rests(d)
    BY <1>1, <1>4 DEF Unavailable, Running, Fail, TypeOK, Rests
  <2>3. /\ step' = step /\ result'[c] = "error" /\ found'[c] = <<>>
        /\ shown'[c] = {} /\ answer' = answer /\ hit' = hit \cup {c}
        /\ torn' = torn
        /\ step[c] \in {"check", "avatar", "users", "files"} /\ result[c] = "none"
        /\ before' = before /\ earlier' = earlier
        /\ UNCHANGED <<log, accounts, task>>
    BY <1>1, <1>4 DEF Unavailable, Running, Fail, TypeOK
  <2>4. CallInv(c)'
    BY <1>1, <2>3 DEF CallInv, Phases, Known, TimesMatch, PromiseKept, Searches,
       OpOf, Messages
  <2> QED
    BY <1>1, <2>1, <2>2, <2>3, <2>4, OneCall
<1>5. CASE checkRequester(c)
  <2> DEFINE u == task[c].requester
  <2>1. /\ found' = found /\ answer' = answer /\ hit' = hit /\ torn' = torn
        /\ step[c] = "check" /\ result[c] = "none"
        /\ before' = before /\ earlier' = earlier
        /\ UNCHANGED <<log, accounts, task>>
    BY <1>5 DEF checkRequester, Running
  <2>2. CASE u = Nobody /\ Goto(c, "query") /\ UNCHANGED shown
    <3>1. step' = [step EXCEPT ![c] = "query"] /\ result' = result /\ shown' = shown
      BY <2>2 DEF Goto
    <3>2. TypeOK' /\ \A d \in Call \ {c} : Rests(d)
      BY <1>1, <2>1, <3>1 DEF TypeOK, Step, Rests
    <3>3. CallInv(c)'
      BY <1>1, <2>1, <3>1 DEF TypeOK, CallInv, Phases, Known, TimesMatch, PromiseKept,
         Searches, OpOf, HitOf, RowOf
    <3> QED
      BY <1>1, <2>1, <3>1, <3>2, <3>3, OneCall
  <2>3. CASE /\ u \in users
             /\ Goto(c, IF AvatarOf(u) = {} THEN "query" ELSE "avatar")
             /\ shown' = [shown EXCEPT ![c] = AvatarOf(u)]
    <3>1. /\ step' = [step EXCEPT ![c] = IF AvatarOf(u) = {} THEN "query" ELSE "avatar"]
          /\ result' = result
      BY <2>3 DEF Goto
    <3>2. AvatarOf(u) \subseteq files /\ AvatarOf(u) \subseteq Avatar
      BY <1>1, <2>3 DEF AvatarOf, TypeOK
    <3> HIDE DEF u
    <3>3. TypeOK' /\ \A d \in Call \ {c} : Rests(d)
      BY <1>1, <2>1, <2>3, <3>1, <3>2 DEF TypeOK, Step, Rests
    <3>4. /\ step'[c] \in {"query", "avatar"} /\ shown'[c] = AvatarOf(u)
          /\ step'[c] # "avatar" => shown'[c] = {}
      BY <1>1, <2>3, <3>1 DEF TypeOK
    <3>5. CallInv(c)'
      BY <1>1, <2>1, <3>1, <3>2, <3>4 DEF CallInv, Phases, Known, TimesMatch,
         PromiseKept, Searches, OpOf, HitOf, RowOf
    <3> QED
      BY <1>1, <2>1, <3>1, <3>3, <3>5, OneCall
  <2>4. CASE u \notin users \cup {Nobody} /\ Fail(c) /\ UNCHANGED shown
    <3>1. result' = [result EXCEPT ![c] = "error"] /\ step' = step /\ shown' = shown
      BY <2>4 DEF Fail
    <3>2. TypeOK' /\ \A d \in Call \ {c} : Rests(d)
      BY <1>1, <2>1, <3>1 DEF TypeOK, Rests
    <3>3. CallInv(c)'
      BY <1>1, <2>1, <3>1 DEF TypeOK, CallInv, Phases, Known, TimesMatch, PromiseKept,
         Searches, OpOf, HitOf, RowOf
    <3>4. step'[c] = "check" /\ task[c].requester \notin Early
      BY <1>1, <2>1, <2>4, <3>1
    <3> QED
      BY <1>1, <2>1, <3>1, <3>2, <3>3, <3>4, OneCall
  <2> QED
    BY <1>5, <2>2, <2>3, <2>4 DEF checkRequester
<1>6. CASE Query(c)
  <2>1. PICK q \in Queried(c) : Found(c, q)
    BY <1>6 DEF Query
  <2>2. /\ q \in Seq(Row) /\ Promised(c, q) /\ Messages(q) \subseteq sent
        /\ \A i \in DOMAIN q :
              q[i] = IF Searches(c) THEN HitOf(q[i].msg) ELSE RowOf(q[i].msg)
    <3>1. OpOf(c) \in {"history", "recent", "search"} /\ stored \subseteq sent
      BY <1>1, <1>2 DEF Request, OpOf, TypeOK
    <3> QED
      BY <1>1, <3>1, HistoryQueried, RecentQueried, SearchQueried DEF Searches
  <2>3. TypeOK'
    BY <1>1, <1>6, <2>1, <2>2 DEF Query, Found, Running, Goto, TypeOK, Step
  <2>4. \A d \in Call \ {c} : Rests(d)
    BY <1>1, <1>6, <2>1 DEF Query, Found, Running, Goto, TypeOK, Rests
  <2>5. /\ step'[c] \in {"users", "fill"} /\ result' = result /\ found'[c] = q
        /\ shown' = shown /\ answer' = answer /\ hit' = hit /\ torn' = torn
        /\ step[c] = "query" /\ result[c] = "none"
        /\ before' = before /\ earlier' = earlier
        /\ UNCHANGED <<log, accounts, task>>
    BY <1>1, <1>6, <2>1 DEF Query, Found, Running, Goto, TypeOK
  <2>6. c \notin hit
    BY <1>1, <2>5 DEF CallInv, Phases
  <2>7. Phases(c)' /\ Known(c)' /\ TimesMatch(c)'
    BY <1>1, <2>2, <2>5, <2>6 DEF CallInv, Phases, Known, TimesMatch, Searches,
       OpOf, HitOf, RowOf, Messages
  <2>8. PromiseKept(c)'
    BY <2>2, <2>5 DEF PromiseKept, Promised, Searches, OpOf, InChat, OnWall,
       Limit, InOrder, Messages
  <2> QED
    BY <1>1, <2>3, <2>4, <2>5, <2>7, <2>8, OneCall DEF CallInv
<1>7. CASE QueryFails(c)
  <2>1. TypeOK'
    BY <1>1, <1>7 DEF QueryFails, Found, Running, Goto, TypeOK, Step
  <2>2. \A d \in Call \ {c} : Rests(d)
    BY <1>1, <1>7 DEF QueryFails, Found, Running, Goto, TypeOK, Rests
  <2>3. /\ step'[c] = "fill" /\ result' = result /\ found'[c] = <<>>
        /\ shown' = shown /\ answer' = answer /\ hit' = hit \cup {c}
        /\ torn' = torn /\ step[c] = "query" /\ result[c] = "none"
        /\ before' = before /\ earlier' = earlier
        /\ UNCHANGED <<log, accounts, task>>
    BY <1>1, <1>7 DEF QueryFails, Found, Running, Goto, TypeOK
  <2>4. CallInv(c)'
    BY <1>1, <2>3 DEF CallInv, Phases, Known, TimesMatch, PromiseKept, Searches,
       OpOf, Messages
  <2> QED
    BY <1>1, <2>1, <2>2, <2>3, <2>4, OneCall
<1>8. CASE SelectUsers(c)
  <2>0. Senders(c) \subseteq users /\ Senders(c) \subseteq User
    BY <1>1 DEF Senders, CallInv, Known, TypeOK
  <2>1. Senders(c) \cap users = Senders(c)
    BY <2>0
  <2>2. /\ step' = [step EXCEPT ![c] = "files"] /\ result' = result
        /\ shown' = [shown EXCEPT ![c] = UNION {AvatarOf(u) : u \in Senders(c)}]
        /\ UNCHANGED <<log, accounts, found, answer, hit, torn, before, earlier, task>>
        /\ step[c] = "users" /\ result[c] = "none"
    BY <1>8, <2>1 DEF SelectUsers, Asked, Running, Goto
  <2>9. UNION {AvatarOf(u) : u \in Senders(c)} \subseteq files \cap Avatar
    <3>1. \A u \in Senders(c) : AvatarOf(u) \subseteq files \cap Avatar
      BY <1>1, <2>0 DEF TypeOK, AvatarOf
    <3> QED
      BY <3>1
  <2>3. TypeOK'
    BY <1>1, <2>2, <2>9 DEF TypeOK, Step
  <2>4. \A d \in Call \ {c} : Rests(d)
    BY <1>1, <2>2 DEF TypeOK, Rests
  <2>5. step'[c] = "files" /\ shown'[c] \subseteq files
    BY <1>1, <2>2, <2>9 DEF TypeOK
  <2>6. Phases(c)' /\ Known(c)' /\ TimesMatch(c)'
    BY <1>1, <2>2, <2>5 DEF CallInv, Phases, Known, TimesMatch, Searches,
       OpOf, HitOf, RowOf, Messages
  <2>7. PromiseKept(c)'
    BY <1>1, <2>2, <2>5 DEF CallInv, PromiseKept, Promised, Searches, OpOf,
       InChat, OnWall, Limit, InOrder, Messages
  <2> QED
    BY <1>1, <2>2, <2>3, <2>4, <2>6, <2>7, OneCall DEF CallInv
<1>9. ASSUME NEW next \in {"query", "fill"}, FetchAvatars(c, next), result[c] = "none",
             \/ step[c] = "avatar" /\ next = "query"
             \/ step[c] = "files" /\ next = "fill"
      PROVE  IInv'
  <2>1. shown[c] \subseteq files
    BY <1>1 DEF CallInv, Known
  <2>2. /\ shown' = [shown EXCEPT ![c] = {}]
        /\ UNCHANGED <<log, accounts, found, answer, hit, before, earlier, task>>
    BY <1>9 DEF FetchAvatars
  <2>3. \/ /\ step' = [step EXCEPT ![c] = next] /\ result' = result
           /\ torn' = torn \ {c}
        \/ /\ result' = [result EXCEPT ![c] = "error"] /\ step' = step
           /\ torn' = torn /\ c \in torn
    BY <1>9, <2>1 DEF FetchAvatars, Goto, Fail
  <2>4. TypeOK'
    BY <1>1, <1>9, <2>2, <2>3 DEF TypeOK, Step
  <2>5. \A d \in Call \ {c} : Rests(d)
    BY <1>1, <2>2, <2>3 DEF TypeOK, Rests
  <2>6. /\ shown'[c] = {}
        /\ \/ step'[c] = next /\ result'[c] = "none"
           \/ step'[c] = step[c] /\ result'[c] = "error" /\ c \in torn'
    BY <1>1, <1>9, <2>2, <2>3 DEF TypeOK
  <2>7. Phases(c)' /\ Known(c)' /\ TimesMatch(c)'
    BY <1>1, <1>9, <2>2, <2>6 DEF CallInv, Phases, Known, TimesMatch, Searches,
       OpOf, HitOf, RowOf, Messages
  <2>8. PromiseKept(c)'
    BY <1>1, <1>9, <2>2, <2>6 DEF CallInv, PromiseKept, Promised, Searches, OpOf,
       InChat, OnWall, Limit, InOrder, Messages
  <2>9. torn \ {c} \subseteq torn'
    BY <2>3
  <2> QED
    BY <1>1, <1>9, <2>2, <2>4, <2>5, <2>6, <2>7, <2>8, <2>9, OneCall DEF CallInv
<1>11. CASE GetAvatar(c)
  BY <1>9, <1>11 DEF GetAvatar, Running
<1>12. CASE GetAvatars(c)
  BY <1>9, <1>12 DEF GetAvatars, Running
<1>10. CASE fillSuccessResponse(c)
  <2> DEFINE a == [i \in DOMAIN found[c] |->
                      [msg |-> found[c][i].msg, time |-> TimeOf(found[c][i])]]
  <2>1. /\ step' = [step EXCEPT ![c] = "done"]
        /\ result' = [result EXCEPT ![c] = "ok"]
        /\ answer' = [answer EXCEPT ![c] = a]
        /\ found' = [found EXCEPT ![c] = <<>>]
        /\ UNCHANGED <<log, accounts, shown, hit, torn, before, earlier, task>>
        /\ step[c] = "fill" /\ result[c] = "none"
    BY <1>10 DEF fillSuccessResponse, Running
  <2>2. DOMAIN found[c] = 1..Len(found[c]) /\ Len(found[c]) \in Nat
    BY <1>2
  <2>3. ASSUME NEW i \in DOMAIN found[c]
        PROVE  /\ found[c][i].msg \in Message
               /\ TimeOf(found[c][i]) \in Int
               /\ ~ Searches(c) =>
                     TimeOf(found[c][i]) = MkTime(Wall(SentAt[found[c][i].msg]))
    <3> DEFINE m == found[c][i].msg
    <3>1. found[c][i] \in Row
      BY <1>2
    <3>2. m \in Message
      BY <3>1 DEF Row
    <3>3. SentAt[m] \in Time
      BY <3>2, MessageAssumption
    <3>4. MkTime(SentAt[m]) \in Int /\ MkTime(Wall(SentAt[m])) \in Int
      BY <3>3, ClockAssumption
    <3>5. found[c][i] = IF Searches(c) THEN HitOf(m) ELSE RowOf(m)
      BY <1>1 DEF CallInv, TimesMatch
    <3>6. found[c][i].createTime = IF Searches(c) THEN SentAt[m] ELSE Wall(SentAt[m])
      BY <3>5 DEF HitOf, RowOf
    <3> QED
      BY <3>2, <3>4, <3>6 DEF TimeOf
  <2>4. a \in [1..Len(found[c]) -> Info]
    BY <2>2, <2>3 DEF Info
  <2>5. a \in Seq(Info) /\ Len(a) = Len(found[c]) /\ DOMAIN a = DOMAIN found[c]
    BY <2>2, <2>4
  <2>6. TypeOK'
    BY <1>1, <2>1, <2>5 DEF TypeOK, Step
  <2>7. \A d \in Call \ {c} : Rests(d)
    BY <1>1, <2>1 DEF TypeOK, Rests
  <2>8. /\ step'[c] = "done" /\ result'[c] = "ok" /\ answer'[c] = a
        /\ found'[c] = <<>>
    BY <1>1, <2>1 DEF TypeOK
  <2>9. \A i \in DOMAIN a : a[i].msg = found[c][i].msg /\ a[i].time = TimeOf(found[c][i])
    BY <2>5
  <2> HIDE DEF a
  <2>10. Messages(a) = Messages(found[c])
    BY <2>5, <2>9 DEF Messages
  <2>11. c \in hit => found[c] = <<>> /\ a = <<>>
    BY <1>1, <2>1, <2>5 DEF CallInv, Phases
  <2>12. Phases(c)' /\ Known(c)'
    BY <1>1, <2>1, <2>8, <2>11 DEF CallInv, Phases, Known, Messages
  <2>13. ~ Searches(c) => \A i \in DOMAIN a : a[i].time = MkTime(Wall(SentAt[a[i].msg]))
    BY <2>3, <2>5, <2>9
  <2>14. TimesMatch(c)'
    BY <2>1, <2>8, <2>13 DEF TimesMatch, Searches, OpOf, HitOf, RowOf
  <2>15. c \notin hit => Promised(c, a)
    <3>1. c \notin hit => Promised(c, found[c])
      BY <1>1, <2>1 DEF CallInv, PromiseKept
    <3> QED
      BY <3>1, <2>5, <2>9, <2>10 DEF Promised, InOrder
  <2>16. PromiseKept(c)'
    BY <2>1, <2>8, <2>15 DEF PromiseKept, Promised, Searches, OpOf, InChat,
       OnWall, Limit, InOrder, Messages
  <2> QED
    BY <1>1, <2>1, <2>6, <2>7, <2>8, <2>12, <2>14, <2>16, OneCall DEF CallInv
<1> QED
  BY <1>3, <1>4, <1>5, <1>6, <1>7, <1>8, <1>10, <1>11, <1>12 DEF Handle

\* The invariant holds in every reachable state.
THEOREM Invariance == Spec => []IInv
<1>1. IInv /\ [Next]_vars => IInv'
  <2> SUFFICES ASSUME IInv, [Next]_vars PROVE IInv'
    OBVIOUS
  <2>1. CASE Services
    BY <2>1, ServicesIInv
  <2>2. ASSUME NEW c \in Call, Handle(c) PROVE IInv'
    BY <2>2, HandleIInv
  <2>3. CASE UNCHANGED vars
    <3> USE <2>3 DEF vars, log, accounts, calls
    <3>1. TypeOK' /\ RefusedForCause'
      BY DEF IInv, TypeOK, RefusedForCause
    <3>2. Grows /\ \A d \in Call : Rests(d)
      BY DEF Grows, Rests
    <3>3. \A d \in Call : CallInv(d)'
      BY <3>2, CallRests DEF IInv, CallInv
    <3>4. \A d \in Call : SeenBefore(d)'
      <4>1. \A d \in Call : earlier[d] \subseteq Call /\ SeenBefore(d)
        BY DEF IInv, TypeOK
      <4>2. \A d \in Call : Answered(d) => result'[d] = "ok" /\ answer'[d] = answer[d]
        BY DEF Answered
      <4> QED
        BY <3>2, <4>1, <4>2, SeenStays DEF Rests
    <3> QED
      BY <3>1, <3>3, <3>4 DEF IInv, CallInv
  <2> QED
    BY <2>1, <2>2, <2>3 DEF Next
<1> QED
  BY <1>1, InitIInv, PTL DEF Spec

-----------------------------------------------------------------------------
(* The properties.                                                           *)

\* On a clock that is never set back readings are as good as times.
LEMMA SteadyReadings ==
    ASSUME SteadyClock, NEW s \in Time, NEW t \in Time
    PROVE  /\ Wall(s) <= Wall(t) <=> s <= t
           /\ MkTime(Wall(t)) = t
<1>1. /\ s \in Int /\ t \in Int /\ Wall(s) \in Int /\ Wall(t) \in Int
      /\ MkTime(Wall(t)) \in Time /\ MkTime(Wall(t)) \in Int
      /\ Wall(MkTime(Wall(t))) = Wall(t)
  BY ClockAssumption
<1>2. /\ s < t => Wall(s) < Wall(t)
      /\ t < s => Wall(t) < Wall(s)
  BY DEF SteadyClock
<1>3. /\ MkTime(Wall(t)) < t => Wall(MkTime(Wall(t))) < Wall(t)
      /\ t < MkTime(Wall(t)) => Wall(t) < Wall(MkTime(Wall(t)))
  BY <1>1 DEF SteadyClock
<1>4. Wall(s) <= Wall(t) <=> s <= t
  BY <1>1, <1>2
<1>5. MkTime(Wall(t)) = t
  BY <1>1, <1>3
<1> QED
  BY <1>4, <1>5

\* An answered call whose query did not fail keeps the promise of its query.
LEMMA AnswerPromised ==
    ASSUME IInv, NEW c \in Call, Answered(c)
    PROVE  /\ ~ FailedQuery(c) => Promised(c, answer[c])
           /\ ~ Searches(c) => /\ Messages(answer[c]) \subseteq stored
                               /\ InOrder(answer[c])
           /\ task[c] \in Request /\ answer[c] \in Seq(Info)
<1>1. Phases(c) /\ PromiseKept(c)
  BY DEF IInv
<1>2. c \notin hit => Promised(c, answer[c])
  BY <1>1 DEF Phases, PromiseKept, Answered
<1>3. c \in hit => answer[c] = <<>>
  BY <1>1 DEF Phases, Answered
<1>4. task[c] \in Request /\ answer[c] \in Seq(Info)
  BY RequestsAssumption DEF IInv, TypeOK
<1> QED
  BY <1>2, <1>3, <1>4 DEF FailedQuery, Promised, Messages, InOrder

\* Histories are whole, when the clock of the server's wall is never set back.
THEOREM HistoriesAreWhole ==
    ASSUME SteadyClock
    PROVE  Spec => []HistoryIsWhole
<1>1. IInv => HistoryIsWhole
  <2> SUFFICES ASSUME IInv, NEW c \in Call, Answered(c), OpOf(c) = "history",
                      ~ FailedQuery(c)
               PROVE  /\ \A m \in Messages(answer[c]) :
                            m \in InChat(c, stored) /\ Within(c, SentAt[m])
                      /\ \A m \in InChat(c, before[c]) :
                            Within(c, SentAt[m]) => m \in Messages(answer[c])
    BY DEF HistoryIsWhole
  <2>1. /\ Messages(answer[c]) \subseteq stored
        /\ \A m \in Messages(answer[c]) : OnWall(c, m)
        /\ \A m \in before[c] : OnWall(c, m) => m \in Messages(answer[c])
    BY AnswerPromised DEF Promised, Searches
  <2>2. stored \in SUBSET Message /\ before[c] \in SUBSET Message
    BY DEF IInv, TypeOK
  <2>3. task[c].from \in Time /\ task[c].to \in Time
    BY AnswerPromised DEF Request
  <2>4. ASSUME NEW m \in Message
        PROVE  OnWall(c, m) <=> ChatOf[m] = task[c].chat /\ Within(c, SentAt[m])
    <3>1. SentAt[m] \in Time
      BY MessageAssumption
    <3>2. /\ Wall(task[c].from) <= Wall(SentAt[m]) <=> task[c].from <= SentAt[m]
          /\ Wall(SentAt[m]) <= Wall(task[c].to) <=> SentAt[m] <= task[c].to
      BY <2>3, <3>1, SteadyReadings
    <3>3. Wall(SentAt[m]) \in Int /\ Wall(task[c].from) \in Int /\ Wall(task[c].to) \in Int
      BY <2>3, <3>1, ClockAssumption
    <3>4. Wall(SentAt[m]) \in Wall(task[c].from)..Wall(task[c].to)
             <=> task[c].from <= SentAt[m] /\ SentAt[m] <= task[c].to
      BY <3>2, <3>3
    <3> QED
      BY <3>4 DEF OnWall, Within
  <2> QED
    BY <2>1, <2>2, <2>4 DEF InChat
<1> QED
  BY <1>1, Invariance, PTL

\* The recent messages are the newest, when the clock is never set back.
THEOREM RecentAreNewest ==
    ASSUME SteadyClock
    PROVE  Spec => []RecentIsNewest
<1>1. IInv => RecentIsNewest
  <2> SUFFICES ASSUME IInv, NEW c \in Call, Answered(c), OpOf(c) = "recent",
                      ~ FailedQuery(c),
                      NEW k \in InChat(c, before[c]) \ Messages(answer[c])
               PROVE  /\ Len(answer[c]) = Limit(c)
                      /\ \A m \in Messages(answer[c]) : SentAt[k] <= SentAt[m]
    BY DEF RecentIsNewest
  <2>1. /\ Messages(answer[c]) \subseteq stored
        /\ Len(answer[c]) = Limit(c)
        /\ \A m \in Messages(answer[c]) : Wall(SentAt[k]) <= Wall(SentAt[m])
    BY AnswerPromised DEF Promised, Searches
  <2>2. k \in Message /\ Messages(answer[c]) \subseteq Message
    BY <2>1 DEF IInv, TypeOK, InChat
  <2>3. \A m \in Messages(answer[c]) :
            Wall(SentAt[k]) <= Wall(SentAt[m]) <=> SentAt[k] <= SentAt[m]
    BY <2>2, MessageAssumption, SteadyReadings
  <2> QED
    BY <2>1, <2>3
<1> QED
  BY <1>1, Invariance, PTL

\* Times are true and in order, when the clock is never set back.
THEOREM AnswersHaveTrueTimes ==
    ASSUME SteadyClock
    PROVE  Spec => []TimesAreTrue
<1>1. IInv => TimesAreTrue
  <2> SUFFICES ASSUME IInv, NEW c \in Call, Answered(c), OpOf(c) # "search",
                      NEW i \in DOMAIN answer[c]
               PROVE  /\ answer[c][i].time = SentAt[answer[c][i].msg]
                      /\ \A j \in DOMAIN answer[c] :
                            i < j => answer[c][i].time <= answer[c][j].time
    BY DEF TimesAreTrue
  <2>1. InOrder(answer[c]) /\ answer[c] \in Seq(Info)
    BY AnswerPromised DEF Searches
  <2>2. \A j \in DOMAIN answer[c] :
           answer[c][j].time = MkTime(Wall(SentAt[answer[c][j].msg]))
    BY DEF IInv, TimesMatch, Searches
  <2>3. \A j \in DOMAIN answer[c] : SentAt[answer[c][j].msg] \in Time
    <3> TAKE j \in DOMAIN answer[c]
    <3>1. answer[c][j] \in Info
      BY <2>1
    <3> QED
      BY <3>1, MessageAssumption DEF Info
  <2>4. \A j \in DOMAIN answer[c] : answer[c][j].time = SentAt[answer[c][j].msg]
    BY <2>2, <2>3, SteadyReadings
  <2>5. ASSUME NEW j \in DOMAIN answer[c], i < j
        PROVE  answer[c][i].time <= answer[c][j].time
    <3>1. Wall(SentAt[answer[c][i].msg]) <= Wall(SentAt[answer[c][j].msg])
      BY <2>1, <2>5 DEF InOrder
    <3> QED
      BY <2>3, <2>4, <3>1, SteadyReadings
  <2> QED
    BY <2>4, <2>5
<1> QED
  BY <1>1, Invariance, PTL

\* What was shown is found again, on any wall clock.
THEOREM SeenAreFoundAgain == Spec => []SeenIsFoundAgain
<1>1. IInv => SeenIsFoundAgain
  <2> SUFFICES ASSUME IInv, NEW c \in Call, NEW d \in Call, Answered(c),
                      OpOf(c) # "search", c \in earlier[d], NEW i \in DOMAIN answer[c],
                      Answered(d), OpOf(d) = "history", ~ FailedQuery(d),
                      ChatOf[answer[c][i].msg] = task[d].chat,
                      Wall(answer[c][i].time)
                          \in Wall(task[d].from)..Wall(task[d].to)
               PROVE  answer[c][i].msg \in Messages(answer[d])
    BY DEF SeenIsFoundAgain
  <2> DEFINE m == answer[c][i].msg
  <2>1. answer[c][i].time = MkTime(Wall(SentAt[m]))
    BY DEF IInv, TimesMatch, Searches
  <2>2. answer[c] \in Seq(Info)
    BY AnswerPromised
  <2>3. m \in Message
    <3>1. answer[c][i] \in Info
      BY <2>2
    <3> QED
      BY <3>1 DEF Info
  <2>4. Wall(answer[c][i].time) = Wall(SentAt[m])
    BY <2>1, <2>3, MessageAssumption, ClockAssumption
  <2>5. m \in before[d]
    BY DEF IInv, SeenBefore, Searches, Messages
  <2>6. OnWall(d, m)
    BY <2>4 DEF OnWall
  <2> QED
    BY <2>5, <2>6, AnswerPromised DEF Promised
<1> QED
  BY <1>1, Invariance, PTL

\* A query is refused for its requester, for an avatar that was overwritten
\* under it, or for a failing service, and for nothing else.
THEOREM RefusalsHaveCause == Spec => []RefusedForCause
<1>1. IInv => RefusedForCause
  BY DEF IInv
<1> QED
  BY <1>1, Invariance, PTL
================================================================================
