--------------------------- MODULE MsgPipelineProof ---------------------------
(***************************************************************************)
(* Theorems about MsgPipeline for every set of messages, consumers, files  *)
(* and failures.                                                           *)
(***************************************************************************)
EXTENDS MsgPipeline, TLAPS

-----------------------------------------------------------------------------
(* What the queue operations do to the messages in a sequence.              *)

\* Nothing is in the empty queue.
LEMMA InEmpty == ASSUME NEW m PROVE ~InSeq(m, <<>>)
  BY DEF InSeq

\* Append adds its element and nothing else.
LEMMA InAppend ==
  ASSUME NEW S, NEW q \in Seq(S), NEW x \in S, NEW m
  PROVE  InSeq(m, Append(q, x)) <=> InSeq(m, q) \/ m = x
<1>1. /\ DOMAIN Append(q, x) = 1..(Len(q) + 1)
      /\ DOMAIN q = 1..Len(q)
      /\ Len(q) \in Nat
      /\ \A i \in 1..Len(q) : Append(q, x)[i] = q[i]
      /\ Append(q, x)[Len(q) + 1] = x
  OBVIOUS
<1>2. QED  BY <1>1 DEF InSeq

\* A delivery behind others does not change which one is handled.
LEMMA AppendHead ==
  ASSUME NEW S, NEW q \in Seq(S), NEW x \in S
  PROVE  /\ Append(q, x) \in Seq(S)
         /\ Append(q, x) # <<>>
         /\ q # <<>> => Head(Append(q, x)) = Head(q)
<1>1. /\ Append(q, x) \in Seq(S)
      /\ Len(Append(q, x)) = Len(q) + 1
      /\ Len(q) \in Nat
      /\ Len(<<>>) = 0
  OBVIOUS
<1>2. Append(q, x) # <<>>
  <2>1. Len(Append(q, x)) # Len(<<>>)
    BY <1>1
  <2>2. QED  BY <2>1
<1>3. ASSUME q # <<>> PROVE Head(Append(q, x)) = Head(q)
  <2>1. Len(q) \in Nat /\ Len(q) # 0
    BY <1>3
  <2>2. Append(q, x)[1] = q[1]
    BY <2>1
  <2>3. QED  BY <1>1, <1>2, <1>3, <2>2
<1>4. QED  BY <1>1, <1>2, <1>3

\* Taking the head off a queue removes at most the head's message.
LEMMA InTail ==
  ASSUME NEW S, NEW q \in Seq(S), q # <<>>, NEW m
  PROVE  InSeq(m, q) <=> InSeq(m, Tail(q)) \/ m = Head(q)
<1>1. /\ DOMAIN q = 1..Len(q)
      /\ Len(q) \in Nat \ {0}
      /\ DOMAIN Tail(q) = 1..(Len(q) - 1)
      /\ \A i \in 1..(Len(q) - 1) : Tail(q)[i] = q[i + 1]
      /\ Head(q) = q[1]
  OBVIOUS
<1>2. ASSUME InSeq(m, q) PROVE InSeq(m, Tail(q)) \/ m = Head(q)
  <2>1. PICK i \in 1..Len(q) : q[i] = m
    BY <1>1, <1>2 DEF InSeq
  <2>2. CASE i = 1
    BY <1>1, <2>1, <2>2
  <2>3. CASE i # 1
    <3>1. i - 1 \in 1..(Len(q) - 1) /\ (i - 1) + 1 = i
      BY <1>1, <2>3
    <3>2. QED  BY <1>1, <2>1, <3>1 DEF InSeq
  <2>4. QED  BY <2>2, <2>3
<1>3. ASSUME InSeq(m, Tail(q)) \/ m = Head(q) PROVE InSeq(m, q)
  <2>1. CASE m = Head(q)
    <3>1. 1 \in 1..Len(q)
      BY <1>1
    <3>2. QED  BY <1>1, <2>1, <3>1 DEF InSeq
  <2>2. CASE InSeq(m, Tail(q))
    <3>1. PICK i \in 1..(Len(q) - 1) : Tail(q)[i] = m
      BY <1>1, <2>2 DEF InSeq
    <3>2. i + 1 \in 1..Len(q)
      BY <1>1
    <3>3. QED  BY <1>1, <3>1, <3>2 DEF InSeq
  <2>3. QED  BY <1>3, <2>1, <2>2
<1>4. QED  BY <1>2, <1>3

\* Requeueing keeps the messages of both queues.
LEMMA InConcat ==
  ASSUME NEW S, NEW p \in Seq(S), NEW q \in Seq(S), NEW m
  PROVE  InSeq(m, p \o q) <=> InSeq(m, p) \/ InSeq(m, q)
<1>1. /\ DOMAIN p = 1..Len(p) /\ Len(p) \in Nat
      /\ DOMAIN q = 1..Len(q) /\ Len(q) \in Nat
      /\ DOMAIN (p \o q) = 1..(Len(p) + Len(q))
      /\ \A i \in 1..(Len(p) + Len(q)) :
            (p \o q)[i] = IF i <= Len(p) THEN p[i] ELSE q[i - Len(p)]
  OBVIOUS
<1>2. ASSUME InSeq(m, p \o q) PROVE InSeq(m, p) \/ InSeq(m, q)
  <2>1. PICK i \in 1..(Len(p) + Len(q)) : (p \o q)[i] = m
    BY <1>1, <1>2 DEF InSeq
  <2>2. CASE i <= Len(p)
    BY <1>1, <2>1, <2>2 DEF InSeq
  <2>3. CASE ~(i <= Len(p))
    <3>1. i - Len(p) \in 1..Len(q) /\ q[i - Len(p)] = m
      BY <1>1, <2>1, <2>3
    <3>2. QED  BY <1>1, <3>1 DEF InSeq
  <2>4. QED  BY <2>2, <2>3
<1>3. ASSUME InSeq(m, p) PROVE InSeq(m, p \o q)
  <2>1. PICK i \in 1..Len(p) : p[i] = m
    BY <1>1, <1>3 DEF InSeq
  <2>2. i \in 1..(Len(p) + Len(q)) /\ (p \o q)[i] = m
    BY <1>1, <2>1
  <2>3. QED  BY <1>1, <2>2 DEF InSeq
<1>4. ASSUME InSeq(m, q) PROVE InSeq(m, p \o q)
  <2>1. PICK i \in 1..Len(q) : q[i] = m
    BY <1>1, <1>4 DEF InSeq
  <2>2. /\ i + Len(p) \in 1..(Len(p) + Len(q))
        /\ ~(i + Len(p) <= Len(p))
        /\ (i + Len(p)) - Len(p) = i
    BY <1>1
  <2>3. (p \o q)[i + Len(p)] = m
    BY <1>1, <2>1, <2>2
  <2>4. QED  BY <1>1, <2>2, <2>3 DEF InSeq
<1>5. QED  BY <1>2, <1>3, <1>4

-----------------------------------------------------------------------------
(* Type correctness, with the shape of the consumer callbacks that the acks  *)
(* (Tail of a non-empty queue) and the writes (a message in hand) rest on.   *)

USE DEF Link, ReqState, Step, Row, FileKinds, Kinds

Shape == TypeOK /\ CallbackOK

\* A failure uses up one unit of a natural budget.
LEMMA FaultType ==
  ASSUME NEW kind, faults \in Nat, Fault(kind)
  PROVE  faults' \in Nat
  BY DEF Fault

\* No reply lost so far is within the bound on retries.
LEMMA NoTries == 0 \in 0..MaxRetry
  BY BoundAssumption

\* The handler steps, which leave the consumers alone, keep the shape.
LEMMA TransmitShape ==
  ASSUME Shape,
         \/ \E r \in Request : GetTransmitTarget(r)
         \/ Flush
         \/ TransmitCrash \/ TransmitLinkLost \/ TransmitRestart
  PROVE  Shape'
<1> USE DEF Shape, TypeOK, CallbackOK, handlerVars, callbackVars, stores
<1>1. ASSUME NEW r \in Request, GetTransmitTarget(r) PROVE Shape'
  <2>1. CASE LookupSender(r)
    BY <2>1 DEF LookupSender
  <2>2. CASE LookupSenderFails(r)
    BY <2>2 DEF LookupSenderFails
  <2>3. CASE QueryMembers(r)
    BY <2>3, MemberAssumption DEF QueryMembers
  <2>4. CASE QueryMembersFails(r)
    BY <2>4, FaultType DEF QueryMembersFails
  <2>5. CASE Publish(r)
    BY <2>5 DEF Publish
  <2>6. CASE PublishFails(r)
    BY <2>6 DEF PublishFails
  <2>7. CASE Reply(r)
    BY <2>7 DEF Reply
  <2>8. QED
    BY <1>1, <2>1, <2>2, <2>3, <2>4, <2>5, <2>6, <2>7 DEF GetTransmitTarget
<1>2. CASE Flush
  BY <1>2 DEF Flush
<1>3. CASE TransmitCrash
  BY <1>3, FaultType DEF TransmitCrash
<1>4. CASE TransmitLinkLost
  BY <1>4, FaultType DEF TransmitLinkLost
<1>5. CASE TransmitRestart
  BY <1>5 DEF TransmitRestart
<1>6. QED  BY <1>1, <1>2, <1>3, <1>4, <1>5

\* onMessage writes about the message in hand and keeps the shape.
LEMMA OnMessageShape ==
  ASSUME Shape, NEW s \in Storage, onMessage(s)
  PROVE  Shape'
<1> USE DEF Shape, TypeOK, CallbackOK, handlerVars, callbackVars, stores
<1>1. cur[s] \in Request
  <2>1. pc[s] # "idle"
    BY DEF onMessage, IndexMessage, IndexMessageFails, PutSingleFile,
           PutSingleFileReplyLost, PutSingleFileFails, InsertMessage,
           InsertMessageFails
  <2>2. QED  BY <2>1
<1>2. CASE IndexMessage(s)
  BY <1>1, <1>2 DEF IndexMessage
<1>3. CASE IndexMessageFails(s)
  BY <1>3, FaultType DEF IndexMessageFails
<1>4. CASE PutSingleFile(s)
  BY <1>1, <1>4 DEF PutSingleFile
<1>5. CASE PutSingleFileReplyLost(s)
  <2>1. faults' \in Nat
    BY <1>5, FaultType DEF PutSingleFileReplyLost
  <2>2. files' \in [FileId -> Request \cup {None}]
    BY <1>1, <1>5 DEF PutSingleFileReplyLost
  <2>3. tries' \in [Storage -> 0..MaxRetry] /\ pc' \in [Storage -> Step]
    <3>1. CASE /\ MayRetry(s)
               /\ tries' = [tries EXCEPT ![s] = @ + 1]
               /\ UNCHANGED pc
      <4>1. tries[s] + 1 \in 0..MaxRetry
        BY <3>1, BoundAssumption DEF MayRetry
      <4>2. QED  BY <3>1, <4>1
    <3>2. CASE pc' = [pc EXCEPT ![s] = "ack"] /\ UNCHANGED tries
      BY <3>2
    <3>3. QED  BY <1>5, <3>1, <3>2 DEF PutSingleFileReplyLost
  <2>4. /\ TypeOK'
        /\ \A t \in Storage : pc'[t] = "idle" <=> pc[t] = "idle"
    BY <1>5, <2>1, <2>2, <2>3 DEF PutSingleFileReplyLost
  <2>5. UNCHANGED <<cur, unacked, storage>>
    BY <1>5 DEF PutSingleFileReplyLost
  <2>6. QED  BY <2>4, <2>5
<1>6. CASE PutSingleFileFails(s)
  BY <1>6, FaultType DEF PutSingleFileFails
<1>7. CASE InsertMessage(s)
  BY <1>1, <1>7 DEF InsertMessage, Persist
<1>8. CASE InsertMessageFails(s)
  BY <1>8, FaultType DEF InsertMessageFails
<1>9. QED
  BY <1>2, <1>3, <1>4, <1>5, <1>6, <1>7, <1>8 DEF onMessage

\* Deliveries, acks and the failures of a consumer keep the shape.
LEMMA DeliveryShape ==
  ASSUME Shape,
         \/ \E s \in Storage :
              \/ Deliver(s) \/ BeginMessage(s) \/ Ack(s)
              \/ StorageCrash(s) \/ StorageLinkLost(s) \/ StorageRestart(s)
         \/ BrokerRestart
  PROVE  Shape'
<1> USE DEF Shape, TypeOK, CallbackOK, handlerVars, callbackVars, stores
<1>1. ASSUME NEW s \in Storage, Deliver(s) PROVE Shape'
  <2>1. Head(queue) \in Request /\ Tail(queue) \in Seq(Request)
    BY <1>1 DEF Deliver
  <2>2. /\ Append(unacked[s], Head(queue)) \in Seq(Request)
        /\ Append(unacked[s], Head(queue)) # <<>>
        /\ unacked[s] # <<>>
              => Head(Append(unacked[s], Head(queue))) = Head(unacked[s])
    <3>1. unacked[s] \in Seq(Request)
      OBVIOUS
    <3>2. QED  BY ONLY <2>1, <3>1, AppendHead
  <2>3. QED  BY <1>1, <2>1, <2>2 DEF Deliver
<1>2. ASSUME NEW s \in Storage, BeginMessage(s) PROVE Shape'
  <2>1. Head(unacked[s]) \in Request
    BY <1>2 DEF BeginMessage
  <2>2. FirstStep(Head(unacked[s])) \in {"index", "upload", "ack"}
    BY <2>1, KindAssumption DEF FirstStep
  <2>3. QED  BY <1>2, <2>1, <2>2, NullAssumption DEF BeginMessage
<1>3. ASSUME NEW s \in Storage, Ack(s) PROVE Shape'
  <2>1. storage[s] = "open" => Tail(unacked[s]) \in Seq(Request)
    BY <1>3 DEF Ack
  <2>2. QED  BY <1>3, <2>1, NoTries DEF Ack, AckHead, EndCallback
<1>4. ASSUME NEW s \in Storage, StorageCrash(s) PROVE Shape'
  BY <1>4, FaultType, NoTries DEF StorageCrash, Requeue, EndCallback
<1>5. ASSUME NEW s \in Storage, StorageLinkLost(s) PROVE Shape'
  BY <1>5, FaultType DEF StorageLinkLost, Requeue
<1>6. ASSUME NEW s \in Storage, StorageRestart(s) PROVE Shape'
  BY <1>6 DEF StorageRestart
<1>7. CASE BrokerRestart
  BY <1>7, FaultType DEF BrokerRestart
<1>8. QED  BY <1>1, <1>2, <1>3, <1>4, <1>5, <1>6, <1>7

\* The services start with types and callback state in order.
LEMMA InitShape == Init => Shape
  BY NoTries DEF Init, Shape, TypeOK, CallbackOK

\* A step that changes nothing keeps Shape.
LEMMA StutterShape == Shape /\ UNCHANGED vars => Shape'
  BY DEF Shape, TypeOK, CallbackOK, vars, InSeq

\* Every step of the pipeline keeps types and callback state in order.
LEMMA NextShape == Shape /\ [Next]_vars => Shape'
  BY TransmitShape, OnMessageShape, DeliveryShape, StutterShape
     DEF Next, Failure, Restart

\* Every variable keeps its type, in every behaviour, whatever fails.
THEOREM TypeCorrect == Spec => []TypeOK
<1>1. Shape => TypeOK
  BY DEF Shape
<1>2. QED  BY <1>1, InitShape, NextShape, PTL DEF Spec

-----------------------------------------------------------------------------
(* What the callbacks hold and what the tables contain.                      *)

Data == CallbackDataOK /\ AtMostOneRow /\ RowsHoldOwnFile

\* The invariants only look at these variables.
LEMMA DataFrame ==
  ASSUME Data, UNCHANGED <<pc, cur, fid, files, rows>>
  PROVE  Data'
  BY DEF Data, CallbackDataOK, AtMostOneRow, RowsHoldOwnFile

\* Every step of onMessage keeps files and rows matched.
LEMMA OnMessageData ==
  ASSUME Shape, Data, NEW s \in Storage, onMessage(s)
  PROVE  Data'
<1> USE DEF Shape, TypeOK, CallbackOK, Data, CallbackDataOK, AtMostOneRow,
            RowsHoldOwnFile, handlerVars, callbackVars, stores
<1>1. pc[s] # "idle" => cur[s] \in Request /\ Kind[cur[s]] \in Kinds
  BY KindAssumption
<1>2. CASE IndexMessage(s)
  BY <1>1, <1>2 DEF IndexMessage
<1>3. CASE IndexMessageFails(s)
  BY <1>1, <1>3 DEF IndexMessageFails
<1>4. CASE PutSingleFile(s)
  <2>1. PICK f \in FileId : /\ files[f] = None
                            /\ files' = [files EXCEPT ![f] = cur[s]]
                            /\ fid' = [fid EXCEPT ![s] = f]
    BY <1>4 DEF PutSingleFile
  <2>2. /\ pc[s] = "upload"
        /\ pc' = [pc EXCEPT ![s] = "insert"]
        /\ UNCHANGED <<cur, rows>>
    BY <1>4 DEF PutSingleFile
  <2>3. CallbackDataOK'
    BY <1>1, <2>1, <2>2, NullAssumption
  <2>4. RowsHoldOwnFile'
    BY <2>1, <2>2, NullAssumption
  <2>5. QED  BY <2>2, <2>3, <2>4
<1>5. CASE PutSingleFileReplyLost(s)
  <2>1. PICK f \in FileId : /\ files[f] = None
                            /\ files' = [files EXCEPT ![f] = cur[s]]
    BY <1>5 DEF PutSingleFileReplyLost
  <2>2. /\ pc[s] = "upload"
        /\ pc' = pc \/ pc' = [pc EXCEPT ![s] = "ack"]
        /\ UNCHANGED <<cur, fid, rows>>
    BY <1>5 DEF PutSingleFileReplyLost
  <2>3. CallbackDataOK'
    BY <1>1, <2>1, <2>2, NullAssumption
  <2>4. RowsHoldOwnFile'
    BY <2>1, <2>2, NullAssumption
  <2>5. QED  BY <2>2, <2>3, <2>4
<1>6. CASE PutSingleFileFails(s)
  BY <1>6 DEF PutSingleFileFails
<1>7. CASE InsertMessage(s)
  <2> DEFINE row == [msg |-> cur[s], file |-> fid[s]]
  <2>1. /\ pc[s] = "insert"
        /\ rows' = rows \/ (cur[s] \notin Stored /\ rows' = rows \cup {row})
        /\ pc' = [pc EXCEPT ![s] = "ack"]
        /\ UNCHANGED <<cur, fid, files>>
    BY <1>7 DEF InsertMessage, Persist
  <2>2. CallbackDataOK'
    BY <2>1
  <2>3. AtMostOneRow'
    BY <2>1 DEF Stored
  <2>4. RowsHoldOwnFile'
    BY <2>1
  <2>5. QED  BY <2>2, <2>3, <2>4
<1>8. CASE InsertMessageFails(s)
  BY <1>8 DEF InsertMessageFails
<1>9. QED
  BY <1>2, <1>3, <1>4, <1>5, <1>6, <1>7, <1>8 DEF onMessage

\* The first step of a callback fits the message, the last one clears it.
LEMMA CallbackEndsData ==
  ASSUME Shape, Data, NEW s \in Storage,
         BeginMessage(s) \/ Ack(s) \/ StorageCrash(s)
  PROVE  Data'
<1> USE DEF Shape, TypeOK, CallbackOK, Data, CallbackDataOK, AtMostOneRow,
            RowsHoldOwnFile, handlerVars, callbackVars, stores
<1>1. CASE BeginMessage(s)
  <2> DEFINE m == Head(unacked[s])
  <2>1. m \in Request /\ Kind[m] \in Kinds
    BY <1>1, KindAssumption DEF BeginMessage
  <2>2. /\ FirstStep(m) \in {"index", "upload", "ack"}
        /\ FirstStep(m) = "index" => Kind[m] = "STRING"
        /\ FirstStep(m) = "upload" => Kind[m] \in FileKinds
    BY <2>1 DEF FirstStep
  <2>3. /\ pc[s] = "idle"
        /\ cur' = [cur EXCEPT ![s] = m]
        /\ pc' = [pc EXCEPT ![s] = FirstStep(m)]
        /\ UNCHANGED <<fid, files, rows>>
    BY <1>1 DEF BeginMessage
  <2> HIDE DEF m
  <2>4. QED  BY <2>1, <2>2, <2>3
<1>2. CASE Ack(s)
  BY <1>2 DEF Ack, EndCallback
<1>3. CASE StorageCrash(s)
  BY <1>3 DEF StorageCrash, EndCallback
<1>4. QED  BY <1>1, <1>2, <1>3

\* At the start no callback holds data and the tables are empty.
LEMMA InitData == Init => Data
  BY DEF Init, Data, CallbackDataOK, AtMostOneRow, RowsHoldOwnFile

\* Every step of the pipeline keeps files, rows and callback data matched.
LEMMA NextData == Shape /\ Data /\ [Next]_vars => Data'
<1> SUFFICES ASSUME Shape, Data, [Next]_vars PROVE Data'
  OBVIOUS
<1> USE DEF vars, handlerVars, callbackVars, stores
<1>1. ASSUME NEW r \in Request, GetTransmitTarget(r) PROVE Data'
  BY <1>1, DataFrame
     DEF GetTransmitTarget, LookupSender, LookupSenderFails, QueryMembers,
         QueryMembersFails, Publish, PublishFails, Reply
<1>2. CASE Flush \/ TransmitCrash \/ TransmitLinkLost \/ TransmitRestart
  BY <1>2, DataFrame
     DEF Flush, TransmitCrash, TransmitLinkLost, TransmitRestart
<1>3. ASSUME NEW s \in Storage,
             Deliver(s) \/ StorageLinkLost(s) \/ StorageRestart(s)
      PROVE  Data'
  BY <1>3, DataFrame DEF Deliver, StorageLinkLost, StorageRestart
<1>4. CASE BrokerRestart \/ UNCHANGED vars
  BY <1>4, DataFrame DEF BrokerRestart
<1>5. QED
  BY <1>1, <1>2, <1>3, <1>4, OnMessageData, CallbackEndsData
     DEF Next, Failure, Restart

\* No message ever has two rows, with any number of consumers, redeliveries
\* and failures.
THEOREM OneRowPerMessage == Spec => []AtMostOneRow
<1>1. Data => AtMostOneRow
  BY DEF Data
<1>2. QED
  BY <1>1, InitShape, NextShape, InitData, NextData, PTL DEF Spec

\* A row always names the file that holds its own message's content.
THEOREM RowsMatchFiles == Spec => []RowsHoldOwnFile
<1>1. Data => RowsHoldOwnFile
  BY DEF Data
<1>2. QED
  BY <1>1, InitShape, NextShape, InitData, NextData, PTL DEF Spec

-----------------------------------------------------------------------------
(* Which steps put a message into the queues and which take it out.          *)

\* The broker moves messages, it neither makes nor loses any.
LEMMA FlushInFlight ==
  ASSUME Shape, Flush, NEW m
  PROVE  InFlight(m)' <=> InFlight(m)
<1>1. /\ outbox \in Seq(Request) /\ outbox # <<>>
      /\ queue \in Seq(Request)
      /\ queue' = Append(queue, Head(outbox))
      /\ outbox' = Tail(outbox)
      /\ unacked' = unacked
  BY DEF Flush, Shape, TypeOK
<1>2. Head(outbox) \in Request
  BY <1>1
<1>3. InSeq(m, queue') <=> InSeq(m, queue) \/ m = Head(outbox)
  BY <1>1, <1>2, InAppend
<1>4. InSeq(m, outbox) <=> InSeq(m, outbox') \/ m = Head(outbox)
  BY <1>1, InTail
<1>5. QED  BY <1>1, <1>3, <1>4 DEF InFlight

\* A delivery moves a message from the queue to a consumer: it stays in flight.
LEMMA DeliverInFlight ==
  ASSUME Shape, NEW s \in Storage, Deliver(s), NEW m
  PROVE  InFlight(m)' <=> InFlight(m)
<1>1. /\ queue \in Seq(Request) /\ queue # <<>>
      /\ unacked \in [Storage -> Seq(Request)]
      /\ unacked' = [unacked EXCEPT ![s] = Append(@, Head(queue))]
      /\ queue' = Tail(queue)
      /\ outbox' = outbox
  BY DEF Deliver, Shape, TypeOK
<1>2. Head(queue) \in Request /\ unacked[s] \in Seq(Request)
  BY <1>1
<1>3. InSeq(m, Append(unacked[s], Head(queue)))
         <=> InSeq(m, unacked[s]) \/ m = Head(queue)
  BY <1>2, InAppend
<1>4. InSeq(m, queue) <=> InSeq(m, queue') \/ m = Head(queue)
  BY <1>1, InTail
<1>5. /\ unacked'[s] = Append(unacked[s], Head(queue))
      /\ \A t \in Storage \ {s} : unacked'[t] = unacked[t]
  BY <1>1
<1>6. QED  BY <1>1, <1>3, <1>4, <1>5 DEF InFlight

\* A lost consumer's deliveries return to the queue: they stay in flight.
LEMMA RequeueInFlight ==
  ASSUME Shape, NEW s \in Storage, Requeue(s), outbox' = outbox, NEW m
  PROVE  InFlight(m)' <=> InFlight(m)
<1>1. /\ queue \in Seq(Request)
      /\ unacked \in [Storage -> Seq(Request)]
      /\ queue' = unacked[s] \o queue
      /\ unacked' = [unacked EXCEPT ![s] = <<>>]
  BY DEF Requeue, Shape, TypeOK
<1>2. unacked[s] \in Seq(Request)
  BY <1>1
<1>3. InSeq(m, queue') <=> InSeq(m, unacked[s]) \/ InSeq(m, queue)
  BY <1>1, <1>2, InConcat
<1>4. /\ ~InSeq(m, unacked'[s])
      /\ \A t \in Storage \ {s} : unacked'[t] = unacked[t]
  BY <1>1, InEmpty
<1>5. QED  BY <1>3, <1>4 DEF InFlight

\* An ack takes out the message of the callback that ends, and no other.
LEMMA AckInFlight ==
  ASSUME Shape, NEW s \in Storage, Ack(s), NEW m
  PROVE  /\ InFlight(m)' => InFlight(m)
         /\ InFlight(m) => InFlight(m)' \/ m = cur[s]
<1>1. /\ unacked \in [Storage -> Seq(Request)]
      /\ UNCHANGED <<outbox, queue>>
      /\ pc[s] # "idle"
  BY DEF Ack, Shape, TypeOK
<1>2. CASE storage[s] # "open"
  <2>1. unacked' = unacked
    BY <1>2 DEF Ack, AckHead
  <2>2. QED  BY <1>1, <2>1 DEF InFlight
<1>3. CASE storage[s] = "open"
  <2>1. /\ unacked[s] \in Seq(Request) /\ unacked[s] # <<>>
        /\ Head(unacked[s]) = cur[s]
    BY <1>1, <1>3 DEF Shape, CallbackOK
  <2>2. /\ unacked'[s] = Tail(unacked[s])
        /\ \A t \in Storage \ {s} : unacked'[t] = unacked[t]
    BY <1>1, <1>3 DEF Ack, AckHead
  <2>3. InSeq(m, unacked[s]) <=> InSeq(m, unacked'[s]) \/ m = cur[s]
    BY <2>1, <2>2, InTail
  <2>4. QED  BY <1>1, <2>2, <2>3 DEF InFlight
<1>4. QED  BY <1>2, <1>3

\* Losing the queues and the buffer brings nothing into flight.
LEMMA LossInFlight ==
  ASSUME \/ TransmitCrash \/ TransmitLinkLost \/ BrokerRestart, NEW m
  PROVE  InFlight(m)' => InFlight(m)
<1>1. CASE TransmitCrash \/ TransmitLinkLost
  BY <1>1, InEmpty DEF TransmitCrash, TransmitLinkLost, InFlight
<1>2. CASE BrokerRestart
  BY <1>2, InEmpty DEF BrokerRestart, InFlight
<1>3. QED  BY <1>1, <1>2

\* All the other steps leave the queues alone.
LEMMA QuietInFlight ==
  ASSUME UNCHANGED <<outbox, queue, unacked>>, NEW m
  PROVE  InFlight(m)' <=> InFlight(m)
  BY DEF InFlight

-----------------------------------------------------------------------------
(* Nothing of a message exists unless its publish succeeded.                 *)

\* The handler only publishes what it then counts as published.
LEMMA TransmitFlow ==
  ASSUME Shape, FlowOK,
         \/ \E r \in Request : GetTransmitTarget(r)
         \/ Flush
         \/ TransmitCrash \/ TransmitLinkLost \/ TransmitRestart
  PROVE  FlowOK'
<1> USE DEF handlerVars, callbackVars, stores
<1>1. req \in [Request -> ReqState]
  BY DEF Shape, TypeOK
<1>2. UNCHANGED <<cur, docs, files, rows>>
  BY DEF GetTransmitTarget, LookupSender, LookupSenderFails, QueryMembers,
         QueryMembersFails, Publish, PublishFails, Reply, Flush,
         TransmitCrash, TransmitLinkLost, TransmitRestart
<1>3. ASSUME NEW m \in Request, Published(m) PROVE Published(m)'
  BY <1>1, <1>3
     DEF Published, GetTransmitTarget, LookupSender, LookupSenderFails,
         QueryMembers, QueryMembersFails, Publish, PublishFails, Reply,
         Flush, TransmitCrash, TransmitLinkLost, TransmitRestart
<1>4. ASSUME NEW m \in Request, InFlight(m)'
      PROVE  InFlight(m) \/ Published(m)'
  <2>1. ASSUME NEW r \in Request, Publish(r)
        PROVE  InFlight(m) \/ Published(m)'
    <3>1. InSeq(m, outbox') <=> InSeq(m, outbox) \/ m = r
      BY <2>1, InAppend DEF Publish, Shape, TypeOK
    <3>2. UNCHANGED <<queue, unacked>> /\ req'[r] = "reply"
      BY <1>1, <2>1 DEF Publish
    <3>3. QED  BY <1>4, <3>1, <3>2 DEF InFlight, Published
  <2>2. ASSUME NEW r \in Request, GetTransmitTarget(r), ~Publish(r)
        PROVE  InFlight(m)
    <3>1. UNCHANGED <<outbox, queue, unacked>>
      BY <2>2 DEF GetTransmitTarget, LookupSender, LookupSenderFails,
                  QueryMembers, QueryMembersFails, PublishFails, Reply
    <3>2. QED  BY <1>4, <3>1, QuietInFlight
  <2>3. CASE TransmitRestart
    BY <1>4, <2>3, QuietInFlight DEF TransmitRestart
  <2>4. QED
    BY <1>4, <2>1, <2>2, <2>3, FlushInFlight, LossInFlight
<1>5. QED
  BY <1>2, <1>3, <1>4 DEF FlowOK, LeavesTrace, Stored

\* The consumers only write about messages they were given.
LEMMA StorageFlow ==
  ASSUME Shape, FlowOK,
         \/ \E s \in Storage :
              \/ Deliver(s) \/ BeginMessage(s) \/ onMessage(s) \/ Ack(s)
              \/ StorageCrash(s) \/ StorageLinkLost(s) \/ StorageRestart(s)
         \/ BrokerRestart
  PROVE  FlowOK'
<1> USE DEF handlerVars, callbackVars, stores
<1>1. req' = req
  BY DEF Deliver, BeginMessage, onMessage, Ack, IndexMessage,
         IndexMessageFails, PutSingleFile, PutSingleFileReplyLost,
         PutSingleFileFails, InsertMessage, InsertMessageFails,
         StorageCrash, StorageLinkLost, StorageRestart, BrokerRestart
<1>2. cur \in [Storage -> Request \cup {None}]
  BY DEF Shape, TypeOK
<1> DEFINE Held(m) == LeavesTrace(m) \/ \E t \in Storage : cur[t] = m
<1>3. SUFFICES ASSUME NEW m \in Request, Held(m)' PROVE Held(m)
  BY <1>1 DEF FlowOK, Published
<1>4. ASSUME NEW s \in Storage, Deliver(s) PROVE Held(m)
  BY <1>3, <1>4, DeliverInFlight DEF Deliver, LeavesTrace, Stored
<1>5. ASSUME NEW s \in Storage, BeginMessage(s) PROVE Held(m)
  <2>1. /\ UNCHANGED <<outbox, queue, unacked, docs, files, rows>>
        /\ cur' = [cur EXCEPT ![s] = Head(unacked[s])]
        /\ unacked[s] # <<>> /\ unacked[s] \in Seq(Request)
    BY <1>5 DEF BeginMessage, Shape, TypeOK
  <2>2. InSeq(Head(unacked[s]), unacked[s])
    BY <2>1, InTail
  <2>3. m = Head(unacked[s]) => InFlight(m)
    BY <2>2 DEF InFlight
  <2>4. QED
    BY <1>2, <1>3, <2>1, <2>3, QuietInFlight DEF LeavesTrace, Stored
<1>6. ASSUME NEW s \in Storage, onMessage(s) PROVE Held(m)
  <2>1. UNCHANGED <<outbox, queue, unacked, cur>>
    BY <1>6 DEF onMessage, IndexMessage, IndexMessageFails, PutSingleFile,
                PutSingleFileReplyLost, PutSingleFileFails, InsertMessage,
                InsertMessageFails
  <2>2. m \in docs' => m \in docs \/ m = cur[s]
    BY <1>6 DEF onMessage, IndexMessage, IndexMessageFails, PutSingleFile,
                PutSingleFileReplyLost, PutSingleFileFails, InsertMessage,
                InsertMessageFails
  <2>3. m \in Stored' => m \in Stored \/ m = cur[s]
    BY <1>6 DEF onMessage, IndexMessage, IndexMessageFails, PutSingleFile,
                PutSingleFileReplyLost, PutSingleFileFails, InsertMessage,
                InsertMessageFails, Persist, Stored
  <2>4. files' = files \/ \E f \in FileId : files' = [files EXCEPT ![f] = cur[s]]
    BY <1>6 DEF onMessage, IndexMessage, IndexMessageFails, PutSingleFile,
                PutSingleFileReplyLost, PutSingleFileFails, InsertMessage,
                InsertMessageFails
  <2>5. ASSUME NEW f \in FileId, files'[f] = m
        PROVE  files[f] = m \/ m = cur[s]
    BY <2>4, <2>5 DEF Shape, TypeOK
  <2>6. QED
    BY <1>3, <2>1, <2>2, <2>3, <2>5, QuietInFlight DEF LeavesTrace
<1>7. ASSUME NEW s \in Storage, Ack(s) PROVE Held(m)
  <2>1. cur' = [cur EXCEPT ![s] = None] /\ UNCHANGED <<docs, files, rows>>
    BY <1>7 DEF Ack, EndCallback
  <2>2. QED
    BY <1>2, <1>3, <1>7, <2>1, AckInFlight, NullAssumption
       DEF LeavesTrace, Stored
<1>8. ASSUME NEW s \in Storage, StorageCrash(s) PROVE Held(m)
  <2>1. /\ cur' = [cur EXCEPT ![s] = None]
        /\ UNCHANGED <<outbox, docs, files, rows>>
        /\ Requeue(s)
    BY <1>8 DEF StorageCrash, EndCallback
  <2>2. QED
    BY <1>2, <1>3, <2>1, RequeueInFlight, NullAssumption
       DEF LeavesTrace, Stored
<1>9. ASSUME NEW s \in Storage, StorageLinkLost(s) PROVE Held(m)
  <2>1. UNCHANGED <<outbox, cur, docs, files, rows>> /\ Requeue(s)
    BY <1>9 DEF StorageLinkLost
  <2>2. QED
    BY <1>3, <2>1, RequeueInFlight DEF LeavesTrace, Stored
<1>10. ASSUME NEW s \in Storage, StorageRestart(s) PROVE Held(m)
  BY <1>3, <1>10, QuietInFlight DEF StorageRestart, LeavesTrace, Stored
<1>11. CASE BrokerRestart
  BY <1>3, <1>11, LossInFlight DEF BrokerRestart, LeavesTrace, Stored
<1>12. QED
  BY <1>4, <1>5, <1>6, <1>7, <1>8, <1>9, <1>10, <1>11

\* At the start nothing is in flight.
LEMMA InitFlow == Init => FlowOK
  BY InEmpty, NullAssumption
     DEF Init, FlowOK, LeavesTrace, InFlight, Stored

\* A step that changes nothing keeps FlowOK.
LEMMA StutterFlow == FlowOK /\ UNCHANGED vars => FlowOK'
  BY DEF FlowOK, LeavesTrace, InFlight, Stored, Published, vars

\* Every step keeps rejected messages out of the queue and the stores.
LEMMA NextFlow == Shape /\ FlowOK /\ [Next]_vars => FlowOK'
  BY TransmitFlow, StorageFlow, StutterFlow DEF Next, Failure, Restart

\* A message whose sender was told "failed" leaves no trace, however late one
\* looks.
THEOREM RejectedLeavesNoTrace == Spec => []RejectedUnseen
<1>1. FlowOK => RejectedUnseen
  BY DEF FlowOK, RejectedUnseen, Published
<1>2. QED
  BY <1>1, InitShape, NextShape, InitFlow, NextFlow, PTL DEF Spec

\* The inductive invariant that TLC checks on the small instance.
THEOREM InductiveInvariant == Spec => []IInv
<1>1. Shape /\ Data /\ FlowOK => IInv
  BY DEF Shape, Data, IInv
<1>2. QED
  BY <1>1, InitShape, NextShape, InitData, NextData, InitFlow, NextFlow, PTL
     DEF Spec

-----------------------------------------------------------------------------
(* Nothing accepted is lost while only consumers fail.                       *)

\* Behind an acknowledgement there is a row.
AckMeansStored ==
    \A s \in Storage :
        pc[s] = "ack" /\ Kind[cur[s]] # "OTHER" => cur[s] \in Stored

Kept == AcceptedNotLost /\ AckMeansStored

\* A published message enters the buffer before its handler can answer.
LEMMA TransmitKept ==
  ASSUME Shape, Kept, NEW r \in Request, GetTransmitTarget(r)
  PROVE  Kept'
<1> USE DEF handlerVars, callbackVars, stores
<1>1. req \in [Request -> ReqState]
  BY DEF Shape, TypeOK
<1>2. UNCHANGED <<pc, cur, rows>>
  BY DEF GetTransmitTarget, LookupSender, LookupSenderFails, QueryMembers,
         QueryMembersFails, Publish, PublishFails, Reply
<1>3. AckMeansStored'
  BY <1>2 DEF Kept, AckMeansStored, Stored
<1>4. ASSUME NEW m \in Request, InFlight(m) PROVE InFlight(m)'
  <2>1. CASE Publish(r)
    <3>1. InSeq(m, outbox') <=> InSeq(m, outbox) \/ m = r
      BY <2>1, InAppend DEF Publish, Shape, TypeOK
    <3>2. UNCHANGED <<queue, unacked>>
      BY <2>1 DEF Publish
    <3>3. QED  BY <1>4, <3>1, <3>2 DEF InFlight
  <2>2. CASE ~Publish(r)
    <3>1. UNCHANGED <<outbox, queue, unacked>>
      BY <2>2 DEF GetTransmitTarget, LookupSender, LookupSenderFails,
                  QueryMembers, QueryMembersFails, PublishFails, Reply
    <3>2. QED  BY <1>4, <3>1, QuietInFlight
  <2>3. QED  BY <2>1, <2>2
<1>5. ASSUME NEW m \in Request, req'[m] \in {"reply", "ok"}
      PROVE  req[m] \in {"reply", "ok"} \/ InFlight(m)'
  <2>1. CASE Publish(r)
    <3>1. InSeq(m, outbox') <=> InSeq(m, outbox) \/ m = r
      BY <2>1, InAppend DEF Publish, Shape, TypeOK
    <3>2. m # r => req'[m] = req[m]
      BY <1>1, <2>1 DEF Publish
    <3>3. QED  BY <1>5, <3>1, <3>2 DEF InFlight
  <2>2. CASE ~Publish(r)
    BY <1>1, <1>5, <2>2
       DEF GetTransmitTarget, LookupSender, LookupSenderFails,
           QueryMembers, QueryMembersFails, PublishFails, Reply
  <2>3. QED  BY <2>1, <2>2
<1>6. AcceptedNotLost'
  BY <1>2, <1>4, <1>5 DEF Kept, AcceptedNotLost, Stored
<1>7. QED  BY <1>3, <1>6 DEF Kept

\* The insert leaves a row of the message in hand, this one or an older one.
LEMMA InsertStores ==
  ASSUME NEW s \in Storage, InsertMessage(s)
  PROVE  Stored' = Stored \cup {cur[s]}
<1> DEFINE new == [msg |-> cur[s], file |-> fid[s]]
<1>1. new.msg = cur[s]
  OBVIOUS
<1>2. CASE cur[s] \in Stored
  <2>1. rows' = rows
    BY <1>2 DEF InsertMessage, Persist
  <2>2. QED  BY <1>2, <2>1 DEF Stored
<1>3. CASE cur[s] \notin Stored
  <2>1. rows' = rows \cup {new}
    BY <1>3 DEF InsertMessage, Persist
  <2> HIDE DEF new
  <2>2. QED  BY <1>1, <2>1 DEF Stored
<1>4. QED  BY <1>2, <1>3

\* A callback ends with a row, unless a store it needs has failed.
LEMMA OnMessageKept ==
  ASSUME Shape, Kept, Faults \subseteq ConsumerFaults,
         NEW s \in Storage, onMessage(s)
  PROVE  Kept'
<1> USE DEF handlerVars, callbackVars, stores
<1>1. IndexMessage(s) \/ IndexMessageFails(s) \/ PutSingleFile(s)
         \/ InsertMessage(s)
  BY DEF onMessage, PutSingleFileReplyLost, PutSingleFileFails,
         InsertMessageFails, Fault, ConsumerFaults
<1>2. UNCHANGED <<req, outbox, queue, unacked, cur>>
  BY <1>1 DEF IndexMessage, IndexMessageFails, PutSingleFile, InsertMessage
<1>3. Stored \subseteq Stored'
  BY <1>1 DEF IndexMessage, IndexMessageFails, PutSingleFile, InsertMessage,
              Persist, Stored
<1>4. AcceptedNotLost'
  BY <1>2, <1>3, QuietInFlight DEF Kept, AcceptedNotLost
<1>5. AckMeansStored'
  <2>1. CASE InsertMessage(s)
    <3>1. cur[s] \in Stored' /\ pc' = [pc EXCEPT ![s] = "ack"]
      BY <2>1, InsertStores DEF InsertMessage
    <3>2. QED
      BY <1>2, <1>3, <3>1 DEF Kept, AckMeansStored, Shape, TypeOK
  <2>2. CASE ~InsertMessage(s)
    <3>1. pc' = [pc EXCEPT ![s] = "insert"]
      BY <1>1, <2>2 DEF IndexMessage, IndexMessageFails, PutSingleFile
    <3>2. QED
      BY <1>2, <1>3, <3>1 DEF Kept, AckMeansStored, Shape, TypeOK
  <2>3. QED  BY <2>1, <2>2
<1>6. QED  BY <1>4, <1>5 DEF Kept

\* A message leaves the broker only for a row, and returns otherwise.
LEMMA DeliveryKept ==
  ASSUME Shape, Kept, NEW s \in Storage,
         \/ Deliver(s) \/ BeginMessage(s) \/ Ack(s)
         \/ StorageCrash(s) \/ StorageLinkLost(s) \/ StorageRestart(s)
  PROVE  Kept'
<1> USE DEF handlerVars, callbackVars, stores
<1>1. UNCHANGED <<req, rows>>
  BY DEF Deliver, BeginMessage, Ack, StorageCrash, StorageLinkLost,
         StorageRestart
<1>2. ASSUME NEW m \in Request, InFlight(m), Kind[m] # "OTHER"
      PROVE  InFlight(m)' \/ m \in Stored
  <2>1. CASE Deliver(s)
    BY <1>2, <2>1, DeliverInFlight
  <2>2. CASE BeginMessage(s) \/ StorageRestart(s)
    BY <1>2, <2>2, QuietInFlight DEF BeginMessage, StorageRestart
  <2>3. CASE Ack(s)
    BY <1>2, <2>3, AckInFlight DEF Ack, Kept, AckMeansStored
  <2>4. CASE StorageCrash(s) \/ StorageLinkLost(s)
    BY <1>2, <2>4, RequeueInFlight DEF StorageCrash, StorageLinkLost
  <2>5. QED  BY <2>1, <2>2, <2>3, <2>4
<1>3. AcceptedNotLost'
  BY <1>1, <1>2 DEF Kept, AcceptedNotLost, Stored
<1>4. AckMeansStored'
  <2>1. CASE Deliver(s) \/ StorageLinkLost(s) \/ StorageRestart(s)
    BY <2>1 DEF Deliver, StorageLinkLost, StorageRestart, Kept,
                AckMeansStored, Stored
  <2>2. CASE BeginMessage(s)
    <3> DEFINE m == Head(unacked[s])
    <3>1. m \in Request
      BY <2>2 DEF BeginMessage, Shape, TypeOK
    <3>2. FirstStep(m) = "ack" => Kind[m] = "OTHER"
      BY <3>1, KindAssumption DEF FirstStep
    <3>3. /\ pc' = [pc EXCEPT ![s] = FirstStep(m)]
          /\ cur' = [cur EXCEPT ![s] = m]
      BY <2>2 DEF BeginMessage
    <3> HIDE DEF m
    <3>4. QED
      BY <1>1, <3>2, <3>3 DEF Kept, AckMeansStored, Stored, Shape, TypeOK
  <2>3. CASE Ack(s) \/ StorageCrash(s)
    BY <1>1, <2>3 DEF Ack, StorageCrash, EndCallback, Kept, AckMeansStored,
                      Stored, Shape, TypeOK
  <2>4. QED  BY <2>1, <2>2, <2>3
<1>5. QED  BY <1>3, <1>4 DEF Kept

\* At the start nothing has been accepted.
LEMMA InitKept == Init => Kept
  BY DEF Init, Kept, AcceptedNotLost, AckMeansStored

\* With consumer faults only, every step keeps accepted messages in flight or stored.
LEMMA NextKept ==
  ASSUME Faults \subseteq ConsumerFaults
  PROVE  Shape /\ Kept /\ [Next]_vars => Kept'
<1> SUFFICES ASSUME Shape, Kept, [Next]_vars PROVE Kept'
  OBVIOUS
<1> USE DEF vars, handlerVars, callbackVars, stores
<1>1. CASE Flush
  BY <1>1, FlushInFlight
     DEF Flush, Kept, AcceptedNotLost, AckMeansStored, Stored
<1>2. CASE TransmitRestart \/ UNCHANGED vars
  BY <1>2, QuietInFlight
     DEF TransmitRestart, Kept, AcceptedNotLost, AckMeansStored, Stored
<1>3. ~TransmitCrash /\ ~TransmitLinkLost /\ ~BrokerRestart
  BY DEF TransmitCrash, TransmitLinkLost, BrokerRestart, Fault,
         ConsumerFaults
<1>4. QED
  BY <1>1, <1>2, <1>3, TransmitKept, OnMessageKept, DeliveryKept
     DEF Next, Failure, Restart

\* While only consumers (and the search index) fail, every accepted message
\* is in a queue or in the message table.
THEOREM NothingAcceptedIsLost ==
  ASSUME Faults \subseteq ConsumerFaults
  PROVE  Spec => []AcceptedNotLost
<1>1. Kept => AcceptedNotLost
  BY DEF Kept
<1>2. Shape /\ Kept /\ [Next]_vars => Kept'
  BY NextKept
<1>3. QED
  BY <1>1, <1>2, InitShape, NextShape, InitKept, PTL DEF Spec

-----------------------------------------------------------------------------
(* Search knows every text message the history shows.                        *)

\* The insert of a text message comes after its document.
IndexedBeforeInsert ==
    \A s \in Storage :
        pc[s] = "insert" /\ Kind[cur[s]] = "STRING" => cur[s] \in docs

Searchable == TextSearchable /\ IndexedBeforeInsert

\* At the start there is no row to search for.
LEMMA InitSearchable == Init => Searchable
  BY DEF Init, Searchable, TextSearchable, IndexedBeforeInsert, Stored

\* Only the three steps below change what Searchable looks at.
LEMMA SearchableFrame ==
  ASSUME Searchable, UNCHANGED <<pc, cur, docs, rows>>
  PROVE  Searchable'
  BY DEF Searchable, TextSearchable, IndexedBeforeInsert, Stored

\* While Elasticsearch does not fail, onMessage indexes a text before it inserts it.
LEMMA OnMessageSearchable ==
  ASSUME Shape, Data, Searchable, "es" \notin Faults,
         NEW s \in Storage, onMessage(s)
  PROVE  Searchable'
<1> USE DEF handlerVars, callbackVars, stores
<1>1. CASE IndexMessage(s)
  BY <1>1 DEF IndexMessage, Searchable, TextSearchable, IndexedBeforeInsert,
              Stored, Shape, TypeOK
<1>2. CASE InsertMessage(s)
  <2>1. Stored' = Stored \cup {cur[s]}
    BY <1>2, InsertStores
  <2>2. /\ pc[s] = "insert" /\ pc' = [pc EXCEPT ![s] = "ack"]
        /\ UNCHANGED <<cur, docs>>
    BY <1>2 DEF InsertMessage
  <2>3. QED
    BY <2>1, <2>2 DEF Searchable, TextSearchable, IndexedBeforeInsert,
                      Shape, TypeOK
<1>3. CASE PutSingleFile(s)
  <2>1. /\ pc[s] = "upload" /\ pc' = [pc EXCEPT ![s] = "insert"]
        /\ UNCHANGED <<cur, docs, rows>>
    BY <1>3 DEF PutSingleFile
  <2>2. Kind[cur[s]] \in FileKinds
    BY <2>1 DEF Data, CallbackDataOK
  <2>3. QED
    BY <2>1, <2>2 DEF Searchable, TextSearchable, IndexedBeforeInsert,
                      Stored, Shape, TypeOK
<1>4. CASE PutSingleFileReplyLost(s) \/ PutSingleFileFails(s)
             \/ InsertMessageFails(s)
  <2>1. /\ pc' = pc \/ pc' = [pc EXCEPT ![s] = "ack"]
        /\ UNCHANGED <<cur, docs, rows>>
    BY <1>4 DEF PutSingleFileReplyLost, PutSingleFileFails,
                InsertMessageFails
  <2>2. QED
    BY <2>1 DEF Searchable, TextSearchable, IndexedBeforeInsert,
                Stored, Shape, TypeOK
<1>5. ~IndexMessageFails(s)
  BY DEF IndexMessageFails, Fault
<1>6. QED
  BY <1>1, <1>2, <1>3, <1>4, <1>5 DEF onMessage

\* The end of a callback, by acknowledgement or by a loss, disturbs no index entry.
LEMMA CallbackEndsSearchable ==
  ASSUME Shape, Searchable, NEW s \in Storage,
         BeginMessage(s) \/ Ack(s) \/ StorageCrash(s)
  PROVE  Searchable'
<1> USE DEF handlerVars, callbackVars, stores
<1>1. CASE BeginMessage(s)
  <2> DEFINE m == Head(unacked[s])
  <2>1. m \in Request
    BY <1>1 DEF BeginMessage, Shape, TypeOK
  <2>2. FirstStep(m) # "insert"
    BY <2>1, KindAssumption DEF FirstStep
  <2>3. /\ pc' = [pc EXCEPT ![s] = FirstStep(m)]
        /\ cur' = [cur EXCEPT ![s] = m]
        /\ UNCHANGED <<docs, rows>>
    BY <1>1 DEF BeginMessage
  <2> HIDE DEF m
  <2>4. QED
    BY <2>2, <2>3 DEF Searchable, TextSearchable, IndexedBeforeInsert,
                      Stored, Shape, TypeOK
<1>2. CASE Ack(s) \/ StorageCrash(s)
  BY <1>2 DEF Ack, StorageCrash, EndCallback, Searchable, TextSearchable,
              IndexedBeforeInsert, Stored, Shape, TypeOK
<1>3. QED  BY <1>1, <1>2

\* While Elasticsearch does not fail, every step keeps stored texts searchable.
LEMMA NextSearchable ==
  ASSUME "es" \notin Faults
  PROVE  Shape /\ Data /\ Searchable /\ [Next]_vars => Searchable'
<1> SUFFICES ASSUME Shape, Data, Searchable, [Next]_vars PROVE Searchable'
  OBVIOUS
<1> USE DEF vars, handlerVars, callbackVars, stores
<1>1. ASSUME NEW r \in Request, GetTransmitTarget(r) PROVE Searchable'
  BY <1>1, SearchableFrame
     DEF GetTransmitTarget, LookupSender, LookupSenderFails, QueryMembers,
         QueryMembersFails, Publish, PublishFails, Reply
<1>2. CASE Flush \/ TransmitCrash \/ TransmitLinkLost \/ TransmitRestart
  BY <1>2, SearchableFrame
     DEF Flush, TransmitCrash, TransmitLinkLost, TransmitRestart
<1>3. ASSUME NEW s \in Storage,
             Deliver(s) \/ StorageLinkLost(s) \/ StorageRestart(s)
      PROVE  Searchable'
  BY <1>3, SearchableFrame DEF Deliver, StorageLinkLost, StorageRestart
<1>4. CASE BrokerRestart \/ UNCHANGED vars
  BY <1>4, SearchableFrame DEF BrokerRestart
<1>5. QED
  BY <1>1, <1>2, <1>3, <1>4, OnMessageSearchable, CallbackEndsSearchable
     DEF Next, Failure, Restart

\* As long as Elasticsearch accepts what it is given, a text message with a
\* row has a document, whatever else fails in between.
THEOREM HistoryIsSearchable ==
  ASSUME "es" \notin Faults
  PROVE  Spec => []TextSearchable
<1>1. Searchable => TextSearchable
  BY DEF Searchable
<1>2. Shape /\ Data /\ Searchable /\ [Next]_vars => Searchable'
  BY NextSearchable
<1>3. QED
  BY <1>1, <1>2, InitShape, NextShape, InitData, NextData, InitSearchable,
     PTL DEF Spec

-----------------------------------------------------------------------------
(* The pipeline implements the message log.                                  *)

\* The verdict of a message takes one of three values.
LEMMA VerdictValues ==
  /\ VerdictOf("ok") = "accepted"
  /\ VerdictOf("failed") = "rejected"
  /\ VerdictOf("lost") = "unknown"
  /\ \A state \in {"new", "members", "publish", "reply"} :
        VerdictOf(state) = "pending"
  BY DEF VerdictOf

\* A handler step gives at most one verdict, and "rejected" only to a
\* message that left no trace.
LEMMA HandlerImplements ==
  ASSUME Shape, FlowOK, NEW r \in Request, GetTransmitTarget(r)
  PROVE  [Log!Next]_(Log!absVars)
<1> USE DEF handlerVars, callbackVars, stores
<1>1. /\ req \in [Request -> ReqState]
      /\ UNCHANGED <<Stored, docs>>
  BY DEF Shape, TypeOK, GetTransmitTarget, LookupSender, LookupSenderFails,
         QueryMembers, QueryMembersFails, Publish, PublishFails, Reply,
         Stored
<1>2. CASE LookupSender(r) \/ QueryMembers(r) \/ QueryMembersFails(r)
             \/ Publish(r)
  <2>1. PICK state \in {"members", "publish", "reply"} :
           req' = [req EXCEPT ![r] = state]
    BY <1>2 DEF LookupSender, QueryMembers, QueryMembersFails, Publish
  <2>2. req[r] \in {"new", "members", "publish"}
    BY <1>2 DEF LookupSender, QueryMembers, QueryMembersFails, Publish
  <2>3. Verdicts' = Verdicts
    BY <1>1, <2>1, <2>2, VerdictValues DEF Verdicts
  <2>4. QED  BY <1>1, <2>3 DEF Log!absVars
<1>3. CASE LookupSenderFails(r) \/ PublishFails(r)
  <2>1. req[r] \in {"new", "publish"} /\ req' = [req EXCEPT ![r] = "failed"]
    BY <1>3 DEF LookupSenderFails, PublishFails
  <2>2. r \notin Stored \cup docs
    BY <2>1 DEF FlowOK, LeavesTrace, Published
  <2>3. /\ Verdicts[r] = "pending"
        /\ Verdicts' = [Verdicts EXCEPT ![r] = "rejected"]
    BY <1>1, <2>1, VerdictValues DEF Verdicts
  <2>4. Log!Reject(r)
    BY <1>1, <2>2, <2>3 DEF Log!Reject
  <2>5. QED  BY <2>4 DEF Log!Next
<1>4. CASE Reply(r)
  <2>1. req[r] = "reply" /\ req' = [req EXCEPT ![r] = "ok"]
    BY <1>4 DEF Reply
  <2>2. /\ Verdicts[r] = "pending"
        /\ Verdicts' = [Verdicts EXCEPT ![r] = "accepted"]
    BY <1>1, <2>1, VerdictValues DEF Verdicts
  <2>3. Log!Accept(r)
    BY <1>1, <2>2 DEF Log!Accept
  <2>4. QED  BY <2>3 DEF Log!Next
<1>5. QED
  BY <1>2, <1>3, <1>4 DEF GetTransmitTarget

\* onMessage stores and indexes messages that were not rejected.
LEMMA OnMessageImplements ==
  ASSUME Shape, FlowOK, NEW s \in Storage, onMessage(s)
  PROVE  [Log!Next]_(Log!absVars)
<1> USE DEF handlerVars, callbackVars, stores
<1>1. cur[s] \in Request
  <2>1. pc[s] # "idle"
    BY DEF onMessage, IndexMessage, IndexMessageFails, PutSingleFile,
           PutSingleFileReplyLost, PutSingleFileFails, InsertMessage,
           InsertMessageFails
  <2>2. QED  BY <2>1 DEF Shape, TypeOK, CallbackOK
<1>2. Verdicts[cur[s]] # "rejected"
  <2>1. req[cur[s]] \in {"reply", "ok", "lost"}
    BY <1>1 DEF FlowOK, Published
  <2>2. QED  BY <1>1, <2>1, VerdictValues DEF Verdicts
<1>3. Verdicts' = Verdicts
  BY DEF Verdicts, onMessage, IndexMessage, IndexMessageFails,
         PutSingleFile, PutSingleFileReplyLost, PutSingleFileFails,
         InsertMessage, InsertMessageFails
<1>4. CASE IndexMessage(s)
  <2>1. docs' = docs \cup {cur[s]} /\ Stored' = Stored
    BY <1>4 DEF IndexMessage, Stored
  <2>2. CASE cur[s] \in docs
    <3>1. docs' = docs
      BY <2>1, <2>2
    <3>2. QED  BY <1>3, <2>1, <3>1 DEF Log!absVars
  <2>3. CASE cur[s] \notin docs
    <3>1. Log!Index(cur[s])
      BY <1>2, <1>3, <2>1, <2>3 DEF Log!Index
    <3>2. QED  BY <1>1, <3>1 DEF Log!Next
  <2>4. QED  BY <2>2, <2>3
<1>5. CASE InsertMessage(s)
  <2>1. Stored' = Stored \cup {cur[s]} /\ docs' = docs
    BY <1>5, InsertStores DEF InsertMessage
  <2>2. CASE cur[s] \in Stored
    <3>1. Stored' = Stored
      BY <2>1, <2>2
    <3>2. QED  BY <1>3, <2>1, <3>1 DEF Log!absVars
  <2>3. CASE cur[s] \notin Stored
    <3>1. Log!Store(cur[s])
      BY <1>2, <1>3, <2>1, <2>3 DEF Log!Store
    <3>2. QED  BY <1>1, <3>1 DEF Log!Next
  <2>4. QED  BY <2>2, <2>3
<1>6. CASE ~IndexMessage(s) /\ ~InsertMessage(s)
  <2>1. UNCHANGED <<Stored, docs>>
    BY <1>6 DEF onMessage, IndexMessageFails, PutSingleFile,
                PutSingleFileReplyLost, PutSingleFileFails,
                InsertMessageFails, Stored
  <2>2. QED  BY <1>3, <2>1 DEF Log!absVars
<1>7. QED  BY <1>4, <1>5, <1>6

\* A crash of msgTransmit abandons the callers whose handlers were running.
LEMMA CrashImplements ==
  ASSUME Shape, TransmitCrash
  PROVE  [Log!Next]_(Log!absVars)
<1> DEFINE M == {r \in Request : req[r] \in {"members", "publish", "reply"}}
<1>1. req \in [Request -> ReqState]
  BY DEF Shape, TypeOK
<1>2. UNCHANGED <<Stored, docs>>
  BY DEF TransmitCrash, stores, Stored
<1>3. \A m \in M : Verdicts[m] = "pending"
  BY VerdictValues DEF Verdicts
<1>4. \A m \in Request : req'[m] = IF m \in M THEN "lost" ELSE req[m]
  BY DEF TransmitCrash
<1>5. Verdicts' = [m \in Request |->
                     IF m \in M THEN "unknown" ELSE Verdicts[m]]
  BY <1>4, VerdictValues DEF Verdicts
<1>6. Log!Abandon(M)
  BY <1>2, <1>3, <1>5 DEF Log!Abandon
<1>7. M \in SUBSET Request
  OBVIOUS
<1> HIDE DEF M
<1>8. QED  BY <1>6, <1>7 DEF Log!Next

\* The broker, the acks and the other failures are invisible.
LEMMA QuietImplements ==
  ASSUME UNCHANGED <<req, rows, docs>>
  PROVE  UNCHANGED Log!absVars
  BY DEF Log!absVars, Verdicts, Stored

\* The initial states of the pipeline are initial states of the message log.
LEMMA InitImplements == Init => Log!Init
  BY VerdictValues DEF Init, Log!Init, Verdicts, Stored

\* Every step of the pipeline is a step of the message log or changes nothing in it.
LEMMA NextImplements ==
  Shape /\ FlowOK /\ [Next]_vars => [Log!Next]_(Log!absVars)
<1> SUFFICES ASSUME Shape, FlowOK, [Next]_vars
             PROVE  [Log!Next]_(Log!absVars)
  OBVIOUS
<1> USE DEF vars, handlerVars, callbackVars, stores
<1>1. ASSUME NEW s \in Storage,
             \/ Deliver(s) \/ BeginMessage(s) \/ Ack(s)
             \/ StorageCrash(s) \/ StorageLinkLost(s) \/ StorageRestart(s)
      PROVE  UNCHANGED Log!absVars
  BY <1>1, QuietImplements
     DEF Deliver, BeginMessage, Ack, StorageCrash, StorageLinkLost,
         StorageRestart
<1>2. CASE \/ Flush \/ TransmitLinkLost \/ TransmitRestart
           \/ BrokerRestart \/ UNCHANGED vars
  BY <1>2, QuietImplements
     DEF Flush, TransmitLinkLost, TransmitRestart, BrokerRestart
<1>3. QED
  BY <1>1, <1>2, HandlerImplements, OnMessageImplements, CrashImplements
     DEF Next, Failure, Restart

\* Seen from callers and readers, the services behave like one message log:
\* verdicts are final, a message appears at most once, what was rejected
\* never appears and what appeared stays.
THEOREM PipelineImplementsLog == Spec => ImplementsMessageLog
  BY InitImplements, NextImplements, InitShape, NextShape, InitFlow,
     NextFlow, PTL DEF Spec, ImplementsMessageLog, Log!Spec
=============================================================================
