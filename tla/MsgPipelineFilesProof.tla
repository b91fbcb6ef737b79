------------------------- MODULE MsgPipelineFilesProof -------------------------
(***************************************************************************)
(* A message is in one place at a time, and failures bound how many files  *)
(* it leaves: theorems about MsgPipeline, on top of the invariants that    *)
(* MsgPipelineProof establishes.                                           *)
(***************************************************************************)
EXTENDS MsgPipelineProof, FiniteSetTheorems

-----------------------------------------------------------------------------
(* Queues without repetition.                                               *)

\* Appending a new element repeats nothing.
LEMMA OnceAppend ==
  ASSUME NEW S, NEW q \in Seq(S), NEW x \in S, Once(q), ~InSeq(x, q)
  PROVE  Once(Append(q, x))
<1>1. /\ DOMAIN Append(q, x) = 1..(Len(q) + 1)
      /\ DOMAIN q = 1..Len(q)
      /\ Len(q) \in Nat
      /\ \A i \in 1..Len(q) : Append(q, x)[i] = q[i]
      /\ Append(q, x)[Len(q) + 1] = x
  OBVIOUS
<1>2. SUFFICES ASSUME NEW i \in 1..(Len(q) + 1), NEW j \in 1..(Len(q) + 1),
                      Append(q, x)[i] = Append(q, x)[j]
               PROVE  i = j
  BY <1>1 DEF Once
<1>3. CASE i \in 1..Len(q) /\ j \in 1..Len(q)
  BY <1>1, <1>2, <1>3 DEF Once
<1>4. CASE i = Len(q) + 1 /\ j \in 1..Len(q)
  BY <1>1, <1>2, <1>4 DEF InSeq
<1>5. CASE i \in 1..Len(q) /\ j = Len(q) + 1
  BY <1>1, <1>2, <1>5 DEF InSeq
<1>6. QED
  BY <1>1, <1>3, <1>4, <1>5

\* What is left of a queue does not repeat its head.
LEMMA OnceTail ==
  ASSUME NEW S, NEW q \in Seq(S), q # <<>>, Once(q)
  PROVE  Once(Tail(q)) /\ ~InSeq(Head(q), Tail(q))
<1>1. /\ DOMAIN q = 1..Len(q)
      /\ Len(q) \in Nat \ {0}
      /\ DOMAIN Tail(q) = 1..(Len(q) - 1)
      /\ \A i \in 1..(Len(q) - 1) : Tail(q)[i] = q[i + 1]
      /\ Head(q) = q[1]
  OBVIOUS
<1>2. \A i \in 1..(Len(q) - 1) : i + 1 \in 1..Len(q)
  BY <1>1
<1>3. Once(Tail(q))
  <2>1. SUFFICES ASSUME NEW i \in 1..(Len(q) - 1), NEW j \in 1..(Len(q) - 1),
                        q[i + 1] = q[j + 1]
                 PROVE  i = j
    BY <1>1 DEF Once
  <2>2. i + 1 = j + 1
    BY <1>1, <1>2, <2>1 DEF Once
  <2>3. QED  BY <2>2
<1>4. ASSUME NEW i \in 1..(Len(q) - 1), q[i + 1] = q[1] PROVE FALSE
  <2>1. 1 \in 1..Len(q) /\ i + 1 # 1
    BY <1>1
  <2>2. QED  BY <1>1, <1>2, <1>4, <2>1 DEF Once
<1>5. QED  BY <1>1, <1>3, <1>4 DEF InSeq

\* Queues without common elements can be joined.
LEMMA OnceConcat ==
  ASSUME NEW S, NEW p \in Seq(S), NEW q \in Seq(S), Once(p), Once(q),
         \A m \in S : ~(InSeq(m, p) /\ InSeq(m, q))
  PROVE  Once(p \o q)
<1>1. /\ DOMAIN p = 1..Len(p) /\ Len(p) \in Nat
      /\ DOMAIN q = 1..Len(q) /\ Len(q) \in Nat
      /\ DOMAIN (p \o q) = 1..(Len(p) + Len(q))
      /\ \A i \in 1..(Len(p) + Len(q)) :
            (p \o q)[i] = IF i <= Len(p) THEN p[i] ELSE q[i - Len(p)]
  OBVIOUS
<1>2. ASSUME NEW i \in 1..Len(p), NEW j \in 1..Len(q) PROVE p[i] # q[j]
  <2>1. p[i] \in S
    OBVIOUS
  <2>2. QED  BY <1>1, <2>1 DEF InSeq
<1>3. SUFFICES ASSUME NEW i \in 1..(Len(p) + Len(q)),
                      NEW j \in 1..(Len(p) + Len(q)),
                      (p \o q)[i] = (p \o q)[j]
               PROVE  i = j
  BY <1>1 DEF Once
<1>4. CASE i <= Len(p) /\ j <= Len(p)
  <2>1. i \in 1..Len(p) /\ j \in 1..Len(p) /\ p[i] = p[j]
    BY <1>1, <1>3, <1>4
  <2>2. QED  BY <1>1, <2>1 DEF Once
<1>5. CASE ~(i <= Len(p)) /\ ~(j <= Len(p))
  <2>1. /\ i - Len(p) \in 1..Len(q) /\ j - Len(p) \in 1..Len(q)
        /\ q[i - Len(p)] = q[j - Len(p)]
    BY <1>1, <1>3, <1>5
  <2>2. i - Len(p) = j - Len(p)
    BY <1>1, <2>1 DEF Once
  <2>3. QED  BY <1>1, <2>2
<1>6. CASE i <= Len(p) /\ ~(j <= Len(p))
  <2>1. /\ i \in 1..Len(p) /\ j - Len(p) \in 1..Len(q)
        /\ p[i] = q[j - Len(p)]
    BY <1>1, <1>3, <1>6
  <2>2. QED  BY <1>2, <2>1
<1>7. CASE ~(i <= Len(p)) /\ j <= Len(p)
  <2>1. /\ j \in 1..Len(p) /\ i - Len(p) \in 1..Len(q)
        /\ p[j] = q[i - Len(p)]
    BY <1>1, <1>3, <1>7
  <2>2. QED  BY <1>2, <2>1
<1>8. QED  BY <1>4, <1>5, <1>6, <1>7

\* The empty queue repeats nothing.
LEMMA OnceEmpty == Once(<<>>)
  BY DEF Once

-----------------------------------------------------------------------------
(* One copy.                                                                *)

\* A message is published when nothing of it is anywhere.
LEMMA PublishSingle ==
  ASSUME Shape, FlowOK, SingleCopy, NEW r \in Request, Publish(r)
  PROVE  SingleCopy'
<1>1. /\ outbox \in Seq(Request) /\ outbox' = Append(outbox, r)
      /\ UNCHANGED <<queue, unacked>> /\ req[r] = "publish"
  BY DEF Publish, Shape, TypeOK
<1>2. ~InFlight(r)
  BY <1>1 DEF FlowOK, LeavesTrace, Published
<1>3. \A m : InSeq(m, outbox') <=> InSeq(m, outbox) \/ m = r
  BY <1>1, InAppend
<1>4. Once(outbox')
  BY <1>1, <1>2, OnceAppend DEF InFlight, SingleCopy
<1>5. QED
  BY <1>1, <1>2, <1>3, <1>4 DEF SingleCopy, InFlight

\* The buffer's head moves to the end of the queue.
LEMMA FlushSingle ==
  ASSUME Shape, SingleCopy, Flush
  PROVE  SingleCopy'
<1>1. /\ outbox \in Seq(Request) /\ outbox # <<>>
      /\ queue \in Seq(Request)
      /\ queue' = Append(queue, Head(outbox))
      /\ outbox' = Tail(outbox)
      /\ unacked' = unacked
  BY DEF Flush, Shape, TypeOK
<1> DEFINE x == Head(outbox)
<1>2. x \in Request
  BY <1>1
<1>3. \A m : InSeq(m, queue') <=> InSeq(m, queue) \/ m = x
  BY <1>1, <1>2, InAppend
<1>4. \A m : InSeq(m, outbox) <=> InSeq(m, outbox') \/ m = x
  BY <1>1, InTail
<1>5. Once(outbox') /\ ~InSeq(x, outbox')
  BY <1>1, OnceTail DEF SingleCopy
<1>6. ~InSeq(x, queue) /\ \A s \in Storage : ~InSeq(x, unacked[s])
  BY <1>2, <1>4 DEF SingleCopy
<1>7. Once(queue')
  BY <1>1, <1>2, <1>6, OnceAppend DEF SingleCopy
<1> HIDE DEF x
<1>8. QED
  BY <1>1, <1>2, <1>3, <1>4, <1>5, <1>6, <1>7 DEF SingleCopy

\* The queue's head moves to one consumer.
LEMMA DeliverSingle ==
  ASSUME Shape, SingleCopy, NEW s \in Storage, Deliver(s)
  PROVE  SingleCopy'
<1>1. /\ queue \in Seq(Request) /\ queue # <<>>
      /\ unacked \in [Storage -> Seq(Request)]
      /\ unacked' = [unacked EXCEPT ![s] = Append(@, Head(queue))]
      /\ queue' = Tail(queue)
      /\ outbox' = outbox
  BY DEF Deliver, Shape, TypeOK
<1> DEFINE x == Head(queue)
<1>2. x \in Request /\ unacked[s] \in Seq(Request)
  BY <1>1
<1>3. /\ unacked'[s] = Append(unacked[s], x)
      /\ \A t \in Storage \ {s} : unacked'[t] = unacked[t]
  BY <1>1
<1>4. \A m : InSeq(m, unacked'[s]) <=> InSeq(m, unacked[s]) \/ m = x
  BY <1>2, <1>3, InAppend
<1>5. \A m : InSeq(m, queue) <=> InSeq(m, queue') \/ m = x
  BY <1>1, InTail
<1>6. Once(queue') /\ ~InSeq(x, queue')
  BY <1>1, OnceTail DEF SingleCopy
<1>7. ~InSeq(x, outbox) /\ \A t \in Storage : ~InSeq(x, unacked[t])
  BY <1>2, <1>5 DEF SingleCopy
<1>8. Once(unacked'[s])
  BY <1>2, <1>3, <1>7, OnceAppend DEF SingleCopy
<1> HIDE DEF x
<1>9. QED
  BY <1>1, <1>2, <1>3, <1>4, <1>5, <1>6, <1>7, <1>8 DEF SingleCopy

\* A lost consumer's deliveries move back to the queue.
LEMMA RequeueSingle ==
  ASSUME Shape, SingleCopy, NEW s \in Storage, Requeue(s), outbox' = outbox
  PROVE  SingleCopy'
<1>1. /\ queue \in Seq(Request)
      /\ unacked \in [Storage -> Seq(Request)]
      /\ queue' = unacked[s] \o queue
      /\ unacked' = [unacked EXCEPT ![s] = <<>>]
  BY DEF Requeue, Shape, TypeOK
<1>2. unacked[s] \in Seq(Request)
  BY <1>1
<1>3. \A m : InSeq(m, queue') <=> InSeq(m, unacked[s]) \/ InSeq(m, queue)
  BY <1>1, <1>2, InConcat
<1>4. /\ unacked'[s] = <<>> /\ \A m : ~InSeq(m, unacked'[s])
      /\ \A t \in Storage \ {s} : unacked'[t] = unacked[t]
  BY <1>1, InEmpty
<1>5. Once(queue')
  BY <1>1, <1>2, OnceConcat DEF SingleCopy
<1>6. \A t \in Storage : Once(unacked'[t])
  BY <1>4, OnceEmpty DEF SingleCopy
<1>7. QED
  BY <1>3, <1>4, <1>5, <1>6 DEF SingleCopy

\* An ack takes the head out of the deliveries.
LEMMA AckSingle ==
  ASSUME Shape, SingleCopy, NEW s \in Storage, Ack(s)
  PROVE  SingleCopy'
<1>1. /\ unacked \in [Storage -> Seq(Request)]
      /\ UNCHANGED <<outbox, queue>>
      /\ pc[s] # "idle"
  BY DEF Ack, Shape, TypeOK
<1>2. CASE storage[s] # "open"
  <2>1. unacked' = unacked
    BY <1>2 DEF Ack, AckHead
  <2>2. QED  BY <1>1, <2>1 DEF SingleCopy
<1>3. CASE storage[s] = "open"
  <2>1. /\ unacked[s] \in Seq(Request) /\ unacked[s] # <<>>
    BY <1>1, <1>3 DEF Shape, CallbackOK
  <2>2. /\ unacked'[s] = Tail(unacked[s])
        /\ \A t \in Storage \ {s} : unacked'[t] = unacked[t]
    BY <1>1, <1>3 DEF Ack, AckHead
  <2>3. \A m : InSeq(m, unacked'[s]) => InSeq(m, unacked[s])
    BY <2>1, <2>2, InTail
  <2>4. Once(unacked'[s])
    BY <2>1, <2>2, OnceTail DEF SingleCopy
  <2>5. QED  BY <1>1, <2>2, <2>3, <2>4 DEF SingleCopy
<1>4. QED  BY <1>2, <1>3

\* Losing queues and buffers copies nothing.
LEMMA LossSingle ==
  ASSUME SingleCopy, TransmitCrash \/ TransmitLinkLost \/ BrokerRestart
  PROVE  SingleCopy'
<1>1. CASE TransmitCrash \/ TransmitLinkLost
  BY <1>1, InEmpty, OnceEmpty DEF TransmitCrash, TransmitLinkLost, SingleCopy
<1>2. CASE BrokerRestart
  BY <1>2, InEmpty, OnceEmpty DEF BrokerRestart, SingleCopy
<1>3. QED  BY <1>1, <1>2

\* The other steps leave the queues alone.
LEMMA QuietSingle ==
  ASSUME SingleCopy, UNCHANGED <<outbox, queue, unacked>>
  PROVE  SingleCopy'
  BY DEF SingleCopy

\* Every step keeps a message in one place.
LEMMA NextSingle ==
  Shape /\ FlowOK /\ SingleCopy /\ [Next]_vars => SingleCopy'
<1> SUFFICES ASSUME Shape, FlowOK, SingleCopy, [Next]_vars
             PROVE  SingleCopy'
  OBVIOUS
<1>1. ASSUME NEW r \in Request, GetTransmitTarget(r) PROVE SingleCopy'
  <2>1. CASE Publish(r)
    BY <2>1, PublishSingle
  <2>2. CASE ~Publish(r)
    BY <1>1, <2>2, QuietSingle
       DEF GetTransmitTarget, LookupSender, LookupSenderFails, QueryMembers,
           QueryMembersFails, PublishFails, Reply
  <2>3. QED  BY <2>1, <2>2
<1>2. ASSUME NEW s \in Storage, BeginMessage(s) \/ onMessage(s) \/ StorageRestart(s)
      PROVE  SingleCopy'
  BY <1>2, QuietSingle
     DEF BeginMessage, onMessage, IndexMessage, IndexMessageFails,
         PutSingleFile, PutSingleFileReplyLost, PutSingleFileFails,
         InsertMessage, InsertMessageFails, StorageRestart
<1>3. ASSUME NEW s \in Storage, StorageCrash(s) \/ StorageLinkLost(s)
      PROVE  SingleCopy'
  BY <1>3, RequeueSingle DEF StorageCrash, StorageLinkLost
<1>4. CASE TransmitRestart
  BY <1>4, QuietSingle DEF TransmitRestart
<1>5. CASE UNCHANGED vars
  BY <1>5, QuietSingle DEF vars
<1>6. QED
  BY <1>1, <1>2, <1>3, <1>4, <1>5, FlushSingle, DeliverSingle, AckSingle,
     LossSingle DEF Next, Failure, Restart

\* At the start no message is anywhere.
LEMMA InitSingle == Init => SingleCopy
  BY InEmpty, OnceEmpty DEF Init, SingleCopy

\* The broker's places hold a message once between them, whatever fails.
THEOREM OneCopyPerMessage == Spec => []SingleCopy
  BY InitShape, NextShape, InitFlow, NextFlow, InitSingle, NextSingle, PTL
     DEF Spec

-----------------------------------------------------------------------------
(* What a message's files cost.                                             *)

\* UploadsPaid for one message, with the sets it counts.
Paid(r) ==
    /\ IsFiniteSet(FilesOf(r)) /\ IsFiniteSet(Detached(r))
    /\ Cardinality(FilesOf(r)) + Cardinality(Detached(r))
           + (IF Due(r) THEN 1 ELSE 0) <= 1 + faults

\* How a set may change, and its size with it.
LEMMA Sizes ==
  ASSUME NEW S, IsFiniteSet(S), NEW T, NEW x
  PROVE  /\ Cardinality(S) \in Nat
         /\ T \subseteq S \cup {x} =>
               /\ IsFiniteSet(T) /\ Cardinality(T) \in Nat
               /\ Cardinality(T) <= Cardinality(S) + 1
         /\ T \subseteq S =>
               /\ IsFiniteSet(T) /\ Cardinality(T) \in Nat
               /\ Cardinality(T) <= Cardinality(S)
         /\ x \in S /\ T \subseteq S \ {x} =>
               Cardinality(T) <= Cardinality(S) - 1
<1>1. Cardinality(S) \in Nat
  BY FS_CardinalityType
<1>2. /\ IsFiniteSet(S \cup {x}) /\ IsFiniteSet(S \ {x})
      /\ Cardinality(S \cup {x}) <= Cardinality(S) + 1
      /\ x \in S => Cardinality(S \ {x}) = Cardinality(S) - 1
  BY <1>1, FS_AddElement, FS_RemoveElement
<1>3. T \subseteq S \cup {x} =>
         /\ IsFiniteSet(T) /\ Cardinality(T) \in Nat
         /\ Cardinality(T) <= Cardinality(S \cup {x})
  BY <1>2, FS_Subset, FS_CardinalityType
<1>4. T \subseteq S =>
         /\ IsFiniteSet(T) /\ Cardinality(T) \in Nat
         /\ Cardinality(T) <= Cardinality(S)
  BY FS_Subset, FS_CardinalityType
<1>5. T \subseteq S \ {x} =>
         Cardinality(T) \in Nat /\ Cardinality(T) <= Cardinality(S \ {x})
  BY <1>2, FS_Subset, FS_CardinalityType
<1>6. Cardinality(S \cup {x}) \in Nat /\ Cardinality(S \ {x}) \in Nat
  BY <1>2, FS_CardinalityType
<1>7. QED  BY <1>1, <1>2, <1>3, <1>4, <1>5, <1>6

\* No file and no upload more.
NoMore(r) ==
    /\ FilesOf(r)' \subseteq FilesOf(r)
    /\ Detached(r)' \subseteq Detached(r)
    /\ Due(r)' => Due(r)

\* The ways in which a step changes what a message costs: nothing is added;
\* a failure pays for one more delivery, for one more callback whose
\* connection is gone, or for one more file; or an upload that was due, or
\* one of a detached callback, becomes a file.
LEMMA Balance ==
  ASSUME NEW r, NEW x, Paid(r), faults \in Nat, faults' \in Nat,
         \/ NoMore(r) /\ faults <= faults'
         \/ /\ FilesOf(r)' \subseteq FilesOf(r)
            /\ Detached(r)' \subseteq Detached(r)
            /\ faults' = faults + 1
         \/ /\ FilesOf(r)' \subseteq FilesOf(r)
            /\ Detached(r)' \subseteq Detached(r) \cup {x}
            /\ Due(r) /\ faults' = faults + 1
         \/ /\ FilesOf(r)' \subseteq FilesOf(r) \cup {x}
            /\ Detached(r)' \subseteq Detached(r)
            /\ (Due(r)' => Due(r)) /\ faults' = faults + 1
         \/ /\ FilesOf(r)' \subseteq FilesOf(r) \cup {x}
            /\ Detached(r)' \subseteq Detached(r)
            /\ Due(r) /\ ~Due(r)' /\ faults' = faults
         \/ /\ FilesOf(r)' \subseteq FilesOf(r) \cup {x}
            /\ \E s \in Detached(r) : Detached(r)' \subseteq Detached(r) \ {s}
            /\ (Due(r)' => Due(r)) /\ faults' = faults
  PROVE  Paid(r)'
<1> DEFINE F == FilesOf(r)  D == Detached(r)  F1 == FilesOf(r)'  D1 == Detached(r)'
           A == Due(r)  B == Due(r)'
<1>1. /\ IsFiniteSet(F) /\ IsFiniteSet(D)
      /\ Cardinality(F) + Cardinality(D) + (IF A THEN 1 ELSE 0) <= 1 + faults
  BY DEF Paid
<1>2. SUFFICES
         /\ IsFiniteSet(F1) /\ IsFiniteSet(D1)
         /\ Cardinality(F1) + Cardinality(D1) + (IF B THEN 1 ELSE 0) <= 1 + faults'
  BY DEF Paid
<1>3. F1 \subseteq F \cup {x} /\ D1 \subseteq D \cup {x}
  BY DEF NoMore
<1>4. /\ Cardinality(F) \in Nat /\ Cardinality(D) \in Nat
      /\ IsFiniteSet(F1) /\ Cardinality(F1) \in Nat
      /\ IsFiniteSet(D1) /\ Cardinality(D1) \in Nat
      /\ Cardinality(F1) <= Cardinality(F) + 1
      /\ Cardinality(D1) <= Cardinality(D) + 1
      /\ F1 \subseteq F => Cardinality(F1) <= Cardinality(F)
      /\ D1 \subseteq D => Cardinality(D1) <= Cardinality(D)
      /\ \A s \in D : D1 \subseteq D \ {s} => Cardinality(D1) <= Cardinality(D) - 1
  BY <1>1, <1>3, Sizes
<1>5. /\ (IF A THEN 1 ELSE 0) \in {0, 1} /\ (IF B THEN 1 ELSE 0) \in {0, 1}
      /\ (B => A) => (IF B THEN 1 ELSE 0) <= (IF A THEN 1 ELSE 0)
      /\ A => (IF A THEN 1 ELSE 0) = 1
      /\ ~B => (IF B THEN 1 ELSE 0) = 0
  OBVIOUS
<1> DEFINE f == Cardinality(F)  d == Cardinality(D)
           f1 == Cardinality(F1)  d1 == Cardinality(D1)
           a == IF A THEN 1 ELSE 0  b == IF B THEN 1 ELSE 0
<1>6. \/ f1 <= f /\ d1 <= d /\ b <= a /\ faults <= faults'
      \/ f1 <= f /\ d1 <= d /\ faults' = faults + 1
      \/ f1 <= f /\ d1 <= d + 1 /\ a = 1 /\ faults' = faults + 1
      \/ f1 <= f + 1 /\ d1 <= d /\ b <= a /\ faults' = faults + 1
      \/ f1 <= f + 1 /\ d1 <= d /\ a = 1 /\ b = 0 /\ faults' = faults
      \/ f1 <= f + 1 /\ d1 <= d - 1 /\ b <= a /\ faults' = faults
  BY <1>4, <1>5 DEF NoMore
<1>7. f + d + a <= 1 + faults
  BY <1>1
<1>8. /\ f \in Nat /\ d \in Nat /\ f1 \in Nat /\ d1 \in Nat
      /\ a \in {0, 1} /\ b \in {0, 1}
  BY <1>4, <1>5
<1> HIDE DEF f, d, f1, d1, a, b
<1>9. f1 + d1 + b <= 1 + faults'
  <2>1. CASE f1 <= f /\ d1 <= d /\ b <= a /\ faults <= faults'
    <3>1. f1 + d1 + b <= f + d + a
      BY <2>1, <1>8
    <3>2. f1 + d1 + b \in Nat /\ f + d + a \in Nat
      BY <1>8
    <3>3. f1 + d1 + b <= 1 + faults
      BY <3>1, <3>2, <1>7
    <3>4. QED  BY <2>1, <3>2, <3>3
  <2>2. CASE f1 <= f /\ d1 <= d /\ faults' = faults + 1
    BY <2>2, <1>7, <1>8
  <2>3. CASE f1 <= f /\ d1 <= d + 1 /\ a = 1 /\ faults' = faults + 1
    BY <2>3, <1>7, <1>8
  <2>4. CASE f1 <= f + 1 /\ d1 <= d /\ b <= a /\ faults' = faults + 1
    BY <2>4, <1>7, <1>8
  <2>5. CASE f1 <= f + 1 /\ d1 <= d /\ a = 1 /\ b = 0 /\ faults' = faults
    BY <2>5, <1>7, <1>8
  <2>6. CASE f1 <= f + 1 /\ d1 <= d - 1 /\ b <= a /\ faults' = faults
    BY <2>6, <1>7, <1>8
  <2>7. QED  BY <1>6, <2>1, <2>2, <2>3, <2>4, <2>5, <2>6
<1>10. QED
  BY <1>4, <1>9 DEF f1, d1, b

\* What InSeq says of the queues before and after the steps that move messages.
LEMMA DueFlush ==
  ASSUME Shape, Flush, NEW r
  PROVE  Due(r)' => Due(r)
<1>1. /\ outbox \in Seq(Request) /\ outbox # <<>>
      /\ queue \in Seq(Request)
      /\ queue' = Append(queue, Head(outbox))
      /\ outbox' = Tail(outbox)
      /\ UNCHANGED <<unacked, req, cur, pc>>
  BY DEF Flush, Shape, TypeOK, handlerVars, callbackVars
<1>2. Head(outbox) \in Request
  BY <1>1
<1>3. InSeq(r, queue') <=> InSeq(r, queue) \/ r = Head(outbox)
  BY <1>1, <1>2, InAppend
<1>4. InSeq(r, outbox) <=> InSeq(r, outbox') \/ r = Head(outbox)
  BY <1>1, InTail
<1>5. QED  BY <1>1, <1>3, <1>4 DEF Due

\* A delivered message was due already.
LEMMA DueDeliver ==
  ASSUME Shape, NEW s \in Storage, Deliver(s), NEW r
  PROVE  Due(r)' => Due(r)
<1>1. /\ queue \in Seq(Request) /\ queue # <<>>
      /\ unacked \in [Storage -> Seq(Request)]
      /\ unacked' = [unacked EXCEPT ![s] = Append(@, Head(queue))]
      /\ queue' = Tail(queue)
      /\ UNCHANGED <<outbox, req, cur, pc>>
  BY DEF Deliver, Shape, TypeOK, handlerVars, callbackVars
<1>2. Head(queue) \in Request /\ unacked[s] \in Seq(Request)
  BY <1>1
<1>3. InSeq(r, Append(unacked[s], Head(queue)))
         <=> InSeq(r, unacked[s]) \/ r = Head(queue)
  BY <1>2, InAppend
<1>4. InSeq(r, queue) <=> InSeq(r, queue') \/ r = Head(queue)
  BY <1>1, InTail
<1>5. /\ unacked'[s] = Append(unacked[s], Head(queue))
      /\ \A t \in Storage \ {s} : unacked'[t] = unacked[t]
  BY <1>1
<1>6. QED  BY <1>1, <1>3, <1>4, <1>5 DEF Due

\* A message that is acknowledged is not due any more, and no other becomes so.
LEMMA DueAck ==
  ASSUME Shape, SingleCopy, NEW s \in Storage, Ack(s), NEW r
  PROVE  Due(r)' => Due(r)
<1>1. /\ unacked \in [Storage -> Seq(Request)]
      /\ cur \in [Storage -> Request \cup {None}]
      /\ pc \in [Storage -> Step]
      /\ UNCHANGED <<outbox, queue, req>>
      /\ pc[s] = "ack"
      /\ cur' = [cur EXCEPT ![s] = None]
      /\ pc' = [pc EXCEPT ![s] = "idle"]
  BY DEF Ack, EndCallback, Shape, TypeOK, handlerVars
<1>2. /\ \A t \in Storage \ {s} :
            unacked'[t] = unacked[t] /\ cur'[t] = cur[t] /\ pc'[t] = pc[t]
      /\ InSeq(r, unacked'[s]) => InSeq(r, unacked[s]) /\ r # cur[s]
  <2>1. CASE storage[s] # "open"
    <3>1. unacked' = unacked /\ unacked[s] = <<>>
      BY <2>1 DEF Ack, AckHead, Shape, CallbackOK
    <3>2. QED  BY <1>1, <3>1, InEmpty
  <2>2. CASE storage[s] = "open"
    <3>1. /\ unacked[s] \in Seq(Request) /\ unacked[s] # <<>>
          /\ Head(unacked[s]) = cur[s]
      BY <1>1, <2>2 DEF Shape, CallbackOK
    <3>2. /\ unacked'[s] = Tail(unacked[s])
          /\ \A t \in Storage \ {s} : unacked'[t] = unacked[t]
      BY <1>1, <2>2 DEF Ack, AckHead
    <3>3. /\ InSeq(r, unacked'[s]) => InSeq(r, unacked[s])
          /\ ~InSeq(cur[s], unacked'[s])
      BY <3>1, <3>2, InTail, OnceTail DEF SingleCopy
    <3>4. QED  BY <1>1, <3>2, <3>3
  <2>3. QED  BY <2>1, <2>2
<1>3. QED  BY <1>1, <1>2 DEF Due

\* A failure is counted, and nothing else changes the count.
LEMMA Counted ==
  ASSUME NEW kind, faults \in Nat, Fault(kind)
  PROVE  faults' = faults + 1 /\ faults' \in Nat /\ faults <= faults'
  BY DEF Fault

\* What a connected consumer uploads is the head of its deliveries, and due.
LEMMA AttachedDue ==
  ASSUME Shape, NEW s \in Storage, storage[s] = "open", pc[s] = "upload"
  PROVE  /\ cur[s] \in Request /\ InSeq(cur[s], unacked[s])
         /\ Due(cur[s])
<1>1. /\ unacked[s] \in Seq(Request) /\ unacked[s] # <<>>
      /\ Head(unacked[s]) = cur[s]
  BY DEF Shape, TypeOK, CallbackOK
<1>2. cur[s] \in Request /\ InSeq(cur[s], unacked[s])
  BY <1>1, InTail
<1>3. QED  BY <1>2 DEF Due

\* The services in front of the queue leave files and callbacks alone, and a
\* message that is not due does not become so.
LEMMA TransmitPaid ==
  ASSUME Shape, NEW r \in Request, Paid(r),
         \/ \E q \in Request : GetTransmitTarget(q)
         \/ Flush \/ TransmitCrash \/ TransmitLinkLost \/ TransmitRestart
  PROVE  Paid(r)'
<1> USE DEF handlerVars, callbackVars, stores
<1>1. faults \in Nat /\ req \in [Request -> ReqState]
  BY DEF Shape, TypeOK
<1>2. UNCHANGED <<files, storage, pc, cur>>
  BY DEF GetTransmitTarget, LookupSender, LookupSenderFails, QueryMembers,
         QueryMembersFails, Publish, PublishFails, Reply, Flush,
         TransmitCrash, TransmitLinkLost, TransmitRestart
<1>3. faults' \in Nat /\ faults <= faults'
  BY <1>1, Counted
     DEF GetTransmitTarget, LookupSender, LookupSenderFails, QueryMembers,
         QueryMembersFails, Publish, PublishFails, Reply, Flush,
         TransmitCrash, TransmitLinkLost, TransmitRestart
<1>4. FilesOf(r)' = FilesOf(r) /\ Detached(r)' = Detached(r)
  BY <1>2 DEF FilesOf, Detached
<1>5. Due(r)' => Due(r)
  <2>1. ASSUME NEW q \in Request, Publish(q) PROVE Due(r)' => Due(r)
    <3>1. InSeq(r, outbox') <=> InSeq(r, outbox) \/ r = q
      BY <2>1, InAppend DEF Publish, Shape, TypeOK
    <3>2. UNCHANGED <<queue, unacked>> /\ req' = [req EXCEPT ![q] = "reply"]
          /\ req[q] = "publish"
      BY <2>1 DEF Publish
    <3>3. QED  BY <1>1, <1>2, <3>1, <3>2 DEF Due
  <2>2. ASSUME NEW q \in Request, GetTransmitTarget(q), ~Publish(q)
        PROVE  Due(r)' => Due(r)
    <3>1. UNCHANGED <<outbox, queue, unacked>>
      BY <2>2 DEF GetTransmitTarget, LookupSender, LookupSenderFails,
                  QueryMembers, QueryMembersFails, PublishFails, Reply
    <3>2. req'[r] \in {"new", "members", "publish"} =>
             req[r] \in {"new", "members", "publish"}
      BY <1>1, <2>2
         DEF GetTransmitTarget, LookupSender, LookupSenderFails,
             QueryMembers, QueryMembersFails, PublishFails, Reply
    <3>3. QED  BY <1>2, <3>1, <3>2 DEF Due
  <2>3. CASE TransmitCrash \/ TransmitLinkLost
    <3>1. /\ outbox' = <<>> /\ UNCHANGED <<queue, unacked>>
          /\ req'[r] \in {"new", "members", "publish"} =>
                req[r] \in {"new", "members", "publish"}
      BY <1>1, <2>3 DEF TransmitCrash, TransmitLinkLost
    <3>2. QED  BY <1>2, <3>1, InEmpty DEF Due
  <2>4. CASE TransmitRestart
    BY <1>2, <2>4 DEF TransmitRestart, Due
  <2>5. QED  BY <2>1, <2>2, <2>3, <2>4, DueFlush
<1>6. QED
  BY <1>1, <1>3, <1>4, <1>5, Balance DEF NoMore

\* A file is paid for: by the delivery, which is not due any more, by the
\* failure that detached the callback, or by the failure that loses the reply.
LEMMA UploadPaid ==
  ASSUME Shape, FlowOK, SingleCopy, NEW r \in Request, Paid(r),
         NEW s \in Storage, PutSingleFile(s) \/ PutSingleFileReplyLost(s)
  PROVE  Paid(r)'
<1> USE DEF handlerVars, callbackVars, stores
<1>1. /\ faults \in Nat /\ files \in [FileId -> Request \cup {None}]
      /\ pc \in [Storage -> Step] /\ pc[s] = "upload"
      /\ UNCHANGED <<req, outbox, queue, unacked, storage, cur>>
  BY DEF Shape, TypeOK, PutSingleFile, PutSingleFileReplyLost
<1>2. PICK f \in FileId : files' = [files EXCEPT ![f] = cur[s]] /\ files[f] = None
  BY DEF PutSingleFile, PutSingleFileReplyLost
<1>3. /\ FilesOf(r)' \subseteq FilesOf(r) \cup {f}
      /\ r # cur[s] => FilesOf(r)' \subseteq FilesOf(r)
  BY <1>1, <1>2 DEF FilesOf
<1>4. pc' = [pc EXCEPT ![s] = "insert"] \/ pc' = [pc EXCEPT ![s] = "ack"] \/ pc' = pc
  BY DEF PutSingleFile, PutSingleFileReplyLost
<1>5. Detached(r)' \subseteq Detached(r) /\ (Due(r)' => Due(r))
  BY <1>1, <1>4 DEF Detached, Due
<1>6. CASE PutSingleFileReplyLost(s)
  BY <1>1, <1>3, <1>5, <1>6, Counted, Balance DEF PutSingleFileReplyLost
<1>7. CASE PutSingleFile(s)
  <2>1. pc' = [pc EXCEPT ![s] = "insert"] /\ faults' = faults
    BY <1>7 DEF PutSingleFile
  <2>2. CASE r # cur[s]
    BY <1>1, <1>3, <1>5, <2>1, <2>2, Balance DEF NoMore
  <2>3. CASE r = cur[s] /\ storage[s] = "open"
    <3>1. Due(r) /\ InSeq(r, unacked[s])
      BY <1>1, <2>3, AttachedDue
    <3>2. /\ ~InSeq(r, outbox) /\ ~InSeq(r, queue)
          /\ \A t \in Storage : InSeq(r, unacked[t]) => t = s
      BY <3>1 DEF SingleCopy
    <3>3. req[r] \notin {"new", "members", "publish"}
      BY <2>3 DEF FlowOK, Published
    <3>4. ~Due(r)'
      BY <1>1, <2>1, <2>3, <3>2, <3>3 DEF Due
    <3>5. QED  BY <1>1, <1>3, <1>5, <2>1, <3>1, <3>4, Balance
  <2>4. CASE r = cur[s] /\ storage[s] # "open"
    <3>1. storage[s] = "closed"
      BY <1>1, <2>4 DEF Shape, TypeOK, CallbackOK, Link
    <3>2. s \in Detached(r) /\ Detached(r)' \subseteq Detached(r) \ {s}
      BY <1>1, <2>1, <2>4, <3>1 DEF Detached
    <3>3. QED  BY <1>1, <1>3, <1>5, <2>1, <3>2, Balance
  <2>5. QED  BY <2>2, <2>3, <2>4
<1>8. QED  BY <1>6, <1>7

\* The steps of a consumer that create no file and break no connection.
LEMMA ConsumerPaid ==
  ASSUME Shape, SingleCopy, NEW r \in Request, Paid(r), NEW s \in Storage,
         \/ Deliver(s) \/ BeginMessage(s) \/ Ack(s) \/ StorageRestart(s)
         \/ IndexMessage(s) \/ IndexMessageFails(s) \/ PutSingleFileFails(s)
         \/ InsertMessage(s) \/ InsertMessageFails(s)
  PROVE  Paid(r)'
<1> USE DEF handlerVars, callbackVars, stores
<1>1. /\ faults \in Nat /\ pc \in [Storage -> Step]
      /\ cur \in [Storage -> Request \cup {None}]
      /\ storage \in [Storage -> Link]
  BY DEF Shape, TypeOK
<1>2. files' = files
  BY DEF Deliver, BeginMessage, Ack, StorageRestart, IndexMessage,
         IndexMessageFails, PutSingleFileFails, InsertMessage, InsertMessageFails
<1>3. faults' \in Nat /\ faults <= faults'
  BY <1>1, Counted
     DEF Deliver, BeginMessage, Ack, StorageRestart, IndexMessage,
         IndexMessageFails, PutSingleFileFails, InsertMessage, InsertMessageFails
<1>4. FilesOf(r)' = FilesOf(r)
  BY <1>2 DEF FilesOf
<1>5. CASE Deliver(s)
  <2>1. Detached(r)' = Detached(r)
    BY <1>5 DEF Deliver, Detached
  <2>2. QED  BY <1>1, <1>3, <1>4, <1>5, <2>1, DueDeliver, Balance DEF NoMore
<1>6. CASE BeginMessage(s)
  <2>1. /\ storage[s] = "open" /\ pc[s] = "idle"
        /\ UNCHANGED <<storage, req, outbox, queue, unacked>>
        /\ \A t \in Storage \ {s} : pc'[t] = pc[t] /\ cur'[t] = cur[t]
    BY <1>1, <1>6 DEF BeginMessage
  <2>2. Detached(r)' \subseteq Detached(r)
    BY <2>1 DEF Detached
  <2>3. Due(r)' => Due(r)
    BY <2>1 DEF Due
  <2>4. QED  BY <1>1, <1>3, <1>4, <2>2, <2>3, Balance DEF NoMore
<1>7. CASE Ack(s)
  <2>1. /\ storage' = storage
        /\ cur' = [cur EXCEPT ![s] = None] /\ pc' = [pc EXCEPT ![s] = "idle"]
    BY <1>7 DEF Ack, EndCallback
  <2>2. Detached(r)' \subseteq Detached(r)
    BY <1>1, <2>1 DEF Detached
  <2>3. QED  BY <1>1, <1>3, <1>4, <1>7, <2>2, DueAck, Balance DEF NoMore
<1>8. CASE StorageRestart(s)
  <2>1. /\ storage' = [storage EXCEPT ![s] = "open"]
        /\ UNCHANGED <<pc, cur, req, outbox, queue, unacked>>
    BY <1>8 DEF StorageRestart
  <2>2. Detached(r)' \subseteq Detached(r) /\ (Due(r)' => Due(r))
    BY <1>1, <2>1 DEF Detached, Due
  <2>3. QED  BY <1>1, <1>3, <1>4, <2>2, Balance DEF NoMore
<1>9. CASE \/ IndexMessage(s) \/ IndexMessageFails(s) \/ PutSingleFileFails(s)
           \/ InsertMessage(s) \/ InsertMessageFails(s)
  <2>1. /\ UNCHANGED <<storage, cur, req, outbox, queue, unacked>>
        /\ pc' = [pc EXCEPT ![s] = "insert"] \/ pc' = [pc EXCEPT ![s] = "ack"]
    BY <1>9 DEF IndexMessage, IndexMessageFails, PutSingleFileFails,
                InsertMessage, InsertMessageFails
  <2>2. Detached(r)' \subseteq Detached(r) /\ (Due(r)' => Due(r))
    BY <1>1, <2>1 DEF Detached, Due
  <2>3. QED  BY <1>1, <1>3, <1>4, <2>2, Balance DEF NoMore
<1>10. QED  BY <1>5, <1>6, <1>7, <1>8, <1>9

\* A failure of a consumer or the broker pays for one more delivery, or for
\* the callback that goes on without one.
LEMMA FailurePaid ==
  ASSUME Shape, SingleCopy, NEW r \in Request, Paid(r),
         \/ \E s \in Storage : StorageCrash(s) \/ StorageLinkLost(s)
         \/ BrokerRestart
  PROVE  Paid(r)'
<1> USE DEF handlerVars, callbackVars, stores
<1>1. /\ faults \in Nat /\ pc \in [Storage -> Step]
      /\ cur \in [Storage -> Request \cup {None}]
      /\ storage \in [Storage -> Link]
  BY DEF Shape, TypeOK
<1>2. faults' = faults + 1 /\ faults' \in Nat /\ files' = files
  BY <1>1, Counted DEF StorageCrash, StorageLinkLost, BrokerRestart
<1>3. FilesOf(r)' = FilesOf(r)
  BY <1>2 DEF FilesOf
<1>4. ASSUME NEW s \in Storage, StorageCrash(s) PROVE Paid(r)'
  <2>1. /\ storage' = [storage EXCEPT ![s] = "down"]
        /\ cur' = [cur EXCEPT ![s] = None] /\ pc' = [pc EXCEPT ![s] = "idle"]
    BY <1>4 DEF StorageCrash, EndCallback
  <2>2. Detached(r)' \subseteq Detached(r)
    BY <1>1, <2>1 DEF Detached
  <2>3. QED  BY <1>1, <1>2, <1>3, <2>2, Balance
<1>5. CASE (\E s \in Storage : StorageLinkLost(s)) \/ BrokerRestart
  <2>1. /\ UNCHANGED <<pc, cur>>
        /\ \A t \in Storage : storage'[t] = "closed" =>
              storage[t] \in {"open", "closed"}
    BY <1>1, <1>5 DEF StorageLinkLost, BrokerRestart
  <2>2. CASE \E t \in Storage :
                storage[t] = "open" /\ cur[t] = r /\ pc[t] = "upload"
    <3>1. PICK s \in Storage :
             storage[s] = "open" /\ cur[s] = r /\ pc[s] = "upload"
      BY <2>2
    <3>2. Due(r) /\ InSeq(r, unacked[s])
      BY <3>1, AttachedDue
    <3>3. ASSUME NEW t \in Storage, storage[t] = "open", cur[t] = r,
                 pc[t] = "upload"
          PROVE  t = s
      BY <3>2, <3>3, AttachedDue DEF SingleCopy
    <3>4. Detached(r)' \subseteq Detached(r) \cup {s}
      BY <2>1, <3>3 DEF Detached
    <3>5. QED  BY <1>1, <1>2, <1>3, <3>2, <3>4, Balance
  <2>3. CASE ~\E t \in Storage :
                storage[t] = "open" /\ cur[t] = r /\ pc[t] = "upload"
    <3>1. Detached(r)' \subseteq Detached(r)
      BY <2>1, <2>3 DEF Detached
    <3>2. QED  BY <1>1, <1>2, <1>3, <3>1, Balance
  <2>4. QED  BY <2>2, <2>3
<1>6. QED  BY <1>4, <1>5

AllPaid == \A r \in Request : Paid(r)

\* At the start every message has one upload before it, and one is paid for.
LEMMA InitPaid == Init => AllPaid
<1> SUFFICES ASSUME Init, NEW r \in Request PROVE Paid(r)
  BY DEF AllPaid
<1>1. FilesOf(r) = {} /\ Detached(r) = {} /\ faults = 0
  BY NullAssumption DEF Init, FilesOf, Detached
<1>2. QED  BY <1>1, FS_EmptySet DEF Paid

\* Every step keeps the balance.
LEMMA NextPaid ==
  Shape /\ FlowOK /\ SingleCopy /\ AllPaid /\ [Next]_vars => AllPaid'
<1> SUFFICES ASSUME Shape, FlowOK, SingleCopy, AllPaid, [Next]_vars,
                    NEW r \in Request
             PROVE  Paid(r)'
  BY DEF AllPaid
<1>1. Paid(r)
  BY DEF AllPaid
<1>2. CASE UNCHANGED vars
  BY <1>1, <1>2 DEF vars, Paid, FilesOf, Detached, Due, InSeq
<1>3. CASE Next
  BY <1>1, <1>3, TransmitPaid, UploadPaid, ConsumerPaid, FailurePaid
     DEF Next, onMessage, Failure, Restart
<1>4. QED  BY <1>2, <1>3

\* Files that are there and uploads to come are paid for by the first
\* delivery and the failures, in every state.
THEOREM UploadsArePaid == Spec => []UploadsPaid
<1>1. AllPaid => UploadsPaid
  BY DEF AllPaid, Paid, UploadsPaid
<1>2. QED
  BY <1>1, InitShape, NextShape, InitFlow, NextFlow, InitSingle, NextSingle,
     InitPaid, NextPaid, PTL DEF Spec

\* No message ever fills the file service: each failure costs at most one
\* file that no row names.
THEOREM OrphansAreBounded == Spec => []OrphanFilesBounded
<1>1. Shape /\ AllPaid => OrphanFilesBounded
  <2>1. SUFFICES ASSUME Shape, AllPaid, NEW r \in Request
                 PROVE  Cardinality(FilesOf(r)) <= 1 + faults
    BY DEF OrphanFilesBounded
  <2>2. /\ Cardinality(FilesOf(r)) + Cardinality(Detached(r))
              + (IF Due(r) THEN 1 ELSE 0) <= 1 + faults
        /\ Cardinality(FilesOf(r)) \in Nat /\ Cardinality(Detached(r)) \in Nat
    BY <2>1, FS_CardinalityType DEF AllPaid, Paid
  <2>3. (IF Due(r) THEN 1 ELSE 0) \in {0, 1} /\ faults \in Nat
    BY <2>1 DEF Shape, TypeOK
  <2>4. QED  BY <2>2, <2>3
<1>2. QED
  BY <1>1, InitShape, NextShape, InitFlow, NextFlow, InitSingle, NextSingle,
     InitPaid, NextPaid, PTL DEF Spec

\* What every callback does to the files is an upload of its message, whether
\* it hears of it or not, and nothing else touches them.
THEOREM FilesComeByUpload == Spec => TakesUploads
<1>1. Init => FileService!Init
  BY DEF Init, FileService!Init
<1>2. ASSUME Shape, [Next]_vars
      PROVE  [FileService!Next]_files
  <2>1. ASSUME NEW s \in Storage,
               PutSingleFile(s) \/ PutSingleFileReplyLost(s)
        PROVE  FileService!Next
    <3>1. PICK f \in FileId : /\ files[f] = None
                              /\ files' = [files EXCEPT ![f] = cur[s]]
      BY <2>1 DEF PutSingleFile, PutSingleFileReplyLost
    <3>2. pc[s] = "upload"
      BY <2>1 DEF PutSingleFile, PutSingleFileReplyLost
    <3>3. cur[s] \in Request
      BY <1>2, <3>2 DEF Shape, TypeOK, CallbackOK
    <3>4. files'[f] = cur[s]
      BY <1>2, <3>1 DEF Shape, TypeOK
    <3>5. FileService!Upload(f)
      BY <3>1, <3>3, <3>4 DEF FileService!Upload
    <3> QED BY <3>5 DEF FileService!Next
  <2>2. ASSUME NEW r \in Request, GetTransmitTarget(r)
        PROVE  files' = files
    BY <2>2 DEF GetTransmitTarget, LookupSender, LookupSenderFails,
       QueryMembers, QueryMembersFails, Publish, PublishFails, Reply, stores
  <2>3. ASSUME NEW s \in Storage,
               \/ Deliver(s) \/ BeginMessage(s) \/ Ack(s)
               \/ IndexMessage(s) \/ IndexMessageFails(s)
               \/ PutSingleFileFails(s)
               \/ InsertMessage(s) \/ InsertMessageFails(s)
        PROVE  files' = files
    BY <2>3 DEF Deliver, BeginMessage, Ack, IndexMessage, IndexMessageFails,
       PutSingleFileFails, InsertMessage, InsertMessageFails, stores
  <2>4. CASE Flush \/ Failure \/ Restart
    BY <2>4 DEF Flush, Failure, StorageCrash, StorageLinkLost, TransmitCrash,
       TransmitLinkLost, BrokerRestart, Restart, StorageRestart,
       TransmitRestart, stores
  <2>5. CASE UNCHANGED vars
    BY <2>5 DEF vars
  <2> QED BY <1>2, <2>1, <2>2, <2>3, <2>4, <2>5 DEF Next, onMessage
<1>3. Shape /\ [Next]_vars => [FileService!Next]_files
  BY <1>2
<1> QED BY <1>1, <1>3, InitShape, NextShape, PTL
        DEF Spec, TakesUploads, FileService!Spec
=============================================================================
