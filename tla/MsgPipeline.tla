------------------------------ MODULE MsgPipeline ------------------------------
(***************************************************************************)
(* The path of one chat message: the msgTransmit service answers           *)
(* GetTransmitTarget and publishes the message to RabbitMQ; the msgStorage *)
(* services consume the queue and write the message to Elasticsearch, the  *)
(* file service and the MySQL message table.                               *)
(*                                                                         *)
(* A request is identified with the message it creates: uuid() gives every *)
(* GetTransmitTarget call a message id of its own.                         *)
(***************************************************************************)
EXTENDS Naturals, Sequences, FiniteSets

CONSTANTS
    Request,      \* GetTransmitTarget calls, and the messages they create
    Storage,      \* msgStorage processes consuming the same queue
    FileId,       \* uuids the file service gives to new files
    User,         \* users
    Kind,         \* [Request -> Kinds], message_content.message_type
    Member,       \* members of the chat session the requests address
    NoFile,       \* the null file_id column of a text message
    None,         \* no message
    Faults,       \* the kinds of failure that may happen
    MaxFaults,    \* bound: how many failures happen in one behaviour
    MaxRetry      \* ChannelOptions.max_retry of every RPC channel

FileKinds == {"IMAGE", "FILE", "SPEECH"}
Kinds == {"STRING", "OTHER"} \cup FileKinds

FaultKinds == {"mysql", "es", "file", "fileReply", "storageCrash",
               "storageLink", "transmitCrash", "transmitLink", "broker"}

ASSUME KindAssumption == Kind \in [Request -> Kinds]
ASSUME MemberAssumption == Member \subseteq User
ASSUME FaultAssumption == Faults \subseteq FaultKinds
ASSUME BoundAssumption == MaxFaults \in Nat /\ MaxRetry \in Nat
ASSUME NullAssumption == NoFile \notin FileId /\ None \notin Request

VARIABLES
    req,       \* [Request -> ReqState], where each RPC handler stands
    targets,   \* [Request -> SUBSET User], target_id of the response
    transmit,  \* Link, the msgTransmit process and its AMQP connection
    outbox,    \* publishes buffered in msgTransmit, not yet at the broker
    queue,     \* ready messages of the broker's queue
    unacked,   \* [Storage -> Seq(Request)], delivered and not acknowledged
    storage,   \* [Storage -> Link], each process and its AMQP connection
    pc,        \* [Storage -> Step], where the consumer callback stands
    cur,       \* [Storage -> Request or None], the message in the callback
    fid,       \* [Storage -> FileId or NoFile], file_id the callback holds
    tries,     \* [Storage -> 0..MaxRetry], PutSingleFile replies lost so far
    docs,      \* message ids in the Elasticsearch index "message"
    files,     \* [FileId -> Request or None], whose content a file holds
    rows,      \* the MySQL message table
    faults     \* failures so far

handlerVars == <<req, targets>>
callbackVars == <<pc, cur, fid, tries>>
stores == <<docs, files, rows>>
vars == <<req, targets, transmit, outbox, queue, unacked, storage,
          pc, cur, fid, tries, docs, files, rows, faults>>

\* "open": connected.  "closed": the process runs but its only AMQP
\* connection is gone, and no code opens another.  "down": no process.
Link == {"open", "closed", "down"}
ReqState == {"new", "members", "publish", "reply", "ok", "failed", "lost"}
Step == {"idle", "index", "upload", "insert", "ack"}
Row == [msg : Request, file : FileId \cup {NoFile}]

Stored == {row.msg : row \in rows}
InSeq(m, q) == \E i \in DOMAIN q : q[i] = m

\* The message still travels: some queue will hand it to a callback.
InFlight(m) ==
    \/ InSeq(m, outbox)
    \/ InSeq(m, queue)
    \/ \E s \in Storage : InSeq(m, unacked[s])

Init ==
    /\ req = [r \in Request |-> "new"]
    /\ targets = [r \in Request |-> {}]
    /\ transmit = "open"
    /\ outbox = <<>>
    /\ queue = <<>>
    /\ unacked = [s \in Storage |-> <<>>]
    /\ storage = [s \in Storage |-> "open"]
    /\ pc = [s \in Storage |-> "idle"]
    /\ cur = [s \in Storage |-> None]
    /\ fid = [s \in Storage |-> NoFile]
    /\ tries = [s \in Storage |-> 0]
    /\ docs = {}
    /\ files = [f \in FileId |-> None]
    /\ rows = {}
    /\ faults = 0

Fault(kind) ==
    /\ kind \in Faults
    /\ faults < MaxFaults
    /\ faults' = faults + 1

-----------------------------------------------------------------------------
(* msgTransmit: the GetTransmitTarget handler, one action between two       *)
(* blocking calls.                                                          *)

\* getChannel and GetSingleUserInfo succeeded.
LookupSender(r) ==
    /\ transmit # "down"
    /\ req[r] = "new"
    /\ req' = [req EXCEPT ![r] = "members"]
    /\ UNCHANGED <<targets, transmit, outbox, queue, unacked, storage,
                   callbackVars, stores, faults>>

\* No user service host, the RPC failed, or there is no such user.
LookupSenderFails(r) ==
    /\ transmit # "down"
    /\ req[r] = "new"
    /\ req' = [req EXCEPT ![r] = "failed"]
    /\ UNCHANGED <<targets, transmit, outbox, queue, unacked, storage,
                   callbackVars, stores, faults>>

QueryMembers(r) ==
    /\ req[r] = "members"
    /\ req' = [req EXCEPT ![r] = "publish"]
    /\ targets' = [targets EXCEPT ![r] = Member]
    /\ UNCHANGED <<transmit, outbox, queue, unacked, storage,
                   callbackVars, stores, faults>>

\* members() turns a failed query into an empty list; the handler goes on.
QueryMembersFails(r) ==
    /\ req[r] = "members"
    /\ Fault("mysql")
    /\ req' = [req EXCEPT ![r] = "publish"]
    /\ UNCHANGED <<targets, transmit, outbox, queue, unacked, storage,
                   callbackVars, stores>>

\* Faulty: publish tries again although the frames are buffered.
PublishTwice(r) ==
    /\ req[r] = "publish"
    /\ transmit = "open"
    /\ outbox' = outbox \o <<r, r>>
    /\ req' = [req EXCEPT ![r] = "reply"]
    /\ UNCHANGED <<targets, transmit, queue, unacked, storage,
                   callbackVars, stores, faults>>

\* TcpChannel::publish returns true once the frames are buffered.
Publish(r) ==
    /\ req[r] = "publish"
    /\ transmit = "open"
    /\ outbox' = Append(outbox, r)
    /\ req' = [req EXCEPT ![r] = "reply"]
    /\ UNCHANGED <<targets, transmit, queue, unacked, storage,
                   callbackVars, stores, faults>>

\* Faulty: publish reports failure for frames it has already buffered.
PublishFailsLate(r) ==
    /\ req[r] = "publish"
    /\ transmit = "open"
    /\ outbox' = Append(outbox, r)
    /\ req' = [req EXCEPT ![r] = "failed"]
    /\ UNCHANGED <<targets, transmit, queue, unacked, storage,
                   callbackVars, stores, faults>>

\* The channel is not usable any more.
PublishFails(r) ==
    /\ req[r] = "publish"
    /\ transmit = "closed"
    /\ req' = [req EXCEPT ![r] = "failed"]
    /\ UNCHANGED <<targets, transmit, outbox, queue, unacked, storage,
                   callbackVars, stores, faults>>

Reply(r) ==
    /\ req[r] = "reply"
    /\ req' = [req EXCEPT ![r] = "ok"]
    /\ UNCHANGED <<targets, transmit, outbox, queue, unacked, storage,
                   callbackVars, stores, faults>>

-----------------------------------------------------------------------------
(* RabbitMQ, as the code uses it: a queue declared without flags, consumed  *)
(* without prefetch limit, publishes without confirms.                      *)

\* The event loop of msgTransmit writes a buffered publish to the broker.
Flush ==
    /\ transmit = "open"
    /\ outbox # <<>>
    /\ queue' = Append(queue, Head(outbox))
    /\ outbox' = Tail(outbox)
    /\ UNCHANGED <<handlerVars, transmit, unacked, storage,
                   callbackVars, stores, faults>>

Deliver(s) ==
    /\ storage[s] = "open"
    /\ queue # <<>>
    /\ unacked' = [unacked EXCEPT ![s] = Append(@, Head(queue))]
    /\ queue' = Tail(queue)
    /\ UNCHANGED <<handlerVars, transmit, outbox, storage,
                   callbackVars, stores, faults>>

-----------------------------------------------------------------------------
(* msgStorage: the consumer callback (onMessage, then ack), run by the one  *)
(* event loop thread of the process.                                        *)

\* Faulty: text goes to MySQL only.
FirstStepNoIndex(m) ==
    CASE Kind[m] = "STRING" -> "insert"
      [] Kind[m] \in FileKinds -> "upload"
      [] OTHER -> "ack"

\* What onMessage calls first depends on the type of the message.
FirstStep(m) ==
    CASE Kind[m] = "STRING" -> "index"
      [] Kind[m] \in FileKinds -> "upload"
      [] OTHER -> "ack"

BeginMessage(s) ==
    /\ storage[s] = "open"
    /\ pc[s] = "idle"
    /\ unacked[s] # <<>>
    /\ LET m == Head(unacked[s])
       IN  /\ cur' = [cur EXCEPT ![s] = m]
           /\ pc' = [pc EXCEPT ![s] = FirstStep(m)]
    /\ UNCHANGED <<handlerVars, transmit, outbox, queue, unacked, storage,
                   fid, tries, stores, faults>>

\* ESMessage::add writes the document whose id is the message id.
IndexMessage(s) ==
    /\ pc[s] = "index"
    /\ docs' = docs \cup {cur[s]}
    /\ pc' = [pc EXCEPT ![s] = "insert"]
    /\ UNCHANGED <<handlerVars, transmit, outbox, queue, unacked, storage,
                   cur, fid, tries, files, rows, faults>>

\* The result of ESMessage::add is not looked at.
IndexMessageFails(s) ==
    /\ pc[s] = "index"
    /\ Fault("es")
    /\ pc' = [pc EXCEPT ![s] = "insert"]
    /\ UNCHANGED <<handlerVars, transmit, outbox, queue, unacked, storage,
                   cur, fid, tries, stores>>

\* The request carries no file_id: every call creates a file of its own.
PutSingleFile(s) ==
    /\ pc[s] = "upload"
    /\ \E f \in FileId :
         /\ files[f] = None
         /\ files' = [files EXCEPT ![f] = cur[s]]
         /\ fid' = [fid EXCEPT ![s] = f]
    /\ pc' = [pc EXCEPT ![s] = "insert"]
    /\ UNCHANGED <<handlerVars, transmit, outbox, queue, unacked, storage,
                   cur, tries, docs, rows, faults>>

\* Faulty: one attempt too many.
RetryOnceMore(s) == tries[s] <= MaxRetry

MayRetry(s) == tries[s] < MaxRetry

\* The file is written but the connection breaks before the reply: brpc
\* sends the request again, up to MaxRetry times.
PutSingleFileReplyLost(s) ==
    /\ pc[s] = "upload"
    /\ Fault("fileReply")
    /\ \E f \in FileId :
         /\ files[f] = None
         /\ files' = [files EXCEPT ![f] = cur[s]]
    /\ IF MayRetry(s)
       THEN /\ tries' = [tries EXCEPT ![s] = @ + 1]
            /\ UNCHANGED pc
       ELSE /\ pc' = [pc EXCEPT ![s] = "ack"]
            /\ UNCHANGED tries
    /\ UNCHANGED <<handlerVars, transmit, outbox, queue, unacked, storage,
                   cur, fid, docs, rows>>

\* No file service host, the RPC failed, or the file was not written.
PutSingleFileFails(s) ==
    /\ pc[s] = "upload"
    /\ Fault("file")
    /\ pc' = [pc EXCEPT ![s] = "ack"]
    /\ UNCHANGED <<handlerVars, transmit, outbox, queue, unacked, storage,
                   cur, fid, tries, stores>>

\* Faulty: message_id is not unique.
PersistDuplicate(row) == rows \cup {row}

\* message_id is a unique column: persisting a second row for the message
\* throws, and insert() turns the exception into a logged failure.
Persist(row) == IF row.msg \in Stored THEN rows ELSE rows \cup {row}

InsertMessage(s) ==
    /\ pc[s] = "insert"
    /\ rows' = Persist([msg |-> cur[s], file |-> fid[s]])
    /\ pc' = [pc EXCEPT ![s] = "ack"]
    /\ UNCHANGED <<handlerVars, transmit, outbox, queue, unacked, storage,
                   cur, fid, tries, docs, files, faults>>

InsertMessageFails(s) ==
    /\ pc[s] = "insert"
    /\ Fault("mysql")
    /\ pc' = [pc EXCEPT ![s] = "ack"]
    /\ UNCHANGED <<handlerVars, transmit, outbox, queue, unacked, storage,
                   cur, fid, tries, stores>>

\* Faulty: the ack is forgotten, so the message is handled again.
AckNothing(s) == unacked

\* The oldest delivery is acknowledged; on a closed connection the ack goes
\* nowhere.
AckHead(s) ==
    IF storage[s] = "open" THEN [unacked EXCEPT ![s] = Tail(@)] ELSE unacked

\* Faulty: the file information outlives the callback.
KeepFileInfo(s) ==
    /\ pc' = [pc EXCEPT ![s] = "idle"]
    /\ cur' = [cur EXCEPT ![s] = None]
    /\ tries' = [tries EXCEPT ![s] = 0]
    /\ UNCHANGED fid

\* message, fileInfo and the brpc controller are locals of onMessage.
EndCallback(s) ==
    /\ pc' = [pc EXCEPT ![s] = "idle"]
    /\ cur' = [cur EXCEPT ![s] = None]
    /\ fid' = [fid EXCEPT ![s] = NoFile]
    /\ tries' = [tries EXCEPT ![s] = 0]

\* consume() acknowledges whatever onMessage did.
Ack(s) ==
    /\ pc[s] = "ack"
    /\ unacked' = AckHead(s)
    /\ EndCallback(s)
    /\ UNCHANGED <<handlerVars, transmit, outbox, queue, storage,
                   stores, faults>>

-----------------------------------------------------------------------------
(* Crashes, broken connections and restarts.                                *)

\* Faulty: deliveries count as acknowledged at once (the noack flag).
ForgetUnacked(s) ==
    /\ UNCHANGED queue
    /\ unacked' = [unacked EXCEPT ![s] = <<>>]

\* The broker puts the unacknowledged messages of a gone consumer back
\* where they were, at the head of the queue.
Requeue(s) ==
    /\ queue' = unacked[s] \o queue
    /\ unacked' = [unacked EXCEPT ![s] = <<>>]

StorageCrash(s) ==
    /\ storage[s] # "down"
    /\ Fault("storageCrash")
    /\ Requeue(s)
    /\ storage' = [storage EXCEPT ![s] = "down"]
    /\ EndCallback(s)
    /\ UNCHANGED <<handlerVars, transmit, outbox, stores>>

\* The callback that is running goes on; no further message reaches it.
StorageLinkLost(s) ==
    /\ storage[s] = "open"
    /\ Fault("storageLink")
    /\ Requeue(s)
    /\ storage' = [storage EXCEPT ![s] = "closed"]
    /\ UNCHANGED <<handlerVars, transmit, outbox, callbackVars, stores>>

StorageRestart(s) ==
    /\ storage[s] = "down"
    /\ storage' = [storage EXCEPT ![s] = "open"]
    /\ UNCHANGED <<handlerVars, transmit, outbox, queue, unacked,
                   callbackVars, stores, faults>>

\* Handlers and buffered publishes die with the process.
TransmitCrash ==
    /\ transmit # "down"
    /\ Fault("transmitCrash")
    /\ transmit' = "down"
    /\ outbox' = <<>>
    /\ req' = [r \in Request |->
                 IF req[r] \in {"members", "publish", "reply"}
                 THEN "lost" ELSE req[r]]
    /\ UNCHANGED <<targets, queue, unacked, storage, callbackVars, stores>>

TransmitLinkLost ==
    /\ transmit = "open"
    /\ Fault("transmitLink")
    /\ transmit' = "closed"
    /\ outbox' = <<>>
    /\ UNCHANGED <<handlerVars, queue, unacked, storage,
                   callbackVars, stores>>

TransmitRestart ==
    /\ transmit = "down"
    /\ transmit' = "open"
    /\ UNCHANGED <<handlerVars, outbox, queue, unacked, storage,
                   callbackVars, stores, faults>>

\* The queue is not durable: a restarted broker has lost it, and with it
\* every connection.
BrokerRestart ==
    /\ Fault("broker")
    /\ queue' = <<>>
    /\ unacked' = [s \in Storage |-> <<>>]
    /\ outbox' = <<>>
    /\ transmit' = IF transmit = "open" THEN "closed" ELSE transmit
    /\ storage' = [s \in Storage |->
                     IF storage[s] = "open" THEN "closed" ELSE storage[s]]
    /\ UNCHANGED <<handlerVars, callbackVars, stores>>

-----------------------------------------------------------------------------

GetTransmitTarget(r) ==
    \/ LookupSender(r) \/ LookupSenderFails(r)
    \/ QueryMembers(r) \/ QueryMembersFails(r)
    \/ Publish(r) \/ PublishFails(r)
    \/ Reply(r)

onMessage(s) ==
    \/ IndexMessage(s) \/ IndexMessageFails(s)
    \/ PutSingleFile(s) \/ PutSingleFileReplyLost(s) \/ PutSingleFileFails(s)
    \/ InsertMessage(s) \/ InsertMessageFails(s)

Failure ==
    \/ \E s \in Storage : StorageCrash(s) \/ StorageLinkLost(s)
    \/ TransmitCrash \/ TransmitLinkLost
    \/ BrokerRestart

Restart ==
    \/ \E s \in Storage : StorageRestart(s)
    \/ TransmitRestart

Next ==
    \/ \E r \in Request : GetTransmitTarget(r)
    \/ Flush
    \/ \E s \in Storage :
         Deliver(s) \/ BeginMessage(s) \/ onMessage(s) \/ Ack(s)
    \/ Failure
    \/ Restart

Spec == Init /\ [][Next]_vars

\* Threads that can run do run, and the broker keeps delivering.  Nobody
\* promises to restart a crashed process.
Fairness ==
    /\ \A r \in Request : WF_vars(GetTransmitTarget(r))
    /\ WF_vars(Flush)
    /\ \A s \in Storage : /\ WF_vars(Deliver(s))
                          /\ WF_vars(BeginMessage(s))
                          /\ WF_vars(onMessage(s))
                          /\ WF_vars(Ack(s))

FairSpec == Spec /\ Fairness

-----------------------------------------------------------------------------

TypeOK ==
    /\ req \in [Request -> ReqState]
    /\ targets \in [Request -> SUBSET User]
    /\ transmit \in Link
    /\ outbox \in Seq(Request)
    /\ queue \in Seq(Request)
    /\ unacked \in [Storage -> Seq(Request)]
    /\ storage \in [Storage -> Link]
    /\ pc \in [Storage -> Step]
    /\ cur \in [Storage -> Request \cup {None}]
    /\ fid \in [Storage -> FileId \cup {NoFile}]
    /\ tries \in [Storage -> 0..MaxRetry]
    /\ docs \subseteq Request
    /\ files \in [FileId -> Request \cup {None}]
    /\ rows \subseteq Row
    /\ faults \in Nat

\* The message table never holds two rows of one message, however often the
\* message is delivered and even when two processes handle it at once: the
\* second insert of onMessage fails.
AtMostOneRow == \A a, b \in rows : a.msg = b.msg => a = b

\* Something of the message is left anywhere.
LeavesTrace(r) ==
    \/ InFlight(r)
    \/ r \in Stored \cup docs
    \/ \E f \in FileId : files[f] = r

\* A caller that was told "failed" never sees its message later: it is in no
\* queue, in no table, in no index and in no file.
RejectedUnseen == \A r \in Request : req[r] = "failed" => ~LeavesTrace(r)

\* The row of an image, file or speech message names a file that holds this
\* message's content; the row of a text message names no file.  A redelivery,
\* a retried upload or another process never mixes them up.
RowsHoldOwnFile ==
    \A row \in rows :
        IF Kind[row.msg] \in FileKinds
        THEN row.file \in FileId /\ files[row.file] = row.msg
        ELSE row.file = NoFile

\* A callback works on the oldest delivery of its connection; what it holds
\* besides is its own and fits the type of the message.
CallbackOK ==
    \A s \in Storage :
        /\ (pc[s] = "idle") <=> (cur[s] = None)
        /\ storage[s] = "down" => pc[s] = "idle"
        /\ storage[s] = "open" /\ pc[s] # "idle"
              => unacked[s] # <<>> /\ Head(unacked[s]) = cur[s]
        /\ storage[s] # "open" => unacked[s] = <<>>

CallbackDataOK ==
    \A s \in Storage :
        /\ pc[s] \in {"idle", "index", "upload"} => fid[s] = NoFile
        /\ pc[s] = "index" => Kind[cur[s]] = "STRING"
        /\ pc[s] = "upload" => Kind[cur[s]] \in FileKinds
        /\ pc[s] = "insert" =>
              IF Kind[cur[s]] \in FileKinds
              THEN fid[s] \in FileId /\ files[fid[s]] = cur[s]
              ELSE fid[s] = NoFile

\* Whatever exists of a message came from a successful publish.
Published(r) == req[r] \in {"reply", "ok", "lost"}

FlowOK ==
    \A r \in Request :
        LeavesTrace(r) \/ (\E s \in Storage : cur[s] = r) => Published(r)

\* The inductive invariant behind the safety properties above.
IInv ==
    /\ TypeOK
    /\ CallbackOK
    /\ CallbackDataOK
    /\ FlowOK
    /\ AtMostOneRow
    /\ RowsHoldOwnFile

Once(q) == \A i, j \in DOMAIN q : q[i] = q[j] => i = j

\* Buffers, queue and deliveries hold a message once between them, so at
\* most one connected consumer works on it: connections that break give
\* deliveries back, and never leave a second copy.
SingleCopy ==
    /\ Once(outbox) /\ Once(queue) /\ \A s \in Storage : Once(unacked[s])
    /\ \A r \in Request : ~(InSeq(r, outbox) /\ InSeq(r, queue))
    /\ \A s \in Storage, r \in Request :
          InSeq(r, unacked[s]) =>
              /\ ~InSeq(r, outbox) /\ ~InSeq(r, queue)
              /\ \A t \in Storage : InSeq(r, unacked[t]) => t = s

FilesOf(r) == {f \in FileId : files[f] = r}

\* Callbacks that go on uploading after their connection is gone.
Detached(r) ==
    {s \in Storage : cur[s] = r /\ pc[s] = "upload" /\ storage[s] = "closed"}

\* The one copy of the message still has an upload before it.
Due(r) ==
    \/ req[r] \in {"new", "members", "publish"}
    \/ InSeq(r, outbox) \/ InSeq(r, queue)
    \/ \E s \in Storage :
          InSeq(r, unacked[s]) /\ ~(cur[s] = r /\ pc[s] \in {"insert", "ack"})

\* What makes the next property inductive: files that are there and uploads
\* to come are paid for by the first delivery and the failures.
UploadsPaid ==
    \A r \in Request :
        Cardinality(FilesOf(r)) + Cardinality(Detached(r))
            + (IF Due(r) THEN 1 ELSE 0) <= 1 + faults

\* Each failure costs at most one file that no row names: redeliveries do
\* not fill the file service with copies of one message.
OrphanFilesBounded ==
    \A r \in Request :
        Cardinality(FilesOf(r)) <= 1 + faults

\* Failures of a consumer or of the search index.
ConsumerFaults == {"storageCrash", "storageLink", "es"}

\* A message whose publish succeeded is still on its way or in the message
\* table: acknowledging after onMessage means that crashes and broken
\* connections of the consumers (ConsumerFaults) lose nothing.
AcceptedNotLost ==
    \A r \in Request :
        req[r] \in {"reply", "ok"} /\ Kind[r] # "OTHER"
            => InFlight(r) \/ r \in Stored

\* Whatever text message the history shows, search finds too: onMessage
\* indexes before it inserts, also when it is interrupted in between.
TextSearchable ==
    \A m \in Stored : Kind[m] = "STRING" => m \in docs

\* The success response names every member of the chat session.
ForwardsToMembers ==
    \A r \in Request : req[r] = "ok" => targets[r] = Member

\* A message whose sender was told "success" gets its row, as long as one
\* consumer survives.
EventuallyStored ==
    \A r \in Request :
        (req[r] = "ok" /\ Kind[r] # "OTHER") ~> (r \in Stored)

\* Towards callers and readers the services behave like one message log.
VerdictOf(state) ==
    CASE state = "ok" -> "accepted"
      [] state = "failed" -> "rejected"
      [] state = "lost" -> "unknown"
      [] OTHER -> "pending"

Verdicts == [r \in Request |-> VerdictOf(req[r])]

Log == INSTANCE MessageLog WITH
    Message <- Request, verdict <- Verdicts, stored <- Stored, indexed <- docs

\* Every step of the pipeline is a step of the message log or invisible.
ImplementsMessageLog == Log!Spec

FileService == INSTANCE Uploads WITH
    FileId <- FileId, Content <- Request, None <- None, shelf <- files

\* Of the file service the pipeline takes nothing for granted but uploads, with
\* replies or without.
TakesUploads == FileService!Spec
=============================================================================
