# Instant messaging backend: specification and proofs

TLA+ models of the services under `src/code/server/` (C++, brpc, RabbitMQ,
MySQL/ODB, Elasticsearch, redis, etcd), TLC configurations that check them on
small instances, and theorems about them checked by TLAPS. Paths below are
relative to `src/code/server/` unless they start with `src/`; `msgStorage/设计`
is the repository's design document.

Contents: 1 inventory, 2 modules and code, 3 runs, 4 fairness, 5 proofs,
6 where code and comments disagree, 7 abstractions, 8 what is not modelled,
9 plan.

## 1. Inventory

The system is a set of processes. Each registers itself in etcd under a lease
(`common/etcd.hpp`), finds the others through `ServiceDiscover` and
`RPCServiceManager`, and answers brpc calls with two worker threads
(`num_threads = 2` in every `*_server.cc`), so the handlers of one process run
concurrently. RPC channels have no timeout and `max_retry = 3`
(`common/rpcService.hpp`).

| component | state | operations | interacts with |
|---|---|---|---|
| msgTransmit (`msgTransmit/src/msgTransmitServer.hpp`) | one AMQP connection and its send buffer | `GetTransmitTarget` | user service (RPC), session member table (MySQL), RabbitMQ exchange |
| msgStorage, consumer (`msgStorage/src/msgStorageServer.hpp:352-`, `common/rabbitMQ.hpp`) | message table, index "message", files it asks for | `onMessage` per delivery, then an acknowledgement | RabbitMQ queue, file service, MySQL, Elasticsearch |
| msgStorage, queries (same file) | none of its own | `GetHistoryMessage`, `GetRecentMessage`, `MessageSearch` | MySQL, Elasticsearch, file service, user service |
| RPC service manager (`common/rpcService.hpp`) | `_channels`, `_hostMapPtr`, `_RRIndex` per service, two levels of mutex | `serviceOnline`, `serviceOffline`, `getChannel` | called by discovery callbacks and by every handler |
| registration and discovery (`common/etcd.hpp`) | keys under leases, a watch, two callbacks | `registerService`, the listing of the constructor, the watcher callback | etcd, service manager |
| user service (`user/src/userServer.hpp`, `common/user-mysql.hpp`, `common/data-redis.hpp`, `common/data-es.hpp`) | user table, index "user", codes, sessions, login statuses | two registrations, two logins, the code, five setters, two reads | MySQL, Elasticsearch, redis, file service, SMS |
| file service (`file/src/fileServer.hpp`, `common/utils.hpp`) | one directory | `GetSingleFile`, `GetMultiFile`, `PutSingleFile`, `PutMultiFile` | the file system |
| identifiers, local time (`common/utils.hpp`) | a wrapping counter | `uuid`, `vCode`, time conversions | everyone |
| speech recognition (`speechRecognition/src/`) | none | one forwarded call | Baidu speech API |
| friend service, gateway (`msgStorage/设计:35-55`) | | designed, no code | |
| client factories, logging, request builders | none | construction | |

What is hard in each, and what makes it correct:

- **Message pipeline.** A message crosses three processes and four stores. Each
  store call can fail, replies get lost, processes die between any two steps,
  the broker redelivers, and `consume()` acknowledges whatever the callback did.
  Correct: one row per message at most; a row of a file message names a file with
  that message's content; a refused message leaves no trace; an accepted one is
  stored; a stored text is searchable; file copies no row names stay bounded by
  the failures.
- **Queries.** A query reads the table or the index, then the users, then their
  avatars, in three services, while messages arrive in any order and accounts
  change. The table keeps wall clock readings rounded to seconds; `LIMIT`, two
  sorts and a reversal decide what comes first. Correct: a history is whole and
  contains nothing else; the recent messages are the newest; times are true; what
  one answer showed a later one shows again; no answer fails for data that is
  merely on its way. A new avatar of a sender is written over the old file,
  which may be under a reader: that does fail the query.
- **Discovery.** The watcher thread runs while the constructor still assigns the
  callbacks and while the main thread applies the listing; `serviceOnline`
  releases one lock before taking another. Correct: a registered host is never
  forgotten, a removal erases the channel the map knows, `getChannel` stays in
  bounds, the rotation skips nobody for ever once hosts stay, no channel to a host
  that left.
- **User service.** A handler is a sequence of separate commands on four stores,
  with check-then-act on names, codes and login status and with whole-row updates.
  Correct: names and phones are unique; search finds a user under the current
  data; an avatar id leads to a file; a login status comes with a session; a
  spent code is gone; confirmed changes stay.
- **File service.** Streams of several threads on one file, a size measured before
  the bytes are read, a write that is confirmed while it is still buffered.
  Correct: answers hold what was written and nothing else; a confirmed put is
  there and is read back whole.

The list of hazards, each at its line and with the properties that cover it, is
in `PROJECT.json`.

## 2. Modules and code

```
MessageLog  <--refines--  MsgPipeline  <--  MCMsgPipeline, MsgPipelineProof
                                                           MsgPipelineFilesProof
Accounts    <--refines--  UserService  <--  MCUserService, UserServiceProof
                            ^-- UserOverlap    <--  MCUserOverlap,    UserOverlapProof
Accounts    <--steps of-- MsgQuery     <--  MCMsgQuery,    MsgQueryProof
RpcService  <--extends--  Discovery    <--  MCDiscovery,   DiscoveryProof
                            ^-- DiscoveryOrder <--  MCDiscoveryOrder, DiscoveryOrderProof
Uploads     <--refines--  FileStore    <--  MCFileStore,   FileStoreProof
Uploads     <--steps of-- MsgPipeline
```

`PROJECT.json` maps every definition to its lines.

**MessageLog** is what sending a message promises: a verdict per message, a
history and a search index that a message enters at most once, never after a
refusal, and never leaves. **MsgPipeline** is the path through the services:

| state | code |
|---|---|
| `req`, `targets` | where each `GetTransmitTarget` handler stands, the response's `target_id` |
| `transmit`, `outbox` | the process and its connection; frames `TcpChannel::publish` buffered |
| `queue`, `unacked` | the broker's queue; deliveries not acknowledged, per consumer |
| `storage`, `pc`, `cur`, `fid`, `tries` | each msgStorage process and its callback: the step, the message, `file_id`, brpc retries used |
| `docs`, `files`, `rows` | index "message", files, message table |

A handler is cut into actions at its blocking calls, each with the alternative of
failing: `LookupSender`, `QueryMembers`, `Publish`, `Reply` for
`GetTransmitTarget`; `BeginMessage`, `IndexMessage`, `PutSingleFile`,
`InsertMessage`, `Ack` for `consume`/`onMessage`. The environment crashes and
restarts either process, breaks either connection (the code never reconnects, so
a process with a closed connection is of no use until it restarts) and restarts
the broker (the queue is not durable).

**MsgQuery** has the three queries, each call going through the steps `check`
(`checkRequester` and the `GetSingleUserInfo` it calls), `avatar` (the
`GetSingleFile` that one makes when the requester has an avatar), `query` (table or
index), `users` (`GetMultiUserInfo`), `files` (the `GetMultiFile` that one makes)
and `fill` (`fillSuccessResponse`). Between any two of them the rest of the system
takes steps, and of the rest a query sees two things only:

- messages, which enter the table and the index in any order and stay
  (`GetTransmitTarget`, `Store`, `Index`). That they stay, and enter once, is what
  `MessageLog` says and `PipelineImplementsLog` proves of `MsgPipeline`.
- accounts, which are the steps of the abstract module **Accounts** (`UserTable`):
  users stay, and a row's avatar is a file that is there, of which a new content
  may be put at any time under the same id (`PutAvatar`): `SetUserAvatar` reuses
  the id and `writeFile` truncates the file. That `UserService` does
  nothing else is `ImplementsAccounts`, checked by the run `user` and proved by
  `ServiceImplementsAccounts`.

So the queries are composed with the pipeline and with the user service through
what these two promise, not through their details: a run of the product would be
out of TLC's reach, and the theorems about `MsgQuery` need no more.

| state | code |
|---|---|
| `sent`, `stored`, `indexed` | messages past msgTransmit, in the message table, visible to searches |
| `users`, `avatar`, `files` | rows of the user table, their `avatar_id`, the avatars in the file service |
| `step`, `found`, `shown`, `answer`, `result` | each handler: where it stands, the rows it queried, the avatar ids `GetSingleUserInfo` or `GetMultiUserInfo` asks for, `message_info` and `success` |
| `torn` | the sizes that `readFile` has measured and the files no longer have: calls under which an avatar they read was truncated, so that their read may fail |
| `hit`, `before`, `earlier` | history variables of the properties: calls that met a failing service, what was stored and answered when a call arrived |

`Wall` and `MkTime` are `localtime_r` and `mktime`: constants, of which only
`ClockAssumption` is assumed, so that summer time and any zone are instances.

**RpcService** has one action per critical section of `RPCServiceManager` and
`RPCServiceChannel`; **Discovery** adds etcd, the watch, the listing and the two
threads that call it. `missed` is a history variable: the keys that the
listing failed to show, or that changed when the watch had broken and have not been
announced since. `got` and `crashed` record what `getChannel` returned or
that it read outside the vector.

**UserService** gives every call the sequence of steps its handler performs
(`Path`), with one action per step: MySQL select, insert and update (with the
unique indexes), the index insert, the avatar upload, and the redis commands. A
call keeps the row it read (`user`), as the code keeps the ODB object.

**UserOverlap** and **DiscoveryOrder** add one history variable each to these two
and constrain nothing (`ObservedIsSpec`, proved for both). `after` holds, for every
login and setter, the rival calls that were over when it began; `disturbed` the
services with a change at an awkward time: an instance that registers while the
constructor has not yet listed, or under a key whose former lease has not expired,
or one that goes away during the listing. They say under which condition the
properties that section 6 finds violated do hold.

**FileStore** gives a get the phases open, measure (`seekg`/`tellg`), read, and a
put the phases open-and-truncate, write, close. Contents are sequences of blocks;
one block stands for a content that stays in the stream's buffer until the close,
a longer one is written while the reader may look.

**Uploads** is what the other services rely on of the file service when they put a
file without an id: it is there all at once, with a content that was asked for, and
stays. `FileStore` opens, truncates and writes such a file block by block and may
stop in between; seen under the refinement, the file appears with the last step of
its put (`Shelves`). The pipeline's `files` change by steps of `Uploads` and by
nothing else (`TakesUploads`), so the two modules meet there. One difference is left: in
`FileStore` what is uploaded may be nothing of a short content whose close failed
(`WholeContents`), while the pipeline takes every upload for the content of its
message.

## 3. Runs

| run | expects | question and bounds |
|---|---|---|
| `pipeline_faults` | pass | Safety and refinement of `MessageLog` under all nine kinds of failure. Two messages (a text and an image: the two paths through `onMessage`), two consumers of one queue, three failures, one brpc retry, four file ids (the image is uploaded once, and once more per failure at most), symmetric consumers and file ids. |
| `pipeline_redelivery` | pass | What is accepted is stored, `EventuallyStored`, when one consumer crashes or loses its connection at any point. One message of each kind, two consumers, so that one remains to take the redelivery. |
| `pipeline_dropped` | violation | `AcceptedNotLost` with one failing call of the file service. |
| `discovery` | pass | Nothing registered is forgotten; map and vector agree; a service whose instances come and go in turn has one channel per registered host and no other (`UndisturbedIsFresh`, `OneChannelEach`); the rotation reaches every host once the channels of the service come to rest. Two keys of a followed service and one of another, three addresses of which one gets no channel, two registrations or expiries on top of any initial registration. |
| `rr_index` | violation | `IndexInBounds` after a removal. |
| `stale_host` | violation | `NoStaleHost` with every notification applied. |
| `user` | pass | Three calls out of ten around one account: code, both logins, both registrations, four setters (`setDescription`, which is in `lost_update`, takes the steps of `setNickname`), one malformed request; two failures of any kind, crashes and lost answers included. Names, avatars, index, sessions and codes stay consistent; a login that begins after another was answered is refused, and a change that no setter of the user overlaps stays; the service implements `Accounts`. |
| `double_login` | violation | `OneLogin` with two calls. |
| `lost_update` | violation | `ConfirmedChangeStays` with two setters of different fields. |
| `stale_index` | violation | `IndexUpToDate` after one change of nickname. |
| `query` | pass | A history together with a request for the recent messages or a search (`OneHistory`), while three messages of two users arrive in one chat (two of them in one second), the second user, who asks for the history, registers, both users get an avatar that is put again and again, and each of MySQL, Elasticsearch and the RPCs may fail at every call. The zone is one unit east of Greenwich, so that a missing conversion shows; one of the messages is a text, and a page of the search holds one hit. |
| `file` | pass | Three calls: gets and puts of one or two files, contents of up to two blocks, an avatar that exists before, an id that the service makes up, one failure of any kind; two of the calls are interchangeable. Of several puts of a file the last one counts; files under new ids implement `Uploads`. |

Why the bounds are enough: the conflicts the properties are about need two calls
(or two consumers, or two threads of discovery) on one piece of data and a third
that observes or retries; one or two failures reach every error path, three let a
failure hit the recovery from another. Two queries are what it takes for one to
show again what the other showed; a third chat or a third user would only add
messages that no query asks for. For the invariants and the three refinements the
proofs remove the bounds altogether; for the two liveness properties the bounds
are all there is. The inductive invariants `IInv` and `IndexInv` are checked
as invariants too; `OverlapInv` and `OrderInv` were, under the same bounds
(discovery also with three changes), before they were proved, and the runs keep
checking the properties that follow from them.

All runs switch TLC's deadlock check off, because every model may really stop:
all requests answered and all queues empty, all calls ended, or a process crashed
by the index out of bounds.

What the passing runs show about the code: redelivery is safe for the table, since
`message_id` is unique and the insert of a second row fails, at the price of an
orphaned file per attempt and never more (`UploadsPaid`), because the broker's
places hold one copy of a message between them (`SingleCopy`); a message that was refused is never seen; discovery
loses no host in any interleaving of the listing, the watch and the two
locks of `serviceOnline`, but the ones that a failed listing or a broken watch did
not show (`missed`); the unique indexes, not the look-ups, keep names apart;
session before status, upload before row and row before index are the orders
that make a crash harmless, and the mutants show that swapping any of them is not;
where every caller hears "success" the document of the row that ends up in
MySQL was added by somebody, although setters interleave and `setPassword` indexes
nothing; a query is never refused because a sender or an avatar is not there yet,
since messages are accepted from registered users only and an avatar is uploaded
before a row names it, but it may be refused, with nothing missing and no service
failing, when the avatar of a sender or of the requester is overwritten between
the moment `readFile` measures the file and the moment it reads it
(`RefusedForCause` lists the causes, `torn` is this one); the rotation ends up
serving every host when hosts stay, whatever removals did to its index, while hosts
that keep leaving and coming back can make it pass over another one every time
(`[B,a,c]` with the index at the last: `c` leaves, the next pick leaves the index
at 1, `c` returns, `a` is picked, and the index is at the last again); a put that truncates under a reader makes the get fail and not answer padding; a
put of several files that stops on the way leaves whole files, at most one that may
hold anything, and the others as they were; and what is wrong with logins, setters
and channels needs an overlap: one at a time they do what they promise, however
much else goes on and fails around them.

## 4. Fairness

`MsgPipeline!FairSpec`: weak fairness of the steps of each `GetTransmitTarget`
handler, of flushing the send buffer, of delivering, and of the steps of a
callback and its acknowledgement, per consumer. The event loops and worker threads
that run these steps are ordinary threads, the broker hands out ready messages as
long as a consumer is connected. Nothing is assumed of failures, and nothing of
restarts: no code restarts a process.

`Discovery!FairSpec`: weak fairness of the main thread, of the watcher, and of the
requests for each followed service (`EveryHostServes` speaks of a service that
keeps being asked for). Nothing is assumed of etcd's instances: that the channels
come to rest is a premise of the property, not of the model, and in the run every
behaviour meets it, because `MaxChanges` bounds the changes.

`UserService`, `MsgQuery` and `FileStore` have safety properties only; a call that waits for a
store that never answers waits for ever (the RPC timeout is -1).

## 5. Proofs

A proof module extends the component's module. Each invariant is proved from an
inductive one, for every value of the constants that satisfies the named
assumptions of the module; the bounds on failures and changes are constants too,
so they bound nothing in a theorem.

| module | theorems | extra assumption |
|---|---|---|
| `MsgPipelineProof` | `TypeCorrect`, `OneRowPerMessage`, `RowsMatchFiles`, `RejectedLeavesNoTrace`, `InductiveInvariant`, `PipelineImplementsLog` | none |
| | `NothingAcceptedIsLost` | only consumers crash or lose connections, or Elasticsearch fails |
| | `HistoryIsSearchable` | Elasticsearch does not fail |
| `DiscoveryProof` | `TypeCorrect`, `InductiveInvariant`, `MapMatchesVector`, `RegisteredIsReachable` | none |
| `DiscoveryOrderProof` | `OrderInvariant`, `UndisturbedServicesAreFresh`, `OneChannelPerHost`, `ObservedIsSpec` | none |
| `MsgPipelineFilesProof` | `OneCopyPerMessage`, `UploadsArePaid`, `OrphansAreBounded`, `FilesComeByUpload` | none |
| `UserServiceProof` | `InductiveInvariant`, `IndexInvariant`, `NamesAreUnique`, `AvatarsAreThere`, `IndexedUsersAreReal`, `LoggedInHasSession`, `SpentCodesAreGone`, `CurrentRowsAreIndexed`, `ServiceImplementsAccounts` | none |
| `UserOverlapProof` | `OverlapInvariant`, `LaterLoginsAreRefused`, `UndisturbedChangesStay`, `ObservedIsSpec` | none |
| `MsgQueryProof` | `Invariance`, `SeenAreFoundAgain`, `RefusalsHaveCause` | none |
| | `HistoriesAreWhole`, `RecentAreNewest`, `AnswersHaveTrueTimes` | the wall clock is never set back (`SteadyClock`) |
| `FileStoreProof` | `InductiveInvariant`, `ReadsAreReal`, `PutsAreStored`, `ReadsSeePuts`, `PutsGoInOrder`, `FilesAreUploads` | none |

The inductive invariants, and why the properties need them:

- *MsgPipeline.* `AtMostOneRow` alone says nothing of the message a callback is
  about to insert or of the file it holds. `CallbackOK` ties the callback to the
  head of its unacknowledged deliveries, `CallbackDataOK` says that the `file_id`
  it holds is a file with the content of its message, and `FlowOK` that only
  published messages travel or leave a trace. For `NothingAcceptedIsLost` the
  publish must also be followed by an open path, which is where the assumption on
  failures enters. The refinement maps `req` to the verdict, the messages of
  `rows` to the history and `docs` to the index; every action maps to one abstract
  step or a stutter.
- *Files of a message.* That orphans are bounded by the failures is not inductive:
  a step that uploads must be known to be allowed to. `UploadsPaid` counts the
  files there are, the callbacks that go on uploading after their connection broke
  (`Detached`) and the upload that the message's one copy still has ahead of it
  (`Due`), and says that 1 + `faults` pays for all of them. An upload turns an
  upload to come into a file; a failure pays for the next delivery. The argument
  needs that there is one copy: with two of them in the queue, one failure would
  cost two uploads. That is `SingleCopy`, proved first. The sizes of the sets are
  followed with the library's facts about finite sets.
- *Discovery.* `LiveHostsReachable` is about the moment when no notification is
  pending. `NothingForgotten` states it for every moment: a registered host whose
  last pending event is not a removal has a channel, is between the two locks, is
  in the listing still to be applied, or has a put among the events to come
  (`AnnouncedLast`, `Coming`). `ListingOK` and `OneHostPerKey` say what a listed
  registration may be.
- *Order of discovery.* That no channel is left behind once everything is applied
  needs to be known of the queue while it is full. `InTurn` says that between two
  announcements of a host there is a withdrawal, where what is held already (a
  channel, a call between the two locks, an entry of the listing: `Held`) counts as
  an announcement before the queue and the absence of the host from etcd as one
  after it. It is kept because a put is appended only when the host is not
  registered, and because a withdrawal takes away the only thing that is held:
  `HeldOnce`, `Linked`, and `ListingBefore`, which keeps a host that is being
  withdrawn out of the listing. `NothingYet` says that the constructor starts from
  nothing. The channels of an array that loses an element are followed with a
  lemma about `RemoveAt`.
- *UserService.* What a call may rely on after a step is stated per step it has
  passed (`Past`): the row it holds is one that may be written (`HoldsRow`), the
  session of a login exists (`HoldsUser`), the code it spent is gone (`HoldsCode`).
  `IndexInv` adds that the rows that `setPassword` read, and will write back
  without indexing them, are indexed or owed (`Indexed`, `Owed`): a call that
  heard an error or died after its write owes the document.
- *Overlaps of users' calls.* `LoginKnows` says that a login that saw its user
  offline cannot have begun after a confirmed login of the same user, since the
  status that one set stays. A change that is done must show not only in the row
  but in every copy that a setter under way has read and will write back
  (`ShowsEverywhere`); that a later setter of another field keeps it follows, and
  that such setters may overlap each other, too.
- *Accounts.* `Users` and the avatars of their rows are the abstract table; every
  action maps to a registration, an upload, a written row or a stutter. That a
  written row names a file comes from `HoldsRow`, with the files growing only.
- *MsgQuery.* What a query found must still hold when the answer is made, several
  steps of others later. `Known` and `PromiseKept` say it on the wall clock's
  readings, where it holds for any clock; `SeenBefore` ties two calls to each
  other by what was stored between them. Only the last step, from readings to
  times, needs `SteadyClock`. That senders are registered and avatars are files
  (two conjuncts of `IInv`) leaves three causes for a refusal: a failing service, an
  avatar that was truncated under the call, and a requester who is not one of the
  users from before.
- *FileStore.* `Progress` bounds the counters of a call; `Reading` and `Writing`
  say what a reader has and a writer has written; `StoredSoFar` is the confirmed
  prefix of a put and what it has not touched yet, `ReadsStable` what a reader that arrived after a confirmed put
  can count on. Both speak of the last put of a file (`PutsLast`): an item whose
  rivals were over when its call arrived, or have not arrived, or come earlier in
  the same call. That the kernel carries out one write of a file at a time
  (`writer`) is what makes the writer's part inductive.
- *Uploads.* A file under a new id counts as uploaded when its item is behind the
  call (`Shelved`). `IInv` says that it is whole then; that it stays follows from
  the one way to change a file, by a call that is at an item that puts it
  (`FileSteps`), and this file has only one such item, which its call has left. A
  step moves one call by one item at most and changes no file then (`ItemSteps`), so
  it uploads one file or none.

Only model-checked: `EventuallyStored` and `EveryHostServes` (liveness under
fairness, which the prover does not treat), and of course the properties of the runs that expect a
violation.

## 6. Where code and comments disagree

Each is a run that expects a violation; `PROJECT.json` quotes both sides. Where a
theorem says when it cannot happen, it is named.

1. `pipeline_dropped`: `consume()` acknowledges also when `onMessage` gave up, so a
   message whose sender was told success is lost after one failing store call
   (`NothingAcceptedIsLost`: not while those calls succeed).
2. `rr_index`: `getChannel` reads `_channels[_RRIndex]` before it reduces the index,
   and `removeChannel` does not adjust it.
3. `stale_host`: a host that is announced twice has two channels and a removal
   erases one (`UndisturbedServicesAreFresh`, `OneChannelPerHost`: not when a host is
   announced, withdrawn and announced in turn, and nothing goes away in the middle
   of the listing).
4. `double_login`: two logins pass the "already logged in" check together
   (`LaterLoginsAreRefused`: not when the second begins after the first was answered).
5. `lost_update`: a setter writes back the other columns as it read them
   (`UndisturbedChangesStay`: not when no other setter of the user runs meanwhile).
6. `stale_index`: an update of a user adds a document and leaves the old one.

## 7. Abstractions

- Identifiers are those of the call that makes them: `uuid()` is taken to give
  distinct ones.
- A request is the message it creates. A client that repeats a request makes
  another one, as the code does.
- In `UserService` a crash is one call lost at any step; a crash of the process is
  several such failures. Calls run concurrently without the limit of two threads:
  more interleavings, not fewer. Setters get the user id; the session look-up that
  precedes them reads one key. Codes presented are those that were sent, by any
  call.
- In `MsgQuery` an indexed text is one that a search can see: the second that
  Elasticsearch takes to refresh is part of `Index`. Ranking is any first page of
  at most `MaxHits` candidates; a search in a chat has the clause `must` for the
  chat, so `should` with the key only ranks and every text of the chat is a
  candidate (`Candidates`). The requester is the user of the session or the one
  who is named. A failing service is one that may fail at every call. An avatar
  that is put again is truncated in one step, which is the moment that matters to a
  reader; `FileStore` has the put and the get block by block.
- A query whose database fails answers success with no messages
  (`QueryFails`); `HistoryIsWhole` and `RecentIsNewest` exempt such answers
  (`FailedQuery`), as the client cannot.
- Search hits carry a time that is off by the zone's offset
  (`common/data-es.hpp:209-211` reads the stored seconds as a UTC reading,
  `serverLocalPtimeToUnixSeconds` takes it for a local one). The model has it
  (`HitOf`); the properties about times therefore speak of the other two queries.
- In `FileStore` a crash ends every running call; a buffered content that was not
  closed is lost with it.
- Data that no property tells apart (bodies, wording, log lines) is left out, and
  so are the protobuf and JSON encodings.
- The data race on the AMQP channel (publishing from RPC threads while the event
  loop uses it) is inside the library and not modelled.

External parts (RabbitMQ, etcd, MySQL, the kernel) are modelled as the code uses
them and marked `external` in the map.

## 8. Not modelled

- `MessageTable::remove`, `ESMessage::remove` and the methods that add and delete
  session members have no callers.
- `uuid()` and `vCode()`: random, see above.
- Speech recognition: stateless, one forwarded call.
- Friend service and gateway: designed, without code.
- Client factories, logging, the builders of Elasticsearch requests
  (`common/es.hpp`, except what a search asks for): no state.
- Liveness of the user service and of queries: a call ends when the stores answer,
  and nothing in the code makes them answer.

## 9. Plan

Done, in this order, by what is at stake: the pipeline and its abstract log,
discovery, the user service, the file service, then the queries over the message
table, the abstract accounts that connect them to the user service, the
counting argument for the files of a message, the abstract uploads between the
pipeline and the file service, and the conditions under which
logins, setters, puts and channels keep what their comments say. Each has its
proof module.

What could follow:

1. **System**: the pipeline with the channels of `Discovery` in place of the
   nondeterministic look-up, by an abstract module like `Uploads`, and the avatars of
   `UserService` as uploads.
2. Runs for properties that are false: `FilesAreWhole` (two puts of one id leave a
   mixture), `ForwardsToMembers` (a failed member query answers success with nobody
   to forward to), and true times of search hits.
3. A client that repeats a `GetTransmitTarget` whose answer was lost.
