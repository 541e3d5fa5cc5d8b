# A TLA+ model of the VCX agency

The agency (`vcxagency-node`) is the mailbox of Aries agents: it creates an *agent* for an owner and an *agent connection* for each of its pairwise DIDs, stores the messages sent to them, and tells the owner of new ones by long polls and webhooks. It is a Node.js program; several processes of it share one MySQL and one redis.

Here its state machines are written in TLA+, checked by TLC on small instances and, for the main ones, proved by TLAPS for every instance. `PROJECT.json` maps each definition to the lines it models and lists the runs, hazards, findings and theorems.

## The system

| Part | State | Operations | Talks to |
|---|---|---|---|
| Redis adapter (`event-adapter-redis.js`) | two connections: one for GET, SET, DEL, one for subscriptions and events | `getValue`, `setValue`, `deleteValue`, `subscribeKey`, `unsubscribeKey`, the keyspace callback | redis |
| Notifications V1 (`service-new-messages.js`, `longpoll.js`) | `agentSubscriptions`: one callback per agent and process; the promise and timer of each poll; a flag per agent in redis | poll, ack, flag, keyspace event, timeout | adapter on redis database 0, HTTP routes |
| Notifications V2 (`service-new-messages-v2.js`, `longpoll-v2.js`) | as V1; the flag is the time of the last message, an ack carries a time | as V1; the event handler and the ack read the flag once more | adapter on redis database 1 |
| Agent connection (`agent-connection.js`) | none but its record | store and announce a forward, download messages | storage, notifications, webhook |
| Agent (`agent.js`) | none but its record | CreateKey, status update, webhook url, forwards | storage, wallets, router |
| Forward agent (`entity-fwa.js`) | its wallet | unpack and route, Connect | router, resolver, wallets |
| Router, resolver (`router.js`, `resolver.js`) | none | find an entity by DID or verkey, hand the message over | storage, entities |
| Wallet service (`service-indy-wallets.js`) | `openWalletHandlesCache` per process; wallets in the indy library | create, open, cache | indy library, MySQL |
| Storage (`storage.js`) and schema (`dbutils`) | tables `entities`, `agents`, `agent_connections`, `messages` | one SQL statement per operation, no transactions; a scheduled `prune_msgs` | MySQL |
| Webhook (`webhook.js`) | a counter that is only logged | read the url, one POST | the owner's endpoint |
| Notifications of an enterprise agency (`service-new-messages-unavailable.js`) | none | flagging does nothing, polls are refused | HTTP routes; webhooks are all that is left |
| Configuration (`app-config.js`) | the settings of a process | load from the environment, validate | start-up |
| Start-up (`run.js`, `app.js`, `download-certs.js`, `fetch-ecs-task-metadata.js`, `server.js`) | certificate and key in files of the container | ask for metadata, download the files, wait for MySQL, set up the forward agent's wallet, listen | S3, ECS, MySQL, wallet service, forward agent |
| HTTP (`api-*.js`, `middleware.js`) | none | parse, call a handler, answer | everything above |
| Client library (`vcxagency-client`) | none | build and pack the messages of each flow | the agency, over HTTP |

What is hard:

- **Awaits.** A process runs one handler at a time, but every `await` lets others in: polls of one agent overwrite each other's callback, an ack tears down a callback registered while it waited, an event handler calls back a poll that may be over. Every await is a step boundary in the models.
- **Two connections.** Redis answers GETs on one and sends events on the other; nothing orders one against the other, so an event can be older than what a poll has just read.
- **Several processes** over one redis and one MySQL, with no lock but the names of wallets, as far as the storage of wallets keeps these apart.
- **Hops.** A message is envelopes in envelopes. Each hop opens one, checks its sender and forwards the rest; only the last one has an effect, and the answer travels back through all of them.
- **Clocks.** The second notification service compares times that different processes took from their own clocks, in messages that overtake each other.
- **Failure half-way.** Nothing is undone: a crash or an error leaves a wallet without a record, a record without a link, a message without its flag, a certificate cut short in a file that the next start takes for the certificate.

What makes each part correct, in a sentence: a poll ends, once, and is answered `true` only for a reason; a subscribed poll is woken by the next message; a flag goes only with an ack that covers it; a stored message is announced until it is downloaded; no message is lost to pruning; an entity is created once or not at all (given a storage that keeps wallet names apart), and what was answered is complete; a request does at most what the one who packed it may do, and messages reach only their owner; all processes have one verkey; a start ends, and half a certificate is never served.

## Modules

| Module | Models | Role |
|---|---|---|
| `RedisAdapter` | adapter, redis, the client library's reconnection | pieces for both services; no `Next` of its own |
| `NewMessages` | V1 service and long poll in every process | EXTENDS `RedisAdapter` |
| `LongPoll` | what a V1 poll promises, without redis or callbacks | abstract specification, implemented by `NewMessages` |
| `NewMessagesHistory` | `NewMessages` and one history variable | states what the README says of `true` answers |
| `NewMessagesV2` | V2 service and long poll, request by request | EXTENDS `RedisAdapter` |
| `LongPollV2` | what a V2 poll promises, without redis or callbacks | abstract specification, implemented by `NewMessagesV2` |
| `Onboarding` | Connect and CreateKey, wallet service, tables | |
| `Registry` | what the creation of an entity promises, without wallets being opened or processes | abstract specification, implemented by `Onboarding` |
| `Storage` | the statements on the messages of an agent, with their filters | operators, for `Mailbox` |
| `Mailbox` | messages from the INSERT to their pruning, their owner, flags and webhooks, both types of agency | EXTENDS `Storage`; a poll is what `LongPoll` promises |
| `Inbox` | what senders and owner are promised of messages, without processes, flags or webhooks | abstract specification, implemented by `Mailbox` |
| `MailboxV2` | messages and the V2 flag, processes with different clocks | a poll is what `NewMessagesV2` promises |
| `ClientMessages` | the envelopes that clients pack | constants and pieces for the next two |
| `Agency` | what a request may do, without hops | abstract specification, implemented by `Routing` |
| `Routing` | the way of a message through forward agent, router, resolver and entities | EXTENDS `ClientMessages` |
| `Configuration` | the settings a start depends on and their validation | operators, for `Startup` |
| `Startup` | the start of processes over one wallet database, from the configuration to the listening server | EXTENDS `Configuration` |
| `MC*` | instances: which request goes to which process, agent, wallet | |
| `*_proofs` | theorems and their proofs | EXTEND the module and TLAPS |

Definitions keep the names of the source where there is one (`ackNewMessage`, `cleanupNewMessageCallback`, `_cleanupSubscription` as `cleanupSubscription`). A definition marked *Faulty* is a variant with a plausible bug; it is not part of any specification and shows what a property is there to catch.

### RedisAdapter and NewMessages

`rw[p]` holds the requests a process has sent and redis has not executed, `cmds[p][a]` its SUBSCRIBEs and UNSUBSCRIBEs, `inbox[p][a]` the replies and events redis has sent back; all are FIFO. The channels of different agents are kept apart, which allows more orders than one connection does. Replies on `rw` are handled in any order, which allows more as well. `ProcessLost` drops what redis has not executed when a process dies. To every other process, a request that redis still executes then looks as if it had been executed before the death; what is left out is that the process, started again, sends something that overtakes it. `MailboxV2` has that.

A poll goes through `idle, getting, got, subscribing, arming, armed, over`, one phase per await of `longpoll.js`; `arming` is the gap between the reply of SUBSCRIBE and the continuation that sets the timer. An ack goes through `idle, deleting, deleted, unsubscribing, over`. `OnEvent` is the handler of the adapter, the service and `reactOnNewMessage` in one step, as they run without an await in between. `LoseConnection` fails the requests that wait for a reply, forgets events and leaves open whether unanswered commands were executed; `Crash` empties the map of callbacks and ends the requests of a process.

A superseded poll stays in phase `armed` until its timer fires; a poll rejected by a failing SUBSCRIBE leaves its callback in the map, as the code does.

### NewMessagesV2

As above, with `saw` and `pushed` for the GETs of requests and of event handlers, `clock` for the present time, and `ackNewMessage(k, t)` for any time `t`. `CallBack` is the handler after its await. `current`, `raced` and `woken` are histories that only properties read.

`LongPollV2` has no redis, no map and no subscriptions. A flagging is sent to some processes (`Raise`), reaches each of them at most once and leads to at most one callback there (`Wake`), which answers its poll or finds it over (`CallBack`); a poll may also read the flag itself (`ReadFlag`, `AnswerFound`), time out or fail. An answer is a time that was the flag during the poll, or NaN for a callback whose flag was acked away. In the refinement mapping `wakes` counts the `set` events on their way to a process (`OnTheWay`), `calls` the GETs and values of event handlers that have yet to call a poll back (`Calls`), `found` is what the poll's own GET has read. So no step of the code may answer a poll by an event that was spent already, by a callback of another poll, or with a value read for another agent.

### Onboarding

A request stands for the entity it creates, for its DID and its wallet key; `wallets[w]` are the keys of the wallets with a name, and `didIn[r]` is the wallet the DID of `r` went into. `phase` names what a request awaits: the wallet, its opening (`open`), the return of the handle (`opened`), the DID, the pairwise data, the record, the row; for a `CreateKey` also the decryption of the message with the wallet of its agent (`message`).

Wallets are kept by the storage plugin of the indy library. Whether it refuses a second wallet of one name is not settled by the repository: its table `wallets` has no UNIQUE key on `name` (`setup/create.sql:14-19`), and the code only expects the error (`wallet.js:61-69`). So `naming` is chosen at the start: `unique` is a storage that refuses, `free` one that keeps several wallets of a name. In the second, a handle is cached by name and used for whichever wallet it is of, so a DID may go into the wallet of another request (`service-indy-wallets.js:39-61`). What rests on the refusal says so (`namesUnique`): one entity for a name, its DID in its own wallet, an orphan never taken over. The rest holds either way. A `CreateKey` is sent after its Connect was answered, since the answer holds the DID it is sent to, and its agent's wallet is opened first, by the lookup. `StepFails` is any error of MySQL or the indy library. The indy library refuses to open a wallet twice in a process.

`Registry` is what callers know of this: a request claims its name (`Claim`), once and for all and alone where claims are `exclusive`; only a claimant is recorded, completed and answered, and a connection starts from an agent that was answered; any request may fail on the way, and what it leaves behind stays. The mapping takes `wallets` for the claims, `namesUnique` for `exclusive` and the phases a request waits in for `pending`; opening wallets, caching handles and storing DIDs are steps of none.

### Storage and Mailbox

`Storage` has a table as a function from uids to rows. An empty filter of `loadMessages` lets everything pass; an update without uids touches nothing. `Mailbox` builds that table from `status` (`messages`) and evaluates the operators on it. That both read an empty list differently is what keeps an owner who found nothing from marking what has arrived since; `PrunedWasSeen` depends on it.

`stage` is the progress of `_handleAriesFwd`; `sending`, `lookups` and `posts` are what it has sent without waiting for it: the SET, the read of the webhook url, the notification, with the url that was read for it. `flagNewMessage`, `trySendNotification` and `sendNotification` are their executions, in any order. A notification that nobody receives is logged and not repeated. `agencyType` is the only difference between the two types: an enterprise agency sends no SET and answers every poll with `ErrorFeatureDisabled`.

The owner (`client`, external) polls; told of a message it acks, then downloads from one connection after the other (`toLoad`) all messages or the unread ones, and marks what it got, in that order, as the tests and the client library do. Between two polls it comes to its notifications (`notified`) and downloads each by its uid (`uids`). An owner of V1 flags that downloads before it acks would lose announcements; that order is its own doing.

`lost` and `missed` are histories: messages whose flag was never set, and whose notification was never received, because of a crash, an error or a missing url. A SET that reaches redis although its process has died counts as lost here, as it would only raise the flag; an ack is one step, and late DELs are in `MailboxV2`.

`Inbox` is what is left without processes, flags, webhooks and connections: a sender is told `accepted` only of a stored message (`Accept`), whereas after an error the message may be stored (`Store`, `Fail`); what is stored can be downloaded any number of times, and only what was downloaded is marked, and given up to pruning. The mapping takes `status` for the rows and reads the answers off `stage` (`Answers`): a handler between its INSERT and its end has not answered yet, one that was lost has failed.

### MailboxV2

What the second flag is for is that an owner may download *before* it acks: the ack has the time it was told, and must spare the flag of what came later. The module has one agent, `time` and the `skew` of each process's clock, and the FIFO `rw` of requests each process sends to redis: SETs of messages, which nobody waits for, and the GET and DEL of the ack, served by any process (`server`). `client` goes through `polling, waiting, downloading, acking, reading, read, deleting`; `during` is the set of flags that were up in a poll, since `NewMessagesV2` may answer any of them.

What a process had sent when it died, and a request that was reported as failed, may have reached redis: `lateSets` and `lateDels` are the SETs and DELs that nobody waits for any more and that redis executes any time later or never (`LateSet`, `LateDel`). A late GET changes nothing.

Four histories name every reason for which a message that is stored and not downloaded may have no flag:

- `lost`: its process died, or its SET failed;
- `raced`: its SET was executed between the GET and the DEL of an ack (the finding `v2_ack`), or while a late DEL of an ack that has ended may be under way;
- `overtaken`: the SET of an earlier time was executed after its own;
- `erased`: an ack of a time that is not earlier than its own deleted it.

`StoredIsAnnounced` says there is no fifth. `FlagGoesBackOnlyAcross` and `ExactInStep` say when two of them can occur: `overtaken` takes two processes, or a SET that was taken for failed, and as long as clocks agree `erased` takes two messages in one millisecond. With clocks that differ, an ack may also be refused as one of the future; then the flag stays up.

### ClientMessages, Agency and Routing

A message is a sequence of envelopes, each a record: for whom it is packed (`to`), by whom (`from`, `NoOne` if anoncrypted), its type, and the fields the type has. Encryption is abstracted to that: an entity opens an envelope exactly if `to` is the entity, and learns `from`. An entity is named by the DID its creator has given, as its wallet is in the code, and addressed by that name: its own DID and verkey, which it makes itself, reach the same recipient. The DIDs and verkeys of clients are separate values (`did`, `key`), as a client sets them independently: a Connect is checked for its verkey only (`entity-fwa.js:119-122`), a CreateKey for neither (`agent.js:237`). So in the run Alice may connect for Bob's DID before he does, and two clients may give different verkeys for one pairwise DID. Fields that a handler checks have a value that does not do: a webhook that is no url of http or https (`BadUrl`), a type of update other than '2' (`method`), a `uidsByConns` that is no array (`list`); with the last the handler has no response, and to pack that is an error. `vcxFlow*` are the flows of the client library; `viaAgent` and `viaAries` are the other ways to send a message that the handlers know.

A request of `Routing` has a `depth`, the envelope to be opened next, and a `phase`: `received`, `routing` (the resolver awaits MySQL), `wallet`, `record`, `row` (a creation), `query` (a statement of the handler), `answering` (the answer is packed), and at the end `ended` or `lost`. From `routing` on the recipient's handler opens the envelope and checks its sender with no await that another request could use against it: what it checks, the owner of the record, never changes once set. `Throw` is every error: whatever handler throws it, the catch of `handleIncomingMessage` answers. An unknown recipient ends as the code has it, by a TypeError. `Strangers` are DIDs nobody has; apart from these a client only knows DIDs it was told of (`IsKnown`), since DIDs are random.

Wallets and tables are kept as far as routing depends on them: creation is three steps here, with a storage that keeps wallet names apart, and all of `Onboarding`, with and without that, there; a stored message is one value here and all of `Mailbox` there.

`Agency` has a request performed at most once, by one action on one envelope, under a condition that names only that envelope, the owner of its recipient and the verkey a connection was created for (`pairwise`). It promises nothing of DIDs: the first to connect for a DID owns the agent of it. The refinement mapping takes a request as performed when its phase is `row` (the record of a new entity is saved, which is what makes it known) or `answering`, and as answered when it ended without an error.

### Configuration and Startup

`Configuration` has the settings that decide how a start goes; what else the Joi schema asks is the one flag `wellFormed`.

A process goes through `describing` (task metadata), `certifying`, `fetchingCert`, `fetchingKey`, `connecting` (MySQL), then `assuring, opening, looking, creating, keying`, one phase per await of `assureFwaWalletWasSetUp`, then `building` and `listening`, or `exited`; `run` starts it, for the first time or again, in the container it had or in a new one.

`file` is what a container holds of certificate and key, `absent`, `partial` or `whole`; `piping` are the files S3 is still sending, in steps (`Piped`) that nobody waits for. `fetchAwsAsset` returns when the transfer begins; the start goes on and reads the files in `createWebServer`, as far as they are there by then. That the TLS library refuses a file that is missing or truncated is assumed. Files are either downloaded or absent: a deployment that mounts whole files from outside never enters this part. The optional rotation of certificates by re-deployment is outside the program.

The wallet and its DID are shared; a verkey is named by the seed it comes from, and processes may have different seeds. `buildForwardAgent` is the catch of the loop, the sleep included; after the last attempt it goes on to `building` like a success. `StepFails` also has operations whose effect stays although they report an error. `told` is what clients got from `GET /agency`, and outlives the process that told them.

What the model shows: a process whose attempts have all failed listens, with no verkey to tell, and keeps doing so when MySQL is back (`NoVerkeyOnlyAfterAllAttempts` says that nothing else leads there); a container with half a download is lost, as every later start in it exits (`SpoiltIsFinal`): safe, but not self-healing; and competing with other processes alone keeps nobody from the verkey, given two attempts (`HealthyStartSucceeds`).

## Runs

| Run | Instance | Shows |
|---|---|---|
| `v1_faults` | 2 polls, 1 ack of an agent in a process, 2 messages, a crash, a lost connection | `SubscriptionAgreement`, `WakeupNotLost`, `WokenWhenArmed`, `RemovedByOwnerOrAck`, `NobodyWaitsInVain`, `EveryRequestEnds`, implements `LongPoll` |
| `v1_arrival` | 2 polls, 1 ack, 1 message, no failures | **violated**: `InformedOfArrival` |
| `v1_echo` | the same | **violated**: `TrueOnlyForAMessage` |
| `v2_requests` | 2 polls, 1 ack, 2 messages, 2 times | `WakeupNotLost`, `AnswerFresh`, `LaterFlagLostOnlyByRace` |
| `v2_faults` | 2 polls, 1 ack, 1 message, a crash, a lost connection | `SubscriptionAgreement`, `EveryRequestEnds`, implements `LongPollV2` |
| `v2_ack` | as `v2_requests` | **violated**: `AckSparesLaterFlag` |
| `onboarding` | 2 Connects of an owner, 3 CreateKeys for 2 pairwise DIDs in 2 processes, a crash, a failure, with and without unique wallet names | `OneEntityPerWallet`, `RecordsOpenTheirWallet`, `AnsweredIsComplete`, `OpenWalletsAreCached`, `NoRequestIsStuck`, `EveryRequestEnds`, implements `Registry` |
| `mailbox` | 2 messages for 2 connections of an agent through 2 processes, both types of agency, a fault, a change of webhook | announcement, `AcceptedIsStored`, `PrunedWasSeen`, delivery, implements `Inbox` |
| `mailbox_v2` | 3 messages through 2 processes, 2 times, clocks apart by up to 1, a fault, after which redis may still execute what was sent | announcement, `ExactInStep`, `FlagGoesBackOnlyAcross`, `AckIsOnItsWay`, delivery |
| `routing` | 3 requests of 2 owners out of 28 messages (own and wrong agent, own and wrong key, own DID and that of another, malformed updates, known, unknown and not yet created recipients, a forward in a forward), a failure or crash | `MessagesReachOwners`, `RefusedForAReason`, `EveryStepCounts`, `EveryRequestEnds`, implements `Agency` |
| `routing_unknown` | as `routing` | **violated**: `UnknownIsNotFound` |
| `startup` | 2 processes with different seeds, one with TLS, the other of an enterprise agency or wrongly configured, 2 attempts, an outage, a failure or death | `OneIdentity`, `NoVerkeyOnlyAfterAllAttempts`, `SpoiltIsFinal`, `EveryStartEnds`, `HealthyStartSucceeds` |

Bounds. Two polls and an ack are enough for every hazard of the map of callbacks: one overwrites, one is overwritten, one tears down. Processes share nothing but redis, which the run of V1 drives from outside by any message; several of them are in the theorems, which hold for any number. Agents only share the connections, whose order is abstracted from, so one agent is enough. Two messages give a stale event and a fresh one, and for V2 an earlier and a later time; with failures (`v2_faults`) one message of one time is enough, since a stale event is one whose message is acked. In `mailbox`, two connections are what it takes for a message to arrive at one while the other is read. In `mailbox_v2`, three messages give two SETs in order on one connection and one that overtakes them; two times and a skew of one give clocks that agree, and each order of times that differ. One crash and one failure suffice, as each hazard is one failure at the wrong moment; the theorems hold for any number. For `routing`, three requests are what it takes for one to create what the second one uses and the third one asks of; deeper forwards than three envelopes repeat the same step. For `startup`, two processes compete, one of two attempts may fail, and the one death may come at any moment of the download; the second process has no TLS, since containers do not affect each other. Deadlock is checked for `mailbox`, `mailbox_v2` and `startup`: in the other instances requests run out.

Findings, each shown by a run:

- `v1_arrival`: the flag is read before the subscription is made. A message flagged in between wakes nobody, and the poll answers `false` after its timeout with the flag up (`longpoll.js:29-52`); the next poll gets it. What does hold is `WakeupNotLost`: from the execution of the SUBSCRIBE on, no message is missed.
- `v1_echo`: the event of a message that was acked already can answer the next poll `true` (`service-new-messages.js:28-42`). `WokenWhenArmed` and `ImplementsLongPoll` say how far this goes: only before the timer is set, and at most one poll per process and message.
- `v2_ack`: the GET and the DEL of an ack are not atomic, so an ack may erase a later flag (`service-new-messages-v2.js:104-107`). `LaterFlagLostOnlyByRace` says that nothing else does.
- `routing_unknown`: for a recipient that nobody has, `loadEntityRecordByDidOrVerkey` reads the record of a missing row and throws (`storage.js:223`), where its comment promises `undefined` and the router has an error of its own (`router.js:31`). The client is answered an error either way; the branches of resolver and router for it are dead.

Seen while modelling, shown by no run:

- A V2 poll of an enterprise agency ends in a TypeError and status 500, not 409: `service-new-messages-unavailable.js` has no `getUnackedMessageTimestamp`, which `longpoll-v2.js:29` calls.
- The last error handler of `middleware.js:31` has three parameters, so Express does not use it as one.
- Nothing excludes that `REDIS_URL` and `REDIS_URL_NOTIFICATIONS` are the same database, in which the two services would share their keys; the models take them as different.
- Nothing ties the DID of a Connect or a CreateKey to its verkey: whoever gives a DID first has the name of its wallet, and the owner of the DID is refused.
- Nothing in `setup/create.sql` keeps two wallets of one name apart, on which the creation of one entity per name rests.
- The url of a webhook is read before it is posted to; which url a notification of a changing webhook goes to is not the subject of a property.

Fairness. Weak fairness of: what redis, MySQL and the indy library do with what was sent to them, the continuation of a handler that has what it waits for, timers (every timeout is finite), and reconnection by the client library. In `Routing` and `Startup` each request and each process goes on as long as it can: nothing in them waits for another. No fairness of clients, new messages, crashes or failures; only in `Mailbox` and `MailboxV2` is the owner assumed to poll again and to go on with what it has begun, which is what delivery needs. In `Mailbox` it also comes to a notification if it is between two polls again and again (strong fairness of `Notified`): an enterprise owner has nothing else. In `Startup` the metadata endpoint and S3 are assumed to answer or to fail; the code has no timeout for either, which is the one hazard in `PROJECT.json` without a property. Nothing is assumed of the transfer of the files.

## Proofs

All theorems hold for any number of processes, agents, requests, messages and failures; they rest only on the named assumptions about the constants. Three assumptions are in the models themselves: `Routing` and `Startup` take the storage of wallets to refuse a second wallet of a name (`Onboarding` does not, and its theorems that need it have `namesUnique` as a hypothesis), and clients of `Routing` only name recipients they were told of, or strangers (`IsKnown`).

- `RedisAdapter_proofs`: each redis operation keeps the types; lemmas about `Append`, `Tail` and `Intended` used below; `CountLemma`, `WayLemma` and `GetsLemma`, which say how the number of `set` events in an inbox, of events on their way to a process and of GETs of a caller changes with each operation on the channels, and are what the two refinements count with; and `AskedLemma`, `RepliedLemma` and the lemmas on them, which follow what a caller waits for through the queues.
- `NewMessages_proofs`: `TypeCorrect`; `Invariance`, whose inductive invariant adds to the properties that each poll's GET, SUBSCRIBE and replies are where its phase says (at most one of each, in the queues of its own process), that a registered poll that is not over is in a phase in which it can be woken, and that events queued behind a poll's SUBSCRIBE reply are later than its subscription. From it follow `SubscriptionsAgree`, `WakeupsReachPolls` and the action properties `ArmedPollsAreWoken` and `OnlyOwnerOrAckRemoves`. `Implementation` takes each step to one of `LongPoll` or none: a GET that finds the flag is `ReadFlag`, an executed SET is `Raise` towards the processes whose subscription redis knows, a handled `set` event is `Wake`, a crash or a lost connection is `Fail`; subscribing, replies, acks and timers being set are none. It needs `SettledInv`: a poll has its result exactly when it is over, one that saw the flag does nothing but answer, and only `true` is ever set. `NobodyWaits` is the safety part of `EveryRequestEnds` for any number of everything: what a request waits for, request or reply, is on its way, and an armed timer may answer (`NobodyWaitsInVain`); what liveness takes beyond that is only the fairness of redis, the event loop and the timers.
- `NewMessagesV2_proofs`: the channels of a poll (`Channels`) are as in the first service. New is `Requests`: a GET or DEL on `rw` belongs to a caller that waits for it, which has no other, or to an event handler that holds the callback of a registered poll. From it follows that the message of a woken poll is an event, a GET or a value read (`WokenInv`: `WakeupsReachPolls`); that whatever a poll may still be answered with, the flag itself included, has been the flag during the poll (`FreshInv`: `AnswersAreFresh`); and that an ack that decided on a flag erases that one or none, unless it is recorded as raced (`AckInv`: `LaterFlagOnlyByRace`). Every step is shown to keep the channels, the requests and these three by lemmas of their own. `Implementation` takes each step to one of `LongPollV2` or none, with one lemma per action. It needs `WaitInv`, that an answered poll is over and one that has read a flag does nothing but answer with it; what the answer of a callback may be is `FreshInv`. `NobodyWaits` is proved of this service too; there the GET of an event handler and that of a poll are told apart by the phase of the poll.
- `Onboarding_proofs`: the inductive invariant ties the phase of a request to what exists by then: there is a wallet with its key from its creation on, its DID from the next step, its record from `register`. Where the storage keeps names apart a name has at most one wallet (`WalletsApart`), so two entities of a name would be two keys of one wallet, and an open handle is of the wallet one has created. `TypeCorrect`, `OneEntity`, `RecordsUsable`, `AnswersComplete`, `OpenIsCached` and `OrphansAreForever` follow, and `Implementation`: the creation of a wallet is `Claim`, the statements on the tables are `Record` and `Complete` or `Answer`, whose guards, the claim and the record, are what the invariant knows of the phase; whatever ends in an error is `Fail`, a crash the `Fail` of several. `NoneStuck` is the safety part of `EveryRequestEnds`: with `HandleInv`, that a process caches handles only of wallets it has open, whoever works on an entity has its wallet at hand, and the look-up that ends a Connect finds the record.
- `Mailbox_proofs`: `TypeCorrect`; `StoredIsAnnounced` is nearly inductive; it needs that a handler past its INSERT has a row, that nothing is looked up or posted before, and that only downloaded messages are marked. `Loaded` is the lemma on `loadMessages` that a download is complete for the connections it names. From the invariant follow `Announced`, `Stored` and `PruningIsSafe`. `Implementation` takes the INSERT to `Store`, the end of the handler to `Accept`, an error or a crash to `Fail`, downloads and marks to the steps of their names, everything else to none. It needs `NoRowBefore`: there is no row of a message whose INSERT is still to come, so that none is stored twice.
- `MailboxV2_proofs`: the invariant has the requests of an ack at most once and where its phase says (`Queue`, `Serving`); times of SETs in the order of each process's queue, and after those it has had executed (`InOrder`, `Stamped`), from which comes `GoesBack`; a flag not older than what it announces (`Newest`) and, once an ack has decided to delete, nothing flagged that is later than its time (`Covered`), from which comes `Announced`; and for clocks that agree, no time of the future (`Clocked`) and nothing undownloaded with an earlier time than the one acked (`Late`), from which comes `Exact`. `Awaiting` needs the converse of `Queue`, `Awaited`: a `GET` or `DEL` that an ack waits for is in the queue of the process that serves it. Late requests need that a late SET is of a message whose announcement counts as lost (`LateSets`), and that whatever is flagged while a late DEL is about counts as raced or is covered by its ack.
- `Routing_proofs`: the inductive invariant says for each request which envelope its phase has accepted and why (`AcceptedOK`), what a creation under way has left behind (`CreationOK`), where each stored message comes from (`StoredOK`), and that an answer with messages is packed for the owner of the connection they are stored at (`AnswerOK`, `MessagesReachOwners`). `CreationOK` is needed since two requests may create the same entity: only the one that created the wallet saves a record, so an owner once known never changes. `Implementation` takes each step of `Routing` to one step of `Agency` or none: forwarding, look-ups and the wallet are none; the statement that has the effect is `Perform`, sending the answer `Answer`, each error `Fail`. `RefusalsHaveReasons` follows from an invariant of its own, `KnownOK`: clients name only entities that are complete, which keep their owner, and strangers, who never become an entity; so a reason to refuse, once there, stays (`ReasonsStay`), and the proof shows for each error that its reason is there in the step that raises it. `StepsRunOut` is the safety part of `EveryRequestEnds`: `StepsLeft` counts the envelopes still closed and the awaits of the handler ahead, each step of a request lowers it, and no other raises it. So no nesting of forwards, and no recipients they name, keep a request going round.
- `Startup_proofs`: `Identity` holds since the DID is only stored where there is none and is never replaced; `NoVerkey` needs that a process about to read its verkey finds the DID, and `TypeCorrect` that attempts are below their bound wherever they are counted up. `SpoiltFinal` needs `FilesInv`: a file is only fetched where there is none, nothing is on its way before the fetch or after the end, and a process that serves with TLS has both files whole. `StepsRunOut` is the safety part of `EveryStartEnds`, for any number of attempts: the steps a start has left, with what is left of its attempts to connect and to set up the forward agent (`StepsLeft`), get fewer with each of its steps, and nothing another process or an outage does makes them more.

Not a property of a run, but proved: the types of every module (`TypeCorrect`); `StepsRunOut` of `Startup`, whose property `EveryStepCounts` the run leaves to `EveryStartEnds`; `NobodyWaitsInVain` of the second service, which on the instance follows from `EveryRequestEnds`; and `OrphansAreForever`, that a half-done creation is never taken over where wallet names are kept apart, which `Registry` has by its guards.

Only model-checked: everything with fairness, as liveness is beyond the prover. Nothing is said of recursive definitions, as there are none in the modules with theorems.

## Not modelled

Cryptography (who can open what is in `Routing`, nothing else); loss of the rw connection to redis; a redis that loses its keys; the column `has_new_message` and the look-up of links, which no handler uses; `hasUnackedMessage` of the second service and `resolveAgentAOByDid`, which have no caller; proxy and health routes, middleware, status codes and logging, which keep no state; how the client library reads answers; the DID and the verkey of an entity as two different addresses; which url a notification goes to, beyond the one that was read for it; indices, migrations and the database utilities, which are run by hand before the agency starts; `cleanUpApplication`, which has no caller.

## Plan

Done: the two notification services, creation of entities, the mailbox with both flags, webhooks and both types of agency, routing, configuration and start-up, each with its theorems; abstract specifications of both long polls, of the registry of entities, of the inbox and of routing, with proofs that the code implements them; the safety part of liveness, for the mailboxes as far as the ack of the second flag goes. Next:

1. `MailboxV2` implements `Inbox` as far as it goes: it has no INSERT, so only the owner's half.
2. An abstract specification of the start-up.
3. That an owner of a mailbox always has a step to take.
