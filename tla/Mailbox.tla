------------------------------- MODULE Mailbox ------------------------------
(***************************************************************************)
(* A message on its way through the agency: an Aries forward is stored in  *)
(* the messages table and announced by a flag and a webhook                *)
(* (agent-connection.js, webhook.js), the owner of the agent polls and     *)
(* acks, or is notified by its webhook, downloads the messages connection  *)
(* by connection and marks them (agent-connection.js, agent.js,            *)
(* storage.js), and the database prunes what is marked (dbutils).          *)
(*                                                                         *)
(* A poll is what LongPoll promises: it reads the flag; if the flag is     *)
(* down it ends at any moment, woken up or not.  The flag is that of the   *)
(* first notification service; MailboxV2 has that of the second one.  An   *)
(* agency of type enterprise has no flags (service-new-messages-           *)
(* unavailable.js): only webhooks announce its messages.                   *)
(***************************************************************************)
EXTENDS Naturals, Storage

CONSTANTS
  Procs, Agents,
  Conns,         \* agent connections
  ConnAgent,     \* [Conns -> Agents]: the agent a connection belongs to
  Deliveries,    \* forwarded messages, each with the uid it is stored under
  DeliveryProc,  \* [Deliveries -> Procs]: the process that receives it
  DeliveryConn,  \* [Deliveries -> Conns]: the connection it is for
  Urls, NoUrl,   \* webhook urls
  MaxUrls,       \* bound: changes of a webhook url
  MaxFaults      \* bound: processes that die, requests to MySQL or redis that fail,
                 \* notifications that are not received

ASSUME DeliveriesAssumption ==
  /\ ConnAgent \in [Conns -> Agents]
  /\ DeliveryProc \in [Deliveries -> Procs]
  /\ DeliveryConn \in [Deliveries -> Conns]
  /\ NoUrl \notin Urls

ASSUME BoundAssumption == MaxUrls \in Nat /\ MaxFaults \in Nat

VARIABLES
  agencyType, \* AGENCY_TYPE
  stage,      \* [Deliveries -> Stage]: how far _handleAriesFwd is
  status,     \* [Deliveries -> Status]: status_code of its row, if there is one
  sending,    \* deliveries whose SET is on its way to redis
  lookups,    \* deliveries whose webhook url is being read
  posts,      \* [Deliveries -> Urls or NoUrl]: where its notification is on its way to
  flag,       \* [Agents -> BOOLEAN]: the new-message flag
  webhook,    \* [Agents -> Urls or NoUrl]: webhook_url
  client,     \* [Agents -> Client]: what the owner does
  notified,   \* deliveries the owner was notified of and has not looked at
  toLoad,     \* [Agents -> SUBSET Conns]: connections it is about to download from
  uids,       \* [Agents -> SUBSET Deliveries]: the messages it asks for, {} for all
  got,        \* [Agents -> SUBSET Deliveries]: downloaded, not marked yet
  urlChanges, faults,  \* how much of the bounds is used
  seen,       \* history: downloaded
  lost,       \* history: stored, but its flag was never set
  missed      \* history: stored, but its webhook was not notified

handlerVars == <<stage, sending, lookups, posts>>
clientVars == <<client, notified, toLoad, uids, got, seen>>
boundVars == <<urlChanges, faults>>
whyVars == <<lost, missed>>
vars == <<agencyType, handlerVars, status, flag, webhook, clientVars, boundVars, whyVars>>

Stage == {"idle", "storing", "stored", "accepted", "failed"}
Status == {"none", "MS-103", "MS-106", "pruned"}
Client == {"idle", "polling", "waiting", "acking", "downloading", "updating"}

DeliveryAgent(d) == ConnAgent[DeliveryConn[d]]

TypeOK ==
  /\ agencyType \in {"client", "enterprise"}
  /\ stage \in [Deliveries -> Stage]
  /\ status \in [Deliveries -> Status]
  /\ sending \in SUBSET Deliveries /\ lookups \in SUBSET Deliveries
  /\ posts \in [Deliveries -> Urls \cup {NoUrl}]
  /\ flag \in [Agents -> BOOLEAN]
  /\ webhook \in [Agents -> Urls \cup {NoUrl}]
  /\ client \in [Agents -> Client]
  /\ notified \in SUBSET Deliveries
  /\ toLoad \in [Agents -> SUBSET Conns]
  /\ uids \in [Agents -> SUBSET Deliveries] /\ got \in [Agents -> SUBSET Deliveries]
  /\ urlChanges \in Nat /\ faults \in Nat
  /\ seen \in SUBSET Deliveries /\ lost \in SUBSET Deliveries /\ missed \in SUBSET Deliveries

Init ==
  /\ agencyType \in {"client", "enterprise"}
  /\ stage = [d \in Deliveries |-> "idle"]
  /\ status = [d \in Deliveries |-> "none"]
  /\ sending = {} /\ lookups = {}
  /\ posts = [d \in Deliveries |-> NoUrl]
  /\ flag = [a \in Agents |-> FALSE]
  /\ webhook \in [Agents -> Urls \cup {NoUrl}]
  /\ client = [a \in Agents |-> "idle"]
  /\ notified = {}
  /\ toLoad = [a \in Agents |-> {}]
  /\ uids = [a \in Agents |-> {}] /\ got = [a \in Agents |-> {}]
  /\ urlChanges = 0 /\ faults = 0
  /\ seen = {} /\ lost = {} /\ missed = {}

-----------------------------------------------------------------------------
(* _handleAriesFwd                                                         *)

\* Faulty: the webhook is looked up while the message is being stored.
notifiedWhileStoring(d) ==
  /\ stage[d] = "idle"
  /\ stage' = [stage EXCEPT ![d] = "storing"]
  /\ lookups' = lookups \cup {d}
  /\ UNCHANGED <<agencyType, status, sending, posts, flag, webhook, clientVars, boundVars, whyVars>>

\* The forward is unpacked and routed to its agent connection, the INSERT is sent.
handleAriesFwd(d) ==
  /\ stage[d] = "idle"
  /\ stage' = [stage EXCEPT ![d] = "storing"]
  /\ UNCHANGED <<agencyType, status, sending, lookups, posts, flag, webhook>>
  /\ UNCHANGED <<clientVars, boundVars, whyVars>>

storeMessage(d) ==
  /\ stage[d] = "storing"
  /\ status' = [status EXCEPT ![d] = "MS-103"]
  /\ stage' = [stage EXCEPT ![d] = "stored"]
  /\ UNCHANGED <<agencyType, sending, lookups, posts, flag, webhook>>
  /\ UNCHANGED <<clientVars, boundVars, whyVars>>

\* Something fails, within the bound.
Fault == faults < MaxFaults /\ faults' = faults + 1 /\ UNCHANGED urlChanges

\* Faulty: an error is only logged.
storeErrorLogged(d) ==
  /\ Fault
  /\ stage[d] = "storing"
  /\ stage' = [stage EXCEPT ![d] = "stored"]
  /\ UNCHANGED <<agencyType, status, sending, lookups, posts, flag, webhook, clientVars, whyVars>>

\* An error answers the sender with an error; the row may be there all the same.
StoreFails(d) ==
  /\ Fault
  /\ stage[d] = "storing"
  /\ stage' = [stage EXCEPT ![d] = "failed"]
  /\ \/ UNCHANGED <<status, whyVars>>
     \/ /\ status' = [status EXCEPT ![d] = "MS-103"]
        /\ lost' = lost \cup {d} /\ missed' = missed \cup {d}
  /\ UNCHANGED <<agencyType, sending, lookups, posts, flag, webhook, clientVars>>

\* Faulty: an agent with a webhook is not flagged.
announceOnce(d) ==
  /\ stage[d] = "stored"
  /\ stage' = [stage EXCEPT ![d] = "accepted"]
  /\ IF webhook[DeliveryAgent(d)] = NoUrl
       THEN sending' = sending \cup {d} /\ UNCHANGED lookups
       ELSE lookups' = lookups \cup {d} /\ UNCHANGED sending
  /\ UNCHANGED <<agencyType, status, posts, flag, webhook, clientVars, boundVars, whyVars>>

\* The flag is sent, unless the agency has none, and the webhook looked up without waiting;
\* the sender is answered.
Announce(d) ==
  /\ stage[d] = "stored"
  /\ stage' = [stage EXCEPT ![d] = "accepted"]
  /\ sending' = IF agencyType = "client" THEN sending \cup {d} ELSE sending
  /\ lookups' = lookups \cup {d}
  /\ UNCHANGED <<agencyType, status, posts, flag, webhook, clientVars, boundVars, whyVars>>

flagNewMessage(d) ==
  /\ d \in sending
  /\ sending' = sending \ {d}
  /\ flag' = [flag EXCEPT ![DeliveryAgent(d)] = TRUE]
  /\ UNCHANGED <<agencyType, stage, status, lookups, posts, webhook, clientVars, boundVars, whyVars>>

\* An error of redis is only logged (if redis did the SET all the same, that is
\* flagNewMessage).
FlagFails(d) ==
  /\ Fault
  /\ d \in sending
  /\ sending' = sending \ {d}
  /\ lost' = lost \cup {d}
  /\ UNCHANGED <<agencyType, stage, status, lookups, posts, flag, webhook, clientVars, missed>>

-----------------------------------------------------------------------------
(* Webhooks                                                                *)

\* The url is read, and the notification posted to it if there is one.
trySendNotification(d) ==
  /\ d \in lookups
  /\ lookups' = lookups \ {d}
  /\ posts' = [posts EXCEPT ![d] = webhook[DeliveryAgent(d)]]
  /\ missed' = IF webhook[DeliveryAgent(d)] = NoUrl THEN missed \cup {d} ELSE missed
  /\ UNCHANGED <<agencyType, stage, status, sending, flag, webhook, clientVars, boundVars, lost>>

\* The read of the url fails, which is only logged.
LookupFails(d) ==
  /\ Fault
  /\ d \in lookups
  /\ lookups' = lookups \ {d}
  /\ missed' = missed \cup {d}
  /\ UNCHANGED <<agencyType, stage, status, sending, posts, flag, webhook, clientVars, lost>>

\* The notification reaches its endpoint; what that answers, and when, changes nothing.
sendNotification(d) ==
  /\ posts[d] # NoUrl
  /\ posts' = [posts EXCEPT ![d] = NoUrl]
  /\ notified' = notified \cup {d}
  /\ UNCHANGED <<agencyType, stage, status, sending, lookups, flag, webhook, boundVars, whyVars>>
  /\ UNCHANGED <<client, toLoad, uids, got, seen>>

\* Nobody receives it: it is not sent again.
NotificationFails(d) ==
  /\ Fault
  /\ posts[d] # NoUrl
  /\ posts' = [posts EXCEPT ![d] = NoUrl]
  /\ missed' = missed \cup {d}
  /\ UNCHANGED <<agencyType, stage, status, sending, lookups, flag, webhook, clientVars, lost>>

setWebhook(a, url) ==
  /\ urlChanges < MaxUrls
  /\ urlChanges' = urlChanges + 1
  /\ webhook' = [webhook EXCEPT ![a] = url]
  /\ UNCHANGED <<agencyType, handlerVars, status, flag, clientVars, faults, whyVars>>

-----------------------------------------------------------------------------
(* The owner of an agent.  It acks as soon as it is told of a message and  *)
(* downloads afterwards; what it is notified of it downloads by its uid.   *)

ClientGoes(a, next) == client' = [client EXCEPT ![a] = next]

Poll(a) ==
  /\ client[a] = "idle"
  /\ ClientGoes(a, "polling")
  /\ UNCHANGED <<agencyType, handlerVars, status, flag, webhook, boundVars, whyVars>>
  /\ UNCHANGED <<notified, toLoad, uids, got, seen>>

\* Faulty: a poll waits even if the flag is up.
pollAlwaysWaits(a) ==
  /\ client[a] = "polling" /\ agencyType = "client"
  /\ ClientGoes(a, "waiting")
  /\ UNCHANGED <<agencyType, handlerVars, status, flag, webhook, boundVars, whyVars>>
  /\ UNCHANGED <<notified, toLoad, uids, got, seen>>

hasUnackedMessage(a) ==
  /\ client[a] = "polling" /\ agencyType = "client"
  /\ \/ flag[a] /\ ClientGoes(a, "acking")
     \/ ~flag[a] /\ ClientGoes(a, "waiting")
  /\ UNCHANGED <<agencyType, handlerVars, status, flag, webhook, boundVars, whyVars>>
  /\ UNCHANGED <<notified, toLoad, uids, got, seen>>

ErrorFeatureDisabled(a) ==
  /\ client[a] = "polling" /\ agencyType = "enterprise"
  /\ ClientGoes(a, "idle")
  /\ UNCHANGED <<agencyType, handlerVars, status, flag, webhook, boundVars, whyVars>>
  /\ UNCHANGED <<notified, toLoad, uids, got, seen>>

\* A waiting poll is woken up or times out.
PollEnds(a) ==
  /\ client[a] = "waiting"
  /\ ClientGoes(a, "acking") \/ ClientGoes(a, "idle")
  /\ UNCHANGED <<agencyType, handlerVars, status, flag, webhook, boundVars, whyVars>>
  /\ UNCHANGED <<notified, toLoad, uids, got, seen>>

\* Messages wanted from some connections: all that are unread, or those with given uids.
Asks(a, conns, wanted) ==
  /\ toLoad' = [toLoad EXCEPT ![a] = conns]
  /\ uids' = [uids EXCEPT ![a] = wanted]
  /\ ClientGoes(a, "downloading")

ackNewMessage(a) ==
  /\ client[a] = "acking"
  /\ flag' = [flag EXCEPT ![a] = FALSE]
  /\ Asks(a, {c \in Conns : ConnAgent[c] = a}, {})
  /\ UNCHANGED <<agencyType, handlerVars, status, webhook, notified, got, seen, boundVars, whyVars>>

\* The owner comes to a notification, between two polls.
Notified(a, d) ==
  /\ client[a] = "idle" /\ d \in notified /\ DeliveryAgent(d) = a
  /\ notified' = notified \ {d}
  /\ Asks(a, {DeliveryConn[d]}, {d})
  /\ UNCHANGED <<agencyType, handlerVars, status, flag, webhook, got, seen, boundVars, whyVars>>

\* The messages table.
messages ==
  [d \in {e \in Deliveries : status[e] \in {"MS-103", "MS-106"}} |->
     buildStoredMessage(DeliveryAgent(d), DeliveryConn[d], status[d])]

handleGetMsgs(a, c) ==
  /\ client[a] = "downloading" /\ c \in toLoad[a]
  /\ \E codes \in {{}, {"MS-103"}} :
       LET loaded == loadMessages(messages, a, {c}, uids[a], codes) IN
         /\ got' = [got EXCEPT ![a] = @ \cup loaded]
         /\ seen' = seen \cup loaded
  /\ toLoad' = [toLoad EXCEPT ![a] = @ \ {c}]
  /\ ClientGoes(a, IF toLoad[a] = {c} THEN "updating" ELSE "downloading")
  /\ UNCHANGED <<agencyType, handlerVars, status, flag, webhook, notified, uids, boundVars, whyVars>>

handleUpdateMsgsStatusByConns(a) ==
  /\ client[a] = "updating"
  /\ status' = [d \in Deliveries |->
                  IF d \in updateStatusCodeAgentConnection(messages, a, got[a])
                  THEN "MS-106" ELSE status[d]]
  /\ got' = [got EXCEPT ![a] = {}]
  /\ uids' = [uids EXCEPT ![a] = {}]
  /\ ClientGoes(a, "idle")
  /\ UNCHANGED <<agencyType, handlerVars, flag, webhook, notified, toLoad, seen, boundVars, whyVars>>

prune_msgs ==
  /\ \E d \in Deliveries : status[d] = "MS-106"
  /\ status' = [d \in Deliveries |-> IF status[d] = "MS-106" THEN "pruned" ELSE status[d]]
  /\ UNCHANGED <<agencyType, handlerVars, flag, webhook, clientVars, boundVars, whyVars>>

-----------------------------------------------------------------------------
(* A process dies with the handlers it runs and what they had sent.  A SET *)
(* that reaches redis all the same counts as lost here: it would only      *)
(* raise the flag.  An ack is one step; a DEL that comes late, to which    *)
(* it matters, is in MailboxV2.                                            *)

Crash(p) ==
  /\ Fault
  /\ LET dead == {d \in Deliveries : DeliveryProc[d] = p} IN
       /\ stage' = [d \in Deliveries |->
                      IF d \in dead /\ stage[d] \in {"storing", "stored"} THEN "failed" ELSE stage[d]]
       /\ sending' = sending \ dead
       /\ lookups' = lookups \ dead
       /\ posts' = [d \in Deliveries |-> IF d \in dead THEN NoUrl ELSE posts[d]]
       /\ lost' = lost \cup {d \in dead : stage[d] = "stored" \/ d \in sending}
       /\ missed' = missed \cup {d \in dead : stage[d] = "stored" \/ d \in lookups \/ posts[d] # NoUrl}
  /\ UNCHANGED <<agencyType, status, flag, webhook, clientVars>>

-----------------------------------------------------------------------------

HandlerStep(d) ==
  \/ storeMessage(d)
  \/ Announce(d)

PollStep(a) == Poll(a) \/ hasUnackedMessage(a) \/ ErrorFeatureDisabled(a) \/ PollEnds(a)

OwnerStep(a) ==
  \/ PollStep(a)
  \/ ackNewMessage(a)
  \/ \E c \in Conns : handleGetMsgs(a, c)
  \/ handleUpdateMsgsStatusByConns(a)

NotificationStep(d) == trySendNotification(d) \/ sendNotification(d)

Next ==
  \/ \E d \in Deliveries :
       \/ handleAriesFwd(d) \/ HandlerStep(d) \/ StoreFails(d)
       \/ flagNewMessage(d) \/ FlagFails(d)
       \/ NotificationStep(d) \/ LookupFails(d) \/ NotificationFails(d)
  \/ \E a \in Agents :
       \/ OwnerStep(a)
       \/ \E url \in Urls \cup {NoUrl} : setWebhook(a, url)
       \/ \E d \in Deliveries : Notified(a, d)
  \/ prune_msgs
  \/ \E p \in Procs : Crash(p)

\* What is sent to MySQL, redis or a webhook ends, a poll ends, and the owner goes on with
\* what it has begun, polls again and comes to its notifications between two polls; nobody
\* has to send a message.
Fairness ==
  /\ \A d \in Deliveries :
       WF_vars(HandlerStep(d)) /\ WF_vars(flagNewMessage(d)) /\ WF_vars(NotificationStep(d))
  /\ \A a \in Agents : WF_vars(OwnerStep(a)) /\ \A d \in Deliveries : SF_vars(Notified(a, d))
  /\ WF_vars(prune_msgs)

Spec == Init /\ [][Next]_vars /\ Fairness

-----------------------------------------------------------------------------
(* Properties.                                                             *)

\* The owner is about to ask for a message.
AsksFor(a, d) ==
  client[a] = "downloading" /\ DeliveryConn[d] \in toLoad[a] /\ uids[a] \in {{}, {d}}

\* Its flag is up or on its way, or was lost by a crash or an error before the SET.
Flagged(d) ==
  flag[DeliveryAgent(d)] \/ stage[d] = "stored" \/ d \in sending \/ d \in lost

\* Its notification is on its way or received, or there was no url, or it failed.
Hooked(d) ==
  \/ stage[d] = "stored" \/ d \in lookups \/ posts[d] # NoUrl
  \/ d \in notified \/ d \in missed

\* A message that is stored and not downloaded is announced, by its flag in an agency that
\* has flags and by its webhook in every agency, or its owner is about to ask for it.  Only
\* a crash, an error or a missing url breaks this, never the order of storing, flagging,
\* notifying, acking and downloading connection by connection
\* (agent-connection.js:182-200, webhook.js:39-71).
StoredIsAnnounced ==
  \A d \in Deliveries : status[d] = "MS-103" /\ d \notin seen =>
    \/ AsksFor(DeliveryAgent(d), d)
    \/ (agencyType = "client" => Flagged(d)) /\ Hooked(d)

\* Neither the sender nor the owner's webhook is told of a message that is not
\* stored: an owner that downloads when it is notified finds the message
\* (agent-connection.js:186-199).
AcceptedIsStored ==
  \A d \in Deliveries :
    stage[d] = "accepted" \/ posts[d] # NoUrl \/ d \in notified => status[d] # "none"

\* No message is pruned that was never downloaded: one that arrives between the download
\* and the update of the statuses is left alone, also when the download was empty
\* (storage.js:194-205, agent.js:193-209, the procedure prune_msgs).
PrunedWasSeen == \A d \in Deliveries : status[d] = "pruned" => d \in seen

\* Every accepted message is downloaded in the end, unless its flag was lost in an agency
\* with flags, or its notification missed in one without
\* (agent-connection.js:182-200, longpoll.js:28-64, webhook.js:51-63).
DeliveredInTheEnd ==
  \A d \in Deliveries :
    stage[d] = "accepted" ~>
      d \in seen \/ d \in (IF agencyType = "client" THEN lost ELSE missed)
-----------------------------------------------------------------------------
(* The mailbox as senders and owners know it.                              *)

Answers == [d \in Deliveries |-> IF stage[d] \in {"accepted", "failed"} THEN stage[d] ELSE "none"]

IB == INSTANCE Inbox WITH
  Messages   <- Deliveries,
  row        <- status,
  answer     <- Answers,
  downloaded <- seen

\* The handlers implement Inbox: a message is accepted only when it is stored, stored at most
\* once, downloaded only while it is stored and marked only after it was downloaded, whatever
\* fails and whichever process dies (agent-connection.js:182-200, agent.js:193-209,
\* storage.js:181-205, the procedure prune_msgs).
ImplementsInbox == IB!Spec
=============================================================================
