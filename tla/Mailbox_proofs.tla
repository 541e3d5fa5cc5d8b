--------------------------- MODULE Mailbox_proofs ---------------------------
(***************************************************************************)
(* Proofs about Mailbox, for any number of processes, agents, connections, *)
(* messages and faults.                                                    *)
(***************************************************************************)
EXTENDS Mailbox, TLAPS

\* From the INSERT on a message has a row, and nothing is looked up, posted or
\* notified before.
RowOnceStored ==
  \A d \in Deliveries :
    stage[d] \in {"stored", "accepted"} \/ d \in lookups \/ posts[d] # NoUrl \/ d \in notified
      => status[d] # "none"

\* Only what was downloaded is marked, hence pruned.
MarkedWasSeen ==
  /\ \A d \in Deliveries : status[d] \in {"MS-106", "pruned"} => d \in seen
  /\ \A a \in Agents : got[a] \subseteq seen

\* The inductive invariant.
Inv == TypeOK /\ StoredIsAnnounced /\ RowOnceStored /\ MarkedWasSeen

LEMMA InitInv == Init => Inv
  BY DeliveriesAssumption
  DEF Init, Inv, TypeOK, Stage, Status, Client, StoredIsAnnounced, RowOnceStored, MarkedWasSeen

\* What is loaded are stored messages of the agent, and the unread ones of a connection among
\* them unless other uids are asked for.
LEMMA Loaded ==
  ASSUME TypeOK, NEW a \in Agents, NEW c \in Conns, NEW codes \in {{}, {"MS-103"}}
  PROVE  /\ loadMessages(messages, a, {c}, uids[a], codes) \subseteq Deliveries
         /\ \A d \in Deliveries :
              /\ status[d] = "MS-103" /\ DeliveryAgent(d) = a /\ DeliveryConn[d] = c
              /\ uids[a] \in {{}, {d}}
              => d \in loadMessages(messages, a, {c}, uids[a], codes)
<1>1. \A d \in DOMAIN messages : d \in Deliveries
  BY DEF messages
<1>2. \A d \in Deliveries : status[d] = "MS-103" =>
        d \in DOMAIN messages /\ messages[d] = buildStoredMessage(DeliveryAgent(d), DeliveryConn[d], "MS-103")
  BY DEF messages
<1>3. loadMessages(messages, a, {c}, uids[a], codes) \subseteq Deliveries
  BY <1>1 DEF loadMessages
<1>4. ASSUME NEW d \in Deliveries,
             status[d] = "MS-103", DeliveryAgent(d) = a, DeliveryConn[d] = c, uids[a] \in {{}, {d}}
      PROVE  d \in loadMessages(messages, a, {c}, uids[a], codes)
  <2>0. messages[d] = buildStoredMessage(a, c, "MS-103")
    BY <1>2, <1>4
  <2>1. /\ d \in DOMAIN messages
        /\ messages[d].agentDid = a /\ messages[d].agentConnectionDid = c
        /\ messages[d].statusCode = "MS-103"
    BY <1>2, <1>4, <2>0 DEF buildStoredMessage
  <2>2. Passes(d, uids[a]) /\ Passes(c, {c}) /\ Passes("MS-103", codes)
    BY <1>4 DEF Passes
  <2> QED
    BY <2>1, <2>2 DEF loadMessages
<1> QED
  BY <1>3, <1>4

\* An update touches only what it names.
LEMMA Updated ==
  ASSUME NEW a, NEW wanted
  PROVE  updateStatusCodeAgentConnection(messages, a, wanted) \subseteq wanted
  BY DEF updateStatusCodeAgentConnection

-----------------------------------------------------------------------------
(* Types *)

LEMMA TypeStep == TypeOK /\ [Next]_vars => TypeOK'
<1> SUFFICES ASSUME TypeOK, [Next]_vars PROVE TypeOK'
  OBVIOUS
<1> USE DeliveriesAssumption, BoundAssumption DEF TypeOK, Stage, Status, Client
<1>1. ASSUME NEW d \in Deliveries, handleAriesFwd(d) \/ HandlerStep(d) \/ StoreFails(d)
      PROVE  TypeOK'
  BY <1>1 DEF handleAriesFwd, HandlerStep, storeMessage, Announce, StoreFails, Fault,
              clientVars, boundVars, whyVars
<1>2. ASSUME NEW d \in Deliveries, FlagFails(d) \/ LookupFails(d)
      PROVE  TypeOK'
  BY <1>2 DEF FlagFails, LookupFails, Fault, clientVars, boundVars
<1>3. ASSUME NEW d \in Deliveries, flagNewMessage(d)
      PROVE  TypeOK'
  <2>1. flag' \in [Agents -> BOOLEAN]
    BY <1>3, Zenon DEF flagNewMessage
  <2> QED
    BY <1>3, <2>1 DEF flagNewMessage, clientVars, boundVars, whyVars
<1>4. ASSUME NEW d \in Deliveries, NotificationStep(d) \/ NotificationFails(d)
      PROVE  TypeOK'
  BY <1>4 DEF NotificationStep, trySendNotification, sendNotification, NotificationFails, Fault,
              DeliveryAgent, clientVars, boundVars, whyVars
<1>5. ASSUME NEW a \in Agents, PollStep(a)
      PROVE  TypeOK'
  BY <1>5 DEF PollStep, Poll, hasUnackedMessage, ErrorFeatureDisabled, PollEnds, ClientGoes,
              handlerVars, boundVars, whyVars
<1>6. ASSUME NEW a \in Agents, ackNewMessage(a)
      PROVE  TypeOK'
  <2>1. flag' \in [Agents -> BOOLEAN]
    BY <1>6, Zenon DEF ackNewMessage
  <2> QED
    BY <1>6, <2>1 DEF ackNewMessage, Asks, ClientGoes, handlerVars, boundVars, whyVars
<1>7. ASSUME NEW a \in Agents, NEW d \in Deliveries, Notified(a, d)
      PROVE  TypeOK'
  BY <1>7 DEF Notified, Asks, ClientGoes, handlerVars, boundVars, whyVars
<1>8. ASSUME NEW a \in Agents, NEW c \in Conns, handleGetMsgs(a, c)
      PROVE  TypeOK'
  <2>1. PICK codes \in {{}, {"MS-103"}} :
          /\ got' = [got EXCEPT ![a] = @ \cup loadMessages(messages, a, {c}, uids[a], codes)]
          /\ seen' = seen \cup loadMessages(messages, a, {c}, uids[a], codes)
    BY <1>8 DEF handleGetMsgs
  <2>2. loadMessages(messages, a, {c}, uids[a], codes) \subseteq Deliveries
    BY Loaded
  <2> QED
    BY <1>8, <2>1, <2>2 DEF handleGetMsgs, ClientGoes, handlerVars, boundVars, whyVars
<1>9. ASSUME NEW a \in Agents, handleUpdateMsgsStatusByConns(a)
      PROVE  TypeOK'
  BY <1>9 DEF handleUpdateMsgsStatusByConns, ClientGoes, handlerVars, boundVars, whyVars
<1>10. ASSUME NEW a \in Agents, NEW url \in Urls \cup {NoUrl}, setWebhook(a, url)
      PROVE  TypeOK'
  BY <1>10 DEF setWebhook, handlerVars, clientVars, whyVars
<1>11. CASE prune_msgs
  BY <1>11 DEF prune_msgs, handlerVars, clientVars, boundVars, whyVars
<1>12. ASSUME NEW p \in Procs, Crash(p)
      PROVE  TypeOK'
  BY <1>12 DEF Crash, Fault, clientVars
<1>13. CASE UNCHANGED vars
  BY <1>13 DEF vars, handlerVars, clientVars, boundVars, whyVars
<1> QED
  BY <1>1, <1>2, <1>3, <1>4, <1>5, <1>6, <1>7, <1>8, <1>9, <1>10, <1>11, <1>12, <1>13
  DEF Next, OwnerStep

-----------------------------------------------------------------------------
(* Each part is preserved by the steps that can disturb it.                *)

LEMMA InvStep == Inv /\ [Next]_vars => Inv'
<1> SUFFICES ASSUME Inv, [Next]_vars PROVE Inv'
  OBVIOUS
<1> DEFINE Parts == StoredIsAnnounced /\ RowOnceStored /\ MarkedWasSeen
<1>0. TypeOK'
  BY TypeStep DEF Inv
<1> USE DeliveriesAssumption
    DEF Inv, TypeOK, Stage, Status, Client, StoredIsAnnounced, RowOnceStored, MarkedWasSeen,
        AsksFor, Flagged, Hooked, DeliveryAgent
<1>1. ASSUME NEW d \in Deliveries, handleAriesFwd(d) \/ HandlerStep(d)
      PROVE  Parts'
  BY <1>1 DEF handleAriesFwd, HandlerStep, storeMessage, Announce, clientVars, boundVars, whyVars
<1>2. ASSUME NEW d \in Deliveries, StoreFails(d)
      PROVE  Parts'
  BY <1>2 DEF StoreFails, Fault, clientVars, boundVars, whyVars
<1>3. ASSUME NEW d \in Deliveries, flagNewMessage(d) \/ FlagFails(d)
      PROVE  Parts'
  BY <1>3 DEF flagNewMessage, FlagFails, Fault, clientVars, boundVars, whyVars
<1>4. ASSUME NEW d \in Deliveries, NotificationStep(d) \/ LookupFails(d) \/ NotificationFails(d)
      PROVE  Parts'
  BY <1>4 DEF NotificationStep, trySendNotification, sendNotification, LookupFails,
              NotificationFails, Fault, clientVars, boundVars, whyVars
<1>5. ASSUME NEW a \in Agents, PollStep(a)
      PROVE  Parts'
  BY <1>5 DEF PollStep, Poll, hasUnackedMessage, ErrorFeatureDisabled, PollEnds, ClientGoes,
              handlerVars, boundVars, whyVars
<1>6. ASSUME NEW a \in Agents, ackNewMessage(a)
      PROVE  Parts'
  BY <1>6 DEF ackNewMessage, Asks, ClientGoes, handlerVars, boundVars, whyVars
<1>7. ASSUME NEW a \in Agents, NEW d \in Deliveries, Notified(a, d)
      PROVE  Parts'
  BY <1>7 DEF Notified, Asks, ClientGoes, handlerVars, boundVars, whyVars
<1>8. ASSUME NEW a \in Agents, NEW c \in Conns, handleGetMsgs(a, c)
      PROVE  Parts'
  <2>1. PICK codes \in {{}, {"MS-103"}} :
          /\ got' = [got EXCEPT ![a] = @ \cup loadMessages(messages, a, {c}, uids[a], codes)]
          /\ seen' = seen \cup loadMessages(messages, a, {c}, uids[a], codes)
    BY <1>8 DEF handleGetMsgs
  <2>2. \A d \in Deliveries :
          /\ status[d] = "MS-103" /\ DeliveryAgent(d) = a /\ DeliveryConn[d] = c
          /\ uids[a] \in {{}, {d}}
          => d \in seen'
    BY <2>1, Loaded
  <2>3. ASSUME NEW d \in Deliveries, d \notin seen', status[d] = "MS-103", AsksFor(DeliveryAgent(d), d)
        PROVE  AsksFor(DeliveryAgent(d), d)'
    <3>1. CASE DeliveryAgent(d) # a
      BY <1>8, <2>3, <3>1 DEF handleGetMsgs, ClientGoes
    <3>2. CASE DeliveryAgent(d) = a
      <4>1. DeliveryConn[d] # c
        BY <2>2, <2>3, <3>2
      <4> QED
        BY <1>8, <2>3, <3>2, <4>1 DEF handleGetMsgs, ClientGoes
    <3> QED
      BY <3>1, <3>2
  <2>4. StoredIsAnnounced'
    BY <1>8, <2>1, <2>3 DEF handleGetMsgs, handlerVars, boundVars, whyVars
  <2>5. RowOnceStored' /\ MarkedWasSeen'
    BY <1>8, <2>1 DEF handleGetMsgs, handlerVars, boundVars, whyVars
  <2> QED
    BY <2>4, <2>5
<1>9. ASSUME NEW a \in Agents, handleUpdateMsgsStatusByConns(a)
      PROVE  Parts'
  BY <1>9, Updated DEF handleUpdateMsgsStatusByConns, ClientGoes, handlerVars, boundVars, whyVars
<1>10. ASSUME NEW a \in Agents, NEW url \in Urls \cup {NoUrl}, setWebhook(a, url)
      PROVE  Parts'
  BY <1>10 DEF setWebhook, handlerVars, clientVars, whyVars
<1>11. CASE prune_msgs
  BY <1>11 DEF prune_msgs, handlerVars, clientVars, boundVars, whyVars
<1>12. ASSUME NEW p \in Procs, Crash(p)
       PROVE  Parts'
  BY <1>12 DEF Crash, Fault, clientVars
<1>13. CASE UNCHANGED vars
  BY <1>13 DEF vars, handlerVars, clientVars, boundVars, whyVars
<1>14. Parts'
  BY <1>1, <1>2, <1>3, <1>4, <1>5, <1>6, <1>7, <1>8, <1>9, <1>10, <1>11, <1>12, <1>13
  DEF Next, OwnerStep
<1> QED
  BY <1>0, <1>14

-----------------------------------------------------------------------------

\* The invariant holds in every behaviour of a mailbox.
THEOREM Invariance == Spec => []Inv
<1>1. Init => Inv
  BY InitInv
<1>2. Inv /\ [Next]_vars => Inv'
  BY InvStep
<1> QED
  BY <1>1, <1>2, PTL DEF Spec

\* The variables keep their types.
THEOREM TypeCorrect == Spec => []TypeOK
<1>1. Inv => TypeOK
  BY DEF Inv
<1> QED
  BY <1>1, Invariance, PTL

\* A stored message is announced until it is downloaded, whatever the interleaving
\* of storing, flagging, notifying, acking and downloading (agent-connection.js:182-200,
\* webhook.js:39-71).
THEOREM Announced == Spec => []StoredIsAnnounced
<1>1. Inv => StoredIsAnnounced
  BY DEF Inv
<1> QED
  BY <1>1, Invariance, PTL

\* Who is told of a message can find it (agent-connection.js:186-199).
THEOREM Stored == Spec => []AcceptedIsStored
<1>1. Inv => AcceptedIsStored
  BY DEF Inv, RowOnceStored, AcceptedIsStored
<1> QED
  BY <1>1, Invariance, PTL

\* Pruning loses no message that was not downloaded (storage.js:194-205, prune_msgs).
THEOREM PruningIsSafe == Spec => []PrunedWasSeen
<1>1. Inv => PrunedWasSeen
  BY DEF Inv, MarkedWasSeen, PrunedWasSeen
<1> QED
  BY <1>1, Invariance, PTL
-----------------------------------------------------------------------------
(* The handlers implement Inbox.                                           *)

\* A message that is not stored yet has no row.
NoRowBefore == \A d \in Deliveries : stage[d] \in {"idle", "storing"} => status[d] = "none"

Received == [IB!Next]_(IB!vars)

\* What senders and owners do not see.
LEMMA Unseen == ASSUME UNCHANGED <<status, Answers, seen>> PROVE Received
  BY DEF Received, IB!vars

LEMMA SameAnswers ==
  ASSUME \A d \in Deliveries : \/ stage'[d] = stage[d]
                               \/ {stage[d], stage'[d]} \cap {"accepted", "failed"} = {}
  PROVE  Answers' = Answers
  BY DEF Answers

\* Each step is a step of Inbox or none.
LEMMA StepReceived ==
  ASSUME TypeOK, RowOnceStored, MarkedWasSeen, NoRowBefore, [Next]_vars
  PROVE  Received /\ NoRowBefore'
<1> USE DEF TypeOK, Stage, NoRowBefore
<1>1. ASSUME NEW d \in Deliveries, handleAriesFwd(d) PROVE Received /\ NoRowBefore'
  <2>1. UNCHANGED <<status, seen>> /\ NoRowBefore'
    BY <1>1 DEF handleAriesFwd, clientVars
  <2>2. Answers' = Answers
    BY <1>1, SameAnswers DEF handleAriesFwd
  <2>3. QED
    BY <2>1, <2>2, Unseen
<1>2. ASSUME NEW d \in Deliveries, storeMessage(d) PROVE Received /\ NoRowBefore'
  <2>1. NoRowBefore'
    BY <1>2 DEF storeMessage
  <2>2. Answers' = Answers /\ Answers[d] = "none"
    BY <1>2, SameAnswers DEF storeMessage, Answers
  <2>3. status[d] = "none" /\ status' = [status EXCEPT ![d] = "MS-103"] /\ seen' = seen
    BY <1>2 DEF storeMessage, clientVars
  <2>4. IB!Store(d)
    BY <2>2, <2>3 DEF IB!Store
  <2>5. QED
    BY <2>1, <2>4 DEF Received, IB!Next
<1>3. ASSUME NEW d \in Deliveries, StoreFails(d) PROVE Received /\ NoRowBefore'
  <2>1. NoRowBefore'
    BY <1>3 DEF StoreFails
  <2>2. /\ stage[d] = "storing" /\ stage' = [stage EXCEPT ![d] = "failed"]
        /\ seen' = seen
        /\ status' = status \/ status' = [status EXCEPT ![d] = "MS-103"]
    BY <1>3 DEF StoreFails, clientVars
  <2>3. /\ Answers[d] = "none" /\ status[d] = "none"
        /\ Answers' = [Answers EXCEPT ![d] = "failed"]
        /\ Answers' = [m \in Deliveries |-> IF m \in {d} THEN "failed" ELSE Answers[m]]
    BY <2>2 DEF Answers
  <2>4. IB!Store(d) \/ IB!Fail({d})
    BY <2>2, <2>3 DEF IB!Store, IB!Fail
  <2>5. QED
    BY <2>1, <2>4 DEF Received, IB!Next
<1>4. ASSUME NEW d \in Deliveries, Announce(d) PROVE Received /\ NoRowBefore'
  <2>1. NoRowBefore'
    BY <1>4 DEF Announce
  <2>2. /\ stage[d] = "stored" /\ stage' = [stage EXCEPT ![d] = "accepted"]
        /\ UNCHANGED <<status, seen>>
    BY <1>4 DEF Announce, clientVars
  <2>3. /\ Answers[d] = "none" /\ Answers' = [Answers EXCEPT ![d] = "accepted"]
        /\ status[d] # "none"
    BY <2>2 DEF Answers, RowOnceStored
  <2>4. IB!Accept(d)
    BY <2>2, <2>3 DEF IB!Accept
  <2>5. QED
    BY <2>1, <2>4 DEF Received, IB!Next
<1>5. ASSUME NEW a \in Agents, NEW c \in Conns, handleGetMsgs(a, c) PROVE Received /\ NoRowBefore'
  <2>1. PICK codes \in {{}, {"MS-103"}} :
          seen' = seen \cup loadMessages(messages, a, {c}, uids[a], codes)
    BY <1>5 DEF handleGetMsgs
  <2> DEFINE loaded == loadMessages(messages, a, {c}, uids[a], codes)
  <2>2. loaded \subseteq Deliveries /\ \A d \in loaded : status[d] \in {"MS-103", "MS-106"}
    BY DEF loadMessages, messages
  <2>3. UNCHANGED <<status, stage>>
    BY <1>5 DEF handleGetMsgs, handlerVars
  <2>4. NoRowBefore' /\ Answers' = Answers
    BY <2>3, SameAnswers
  <2>5. IB!Download(loaded)
    BY <2>1, <2>2, <2>3, <2>4 DEF IB!Download, IB!Stored
  <2>6. QED
    BY <2>2, <2>4, <2>5 DEF Received, IB!Next
<1>6. ASSUME NEW a \in Agents, handleUpdateMsgsStatusByConns(a) PROVE Received /\ NoRowBefore'
  <2> DEFINE updated == updateStatusCodeAgentConnection(messages, a, got[a])
  <2>1. /\ updated \subseteq Deliveries /\ updated \subseteq seen
        /\ \A d \in updated : status[d] \in {"MS-103", "MS-106"}
    BY DEF updateStatusCodeAgentConnection, messages, MarkedWasSeen
  <2>2. /\ UNCHANGED <<stage, seen>>
        /\ status' = [d \in Deliveries |-> IF d \in updated THEN "MS-106" ELSE status[d]]
    BY <1>6 DEF handleUpdateMsgsStatusByConns, handlerVars
  <2>3. NoRowBefore' /\ Answers' = Answers
    BY <2>1, <2>2, SameAnswers
  <2>4. IB!MarkRead(updated)
    BY <2>1, <2>2, <2>3 DEF IB!MarkRead, IB!Stored
  <2>5. QED
    BY <2>1, <2>3, <2>4 DEF Received, IB!Next
<1>7. CASE prune_msgs
  <2>1. /\ UNCHANGED <<stage, seen>>
        /\ status' = [d \in Deliveries |-> IF status[d] = "MS-106" THEN "pruned" ELSE status[d]]
    BY <1>7 DEF prune_msgs, handlerVars, clientVars
  <2>2. NoRowBefore' /\ Answers' = Answers
    BY <2>1, SameAnswers
  <2>3. IB!Prune
    BY <2>1, <2>2 DEF IB!Prune
  <2>4. QED
    BY <2>2, <2>3 DEF Received, IB!Next
<1>8. ASSUME NEW p \in Procs, Crash(p) PROVE Received /\ NoRowBefore'
  <2> DEFINE failing == {d \in Deliveries : DeliveryProc[d] = p /\ stage[d] \in {"storing", "stored"}}
  <2>1. /\ UNCHANGED <<status, seen>>
        /\ stage' = [d \in Deliveries |-> IF d \in failing THEN "failed" ELSE stage[d]]
    BY <1>8 DEF Crash, clientVars
  <2>2. NoRowBefore'
    BY <2>1
  <2>3. \A d \in failing : Answers[d] = "none"
    BY DEF Answers
  <2>4. Answers' = [d \in Deliveries |-> IF d \in failing THEN "failed" ELSE Answers[d]]
    BY <2>1 DEF Answers
  <2>5. IB!Fail(failing)
    BY <2>1, <2>3, <2>4 DEF IB!Fail
  <2>6. QED
    BY <2>2, <2>5 DEF Received, IB!Next
<1>9. ASSUME UNCHANGED <<stage, status, seen>> PROVE Received /\ NoRowBefore'
  BY <1>9, SameAnswers, Unseen
<1>10. ASSUME NEW d \in Deliveries,
              \/ flagNewMessage(d) \/ FlagFails(d) \/ NotificationStep(d)
              \/ LookupFails(d) \/ NotificationFails(d)
       PROVE  UNCHANGED <<stage, status, seen>>
  BY <1>10 DEF flagNewMessage, FlagFails, NotificationStep, trySendNotification, sendNotification,
               LookupFails, NotificationFails, clientVars
<1>11. ASSUME NEW a \in Agents, PollStep(a) \/ ackNewMessage(a)
       PROVE  UNCHANGED <<stage, status, seen>>
  BY <1>11 DEF PollStep, Poll, hasUnackedMessage, ErrorFeatureDisabled, PollEnds, ackNewMessage,
               handlerVars
<1>12. ASSUME NEW a \in Agents,
              \/ \E url \in Urls \cup {NoUrl} : setWebhook(a, url)
              \/ \E d \in Deliveries : Notified(a, d)
       PROVE  UNCHANGED <<stage, status, seen>>
  BY <1>12 DEF setWebhook, Notified, handlerVars, clientVars
<1>13. CASE UNCHANGED vars
  BY <1>13, <1>9 DEF vars, handlerVars, clientVars
<1>14. QED
  BY <1>1, <1>2, <1>3, <1>4, <1>5, <1>6, <1>7, <1>8, <1>9, <1>10, <1>11, <1>12, <1>13
  DEF Next, HandlerStep, OwnerStep

\* The handlers implement Inbox (agent-connection.js:182-200, agent.js:193-209,
\* storage.js:181-205, the procedure prune_msgs).
THEOREM Implementation == Spec => ImplementsInbox
<1>1. Init => IB!Init /\ NoRowBefore
  BY DEF Init, IB!Init, Answers, NoRowBefore
<1>2. Inv /\ NoRowBefore /\ [Next]_vars => Received /\ NoRowBefore'
  BY StepReceived DEF Inv
<1>3. QED
  BY <1>1, <1>2, Invariance, PTL DEF Spec, ImplementsInbox, IB!Spec, Received
=============================================================================
