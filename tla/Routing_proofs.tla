--------------------------- MODULE Routing_proofs ---------------------------
(***************************************************************************)
(* Proofs about Routing, for any clients, entities, messages and failures. *)
(***************************************************************************)
EXTENDS Routing, TLAPS

\* Where a request is in its message.
SentOK ==
  \A r \in Requests :
    /\ IF At(r, "idle") THEN sent[r] = << >> ELSE sent[r] \in Sendable[r]
    /\ phase[r] \in {"idle", "received"} => depth[r] = 1
    /\ phase[r] \in {"routing", "wallet", "record", "row", "query"} =>
         /\ depth[r] \in 2..Len(sent[r])
         /\ Recipient(r) \in Entities

\* A handler waits only for what its recipient has accepted.
CreationAccepted(r) ==
  \/ Opened(r).type = "connect" /\ Recipient(r) = Fwa /\ Opened(r).from = Opened(r).key
  \/ /\ Opened(r).type = "createKey" /\ Recipient(r) \in Agents
     /\ Opened(r).from = ownerOf[Recipient(r)]

QueryAccepted(r) ==
  /\ ownerOf[Recipient(r)] # NoOne
  /\ \/ /\ isUpdate(r) /\ Recipient(r) \in Agents
        /\ Opened(r).from = ownerOf[Recipient(r)]
     \/ Opened(r).type = "ariesFwd" /\ Recipient(r) \in Conns
     \/ /\ Opened(r).type = "getMsgs" /\ Recipient(r) \in Conns
        /\ Opened(r).from = pairwise[Recipient(r)]

AcceptedOK ==
  \A r \in Requests :
    /\ phase[r] \in {"wallet", "record", "row"} =>
         /\ Opened(r).to = Recipient(r) /\ Opened(r).from # NoOne
         /\ Opened(r).did # NoOne /\ Opened(r).key # NoOne
         /\ CreationAccepted(r)
    /\ At(r, "query") => Opened(r).to = Recipient(r) /\ QueryAccepted(r)

\* Between its wallet and its record an entity belongs to one request.
CreationOK ==
  /\ \A e \in Entities : ownerOf[e] # NoOne => e \in wallets
  /\ \A c \in Conns : ownerOf[c] # NoOne => pairwise[c] # NoOne
  /\ \A r \in Requests : At(r, "record") => Created(r) \in wallets /\ ownerOf[Created(r)] = NoOne
  /\ \A r, s \in Requests : At(r, "record") /\ At(s, "record") /\ Created(r) = Created(s) => r = s

\* A message is stored by its request, once, at the connection it was packed for.
StoredOK ==
  \A r \in Requests : storedAt[r] # NoOne =>
    /\ phase[r] \in {"answering", "ended", "lost"}
    /\ ownerOf[storedAt[r]] # NoOne
    /\ \E i \in 1..Len(sent[r]) : sent[r][i].to = storedAt[r] /\ sent[r][i].type = "ariesFwd"

AnswerOK ==
  \A r \in Requests :
    /\ phase[r] \notin {"answering", "ended"} => answer[r] = NoAnswer
    /\ At(r, "answering") => answer[r].kind \notin Refusal

\* The inductive invariant.
Inv == TypeOK /\ SentOK /\ AcceptedOK /\ CreationOK /\ StoredOK /\ AnswerOK
         /\ MessagesReachOwners

-----------------------------------------------------------------------------
(* Names and envelopes                                                     *)

LEMMA Names ==
  /\ \A d \in Dids : AgentFor(d) \in Agents /\ ConnFor(d) \in Conns
  /\ \A a \in Agents : \E d \in Dids : a = AgentFor(d)
  /\ \A c \in Conns : \E d \in Dids : c = ConnFor(d)
  /\ \A d, f : AgentFor(d) # ConnFor(f)
  /\ \A d, f : (AgentFor(d) = AgentFor(f) => d = f) /\ (ConnFor(d) = ConnFor(f) => d = f)
  /\ Agents \cap Conns = {} /\ Fwa \notin Agents /\ Fwa \notin Conns
  /\ Agents \subseteq Entities /\ Conns \subseteq Entities /\ Fwa \in Entities
  /\ Entities = {Fwa} \cup Agents \cup Conns
  /\ NoOne \notin Entities /\ NoOne \notin Agents /\ NoOne \notin Conns
  BY NoOneIsNoEntity DEF Agents, Conns, Entities, AgentFor, ConnFor, Fwa

\* The opened envelope is an envelope.
LEMMA OpenedIsEnvelope ==
  ASSUME TypeOK, NEW r \in Requests, depth[r] \in 1..Len(sent[r])
  PROVE  Opened(r) \in Envelope
  BY DEF TypeOK, Opened

LEMMA SendableIsMessage ==
  ASSUME NEW r \in Requests, NEW m \in Sendable[r]
  PROVE  m \in Seq(Envelope) /\ m # << >> /\ Len(m) \in Nat \ {0}
  BY SendableAssumption

LEMMA InitInv == Init => Inv
<1> SUFFICES ASSUME Init PROVE Inv
  OBVIOUS
<1>1. TypeOK
  <2>1. NoAnswer \in Answer
    BY DEF NoAnswer, Response, Answer, Kind, Refusal
  <2> QED
    BY <2>1, StartAssumption DEF Init, TypeOK, Phase, Waiting
<1>2. SentOK /\ AcceptedOK
  BY DEF Init, SentOK, AcceptedOK, At
<1>3. CreationOK
  <2>1. \A c \in Conns : ownerOf[c] # NoOne => pairwise[c] # NoOne
    BY StartAssumption DEF Init
  <2> QED
    BY <2>1 DEF Init, CreationOK, At
<1>4. StoredOK
  BY DEF Init, StoredOK
<1>5. AnswerOK /\ MessagesReachOwners
  BY DEF Init, AnswerOK, MessagesReachOwners, NoAnswer, Response, At
<1> QED
  BY <1>1, <1>2, <1>3, <1>4, <1>5 DEF Inv

-----------------------------------------------------------------------------
(* Types                                                                   *)

LEMMA ResponseType ==
  ASSUME NEW kind \in Kind, NEW for \in Keys \cup {NoOne}, NEW msgs \in SUBSET Requests
  PROVE  Response(kind, for, msgs) \in Answer
  BY DEF Response, Answer

RequestTypes ==
  /\ sent \in [Requests -> Seq(Envelope)] /\ depth \in [Requests -> Nat]
  /\ phase \in [Requests -> Phase] /\ answer \in [Requests -> Answer]
  /\ failures \in Nat

LEMMA TypeStep == Inv /\ [Next]_vars => TypeOK'
<1> SUFFICES ASSUME Inv, [Next]_vars PROVE TypeOK'
  OBVIOUS
<1> USE DEF Inv
<1>1. ASSUME NEW r \in Requests, NEW m \in Sendable[r], Send(r, m)
      PROVE  TypeOK'
  BY <1>1, SendableIsMessage DEF Send, Goes, TypeOK, Phase, Waiting, entityVars, creationVars
<1>2. ASSUME NEW r \in Requests, Forward(r) PROVE TypeOK'
  BY <1>2 DEF Forward, Goes, TypeOK, Phase, Waiting, entityVars, creationVars
<1>3. ASSUME NEW r \in Requests, NEW ph \in Waiting, Continue(r, ph) PROVE TypeOK'
  BY <1>3 DEF Continue, Goes, TypeOK, Phase, entityVars, creationVars
<1>4. ASSUME NEW r \in Requests, NEW kind \in Refusal, Throw(r, kind), failures' \in Nat
      PROVE TypeOK'
  <2>1. Response(kind, NoOne, {}) \in Answer
    BY ResponseType DEF Kind
  <2> QED
    BY <1>4, <2>1 DEF Throw, Goes, TypeOK, Phase, entityVars, creationVars
<1>5. ASSUME NEW r \in Requests, NEW kind \in Kind, NEW for \in Keys \cup {NoOne},
             NEW msgs \in SUBSET Requests, Respond(r, Response(kind, for, msgs))
      PROVE  RequestTypes'
  <2>1. Response(kind, for, msgs) \in Answer
    BY ResponseType
  <2> QED
    BY <1>5, <2>1 DEF Respond, Goes, TypeOK, Phase, Waiting, RequestTypes
<1>6. ASSUME NEW r \in Requests, handleSignUpOrCreateAgent(r) PROVE TypeOK'
  <2>1. Opened(r).from \in Keys \cup {NoOne}
    BY <1>6, OpenedIsEnvelope
    DEF handleSignUpOrCreateAgent, isAuthorized, unpack, Envelope
  <2>2. PICK kind \in Kind : Respond(r, Response(kind, Opened(r).from, {}))
    BY <1>6 DEF handleSignUpOrCreateAgent, Kind
  <2>3. RequestTypes'
    BY <1>5, <2>1, <2>2
  <2> QED
    BY <1>6, <2>3
    DEF handleSignUpOrCreateAgent, entityVars, creationVars, TypeOK, RequestTypes
<1>7. ASSUME NEW r \in Requests, createNewRawWalletForEntity(r) PROVE TypeOK'
  <2>1. Created(r) \in Entities
    BY <1>7, OpenedIsEnvelope, Names
    DEF createNewRawWalletForEntity, At, SentOK, AcceptedOK, Created, Envelope
  <2>2. CASE Created(r) \notin wallets /\ wallets' = wallets \cup {Created(r)}
    BY <1>7, <2>1, <2>2 DEF createNewRawWalletForEntity, TypeOK, Goes, Phase, Waiting
  <2>3. CASE Throw(r, "refused") /\ UNCHANGED failures
    BY <1>4, <2>3 DEF Refusal, TypeOK
  <2> QED
    BY <1>7, <2>2, <2>3 DEF createNewRawWalletForEntity
<1>8. ASSUME NEW r \in Requests, saveEntityRecord(r) PROVE TypeOK'
  <2>1. /\ Created(r) \in Entities /\ Opened(r).from \in Keys /\ Opened(r).key \in Keys
        /\ Created(r) \in Conns => Recipient(r) \in Agents
    BY <1>8, OpenedIsEnvelope, Names
    DEF saveEntityRecord, At, SentOK, AcceptedOK, CreationAccepted, Created, Envelope
  <2> QED
    BY <1>8, <2>1 DEF saveEntityRecord, TypeOK, Goes, Phase, Waiting
<1>9. ASSUME NEW r \in Requests, createRow(r) PROVE TypeOK'
  <2>1. Created(r) \in Entities /\ Opened(r).from \in Keys
    BY <1>9, OpenedIsEnvelope, Names
    DEF createRow, At, SentOK, AcceptedOK, CreationAccepted, Created, Envelope
  <2> DEFINE kind == IF Created(r) \in Agents THEN "connected" ELSE "keyCreated"
  <2>2. kind \in Kind
    BY DEF Kind
  <2>3. Respond(r, Response(kind, Opened(r).from, {}))
    BY <1>9 DEF createRow
  <2> HIDE DEF kind
  <2>4. RequestTypes'
    BY <1>5, <2>1, <2>2, <2>3
  <2> QED
    BY <1>9, <2>1, <2>4 DEF createRow, TypeOK, RequestTypes
<1>10. ASSUME NEW r \in Requests, At(r, "query")
       PROVE  /\ Opened(r).from \in Keys \cup {NoOne}
              /\ Opened(r).url \in Urls \cup {NoUrl, BadUrl}
              /\ Recipient(r) \in Entities
  BY <1>10, OpenedIsEnvelope DEF At, SentOK, Envelope
<1>11. ASSUME NEW r \in Requests, setAgentWebhook(r) PROVE TypeOK'
  <2>1. "comMethodUpdated" \in Kind
    BY DEF Kind
  <2>2. Recipient(r) \in Agents /\ Opened(r).url # BadUrl
    BY <1>11, Names DEF setAgentWebhook, AcceptedOK, QueryAccepted, isUpdate
  <2>3. RequestTypes'
    BY <1>5, <1>10, <1>11, <2>1 DEF setAgentWebhook
  <2> QED
    BY <1>10, <1>11, <2>2, <2>3 DEF setAgentWebhook, TypeOK, RequestTypes
<1>12. ASSUME NEW r \in Requests, updateStatusCodeAgentConnection(r) PROVE TypeOK'
  <2>1. "statusUpdated" \in Kind
    BY DEF Kind
  <2>2. RequestTypes'
    BY <1>5, <1>10, <1>12, <2>1 DEF updateStatusCodeAgentConnection
  <2> QED
    BY <1>12, <2>2
    DEF updateStatusCodeAgentConnection, MessagesOf, creationVars, TypeOK, RequestTypes
<1>13. ASSUME NEW r \in Requests, storeMessage(r) PROVE TypeOK'
  <2>1. "stored" \in Kind
    BY DEF Kind
  <2>2. Recipient(r) \in Conns
    BY <1>13 DEF storeMessage, AcceptedOK, QueryAccepted, isUpdate
  <2>3. RequestTypes'
    BY <1>5, <1>13, <2>1 DEF storeMessage
  <2> QED
    BY <1>13, <2>2, <2>3 DEF storeMessage, creationVars, TypeOK, RequestTypes
<1>14. ASSUME NEW r \in Requests, loadMessages(r) PROVE TypeOK'
  <2> DEFINE here == {m \in MessagesOf(agentOf[Recipient(r)]) : storedAt[m] = Recipient(r)}
             msgs == filter(here, Opened(r).uids)
  <2>1. msgs \in SUBSET Requests
    BY DEF filter, MessagesOf
  <2>2. ownerOf[Recipient(r)] \in Keys \cup {NoOne}
    BY <1>10, <1>14 DEF loadMessages, TypeOK
  <2>3. Respond(r, Response("msgs", ownerOf[Recipient(r)], msgs)) /\ UNCHANGED entityVars
    BY <1>14 DEF loadMessages
  <2>4. "msgs" \in Kind
    BY DEF Kind
  <2> HIDE DEF msgs
  <2>5. RequestTypes'
    BY <1>5, <2>1, <2>2, <2>3, <2>4
  <2> QED
    BY <2>3, <2>5 DEF entityVars, creationVars, TypeOK, RequestTypes
<1>15. ASSUME NEW r \in Requests, Answers(r) \/ Crash(r) PROVE TypeOK'
  <2>1. NoAnswer \in Answer
    BY ResponseType DEF NoAnswer, Kind
  <2>2. CASE Answers(r)
    BY <2>2 DEF Answers, Goes, TypeOK, Phase, entityVars, creationVars
  <2>3. CASE Crash(r)
    BY <2>1, <2>3 DEF Crash, Goes, TypeOK, Phase, entityVars, creationVars
  <2> QED
    BY <1>15, <2>2, <2>3
<1>16. ASSUME NEW r \in Requests, StepFails(r) PROVE TypeOK'
  BY <1>4, <1>16, BoundAssumption DEF StepFails, Refusal, TypeOK
<1>17. ASSUME NEW r \in Requests,
              \/ handleIncomingMessage(r) \/ loadEntityRecordByDidOrVerkey(r)
              \/ Refuse(r) \/ handleAuthorizedFwdMessage(r)
       PROVE  TypeOK'
  <2>1. Forward(r) \/ (\E kind \in Refusal : Throw(r, kind) /\ UNCHANGED failures)
    BY <1>17 DEF handleIncomingMessage, loadEntityRecordByDidOrVerkey, Refuse,
                 handleAuthorizedFwdMessage, Refusal
  <2> QED
    BY <1>2, <1>4, <2>1 DEF TypeOK
<1>18. ASSUME NEW r \in Requests,
              \/ handleMsgVcxV2Connect(r) \/ handleCreateKey(r) \/ handleUpdate(r)
              \/ handleAriesFwd(r) \/ handleGetMsgs(r)
       PROVE  TypeOK'
  <2>1. \E ph \in Waiting : Continue(r, ph)
    BY <1>18 DEF handleMsgVcxV2Connect, handleCreateKey, handleUpdate, handleAriesFwd,
                 handleGetMsgs, Waiting
  <2> QED
    BY <1>3, <2>1
<1>19. CASE UNCHANGED vars
  BY <1>19 DEF vars, requestVars, entityVars, creationVars, TypeOK
<1> QED
  BY <1>1, <1>6, <1>7, <1>8, <1>9, <1>11, <1>12, <1>13, <1>14, <1>15, <1>16, <1>17, <1>18, <1>19
  DEF Next, Step

-----------------------------------------------------------------------------
(* The kinds of steps                                                      *)

\* A handler reaches its next await, without opening a further envelope.
HandlerMoves(r) ==
  /\ phase[r] \in Waiting
  /\ UNCHANGED <<sent, depth>>
  /\ \E ph \in {"wallet", "record", "row", "query", "answering", "ended", "lost"} :
       /\ phase' = [phase EXCEPT ![r] = ph]
       /\ ph \in {"wallet", "query"} => At(r, "routing")
       /\ ph = "record" => At(r, "wallet")
       /\ ph = "row" => At(r, "record")

Forwards(r) == phase[r] \in {"received", "routing"} /\ unpack(r) /\ isForwardable(r) /\ Forward(r)

LEMMA KindsOfSteps ==
  ASSUME [Next]_vars
  PROVE  \/ UNCHANGED vars
         \/ \E r \in Requests : \E m \in Sendable[r] : Send(r, m)
         \/ \E r \in Requests : Forwards(r)
         \/ \E r \in Requests : HandlerMoves(r)
<1>1. ASSUME NEW r \in Requests, StepFails(r) \/ Crash(r)
      PROVE  HandlerMoves(r)
  BY <1>1 DEF StepFails, Crash, Throw, Goes, HandlerMoves, At
<1>2. ASSUME NEW r \in Requests, handleIncomingMessage(r) PROVE Forwards(r) \/ HandlerMoves(r)
  BY <1>2 DEF handleIncomingMessage, isForward, Throw, Goes, Forwards, HandlerMoves, At, Waiting
<1>3. ASSUME NEW r \in Requests, handleAuthorizedFwdMessage(r) PROVE Forwards(r)
  BY <1>3 DEF handleAuthorizedFwdMessage, isAuthorized, Routed, Forwards, At
<1>4. ASSUME NEW r \in Requests, loadEntityRecordByDidOrVerkey(r) \/ Refuse(r)
      PROVE  HandlerMoves(r)
  BY <1>4 DEF loadEntityRecordByDidOrVerkey, Refuse, Routed, Throw, Goes, HandlerMoves, At, Waiting
<1>5. ASSUME NEW r \in Requests,
             \/ handleMsgVcxV2Connect(r) \/ handleCreateKey(r) \/ handleUpdate(r)
             \/ handleAriesFwd(r) \/ handleGetMsgs(r) \/ handleSignUpOrCreateAgent(r)
      PROVE  HandlerMoves(r)
  BY <1>5 DEF handleMsgVcxV2Connect, handleCreateKey, handleUpdate, handleAriesFwd, handleGetMsgs,
     handleSignUpOrCreateAgent, Routed, Continue, Respond, Goes, HandlerMoves, At, Waiting
<1>6. ASSUME NEW r \in Requests,
             createNewRawWalletForEntity(r) \/ saveEntityRecord(r) \/ createRow(r)
      PROVE  HandlerMoves(r)
  BY <1>6 DEF createNewRawWalletForEntity, saveEntityRecord, createRow, Throw, Respond, Goes,
     HandlerMoves, At, Waiting
<1>7. ASSUME NEW r \in Requests,
             \/ setAgentWebhook(r) \/ updateStatusCodeAgentConnection(r)
             \/ storeMessage(r) \/ loadMessages(r) \/ Answers(r)
      PROVE  HandlerMoves(r)
  BY <1>7 DEF setAgentWebhook, updateStatusCodeAgentConnection, storeMessage, loadMessages, Answers,
     Respond, Goes, HandlerMoves, At, Waiting
<1> QED
  BY <1>1, <1>2, <1>3, <1>4, <1>5, <1>6, <1>7 DEF Next, Step

\* A step is one of one request.
LEMMA TwoRequestsDoNotMove ==
  ASSUME TypeOK, [Next]_vars, NEW r \in Requests, NEW s \in Requests,
         phase'[r] # phase[r], phase'[s] # phase[s]
  PROVE  r = s
  BY KindsOfSteps
  DEF Send, Forwards, Forward, HandlerMoves, Goes, TypeOK, vars, requestVars

\* Where a request is in its message stays what it should be.
LEMMA SentStep == Inv /\ [Next]_vars => SentOK'
<1> SUFFICES ASSUME Inv, [Next]_vars PROVE SentOK'
  OBVIOUS
<1> USE DEF Inv
<1>1. ASSUME NEW r \in Requests, NEW m \in Sendable[r], Send(r, m)
      PROVE  SentOK'
  BY <1>1 DEF Send, Goes, SentOK, TypeOK, At, Recipient
<1>2. ASSUME NEW r \in Requests, Forwards(r)
      PROVE  SentOK'
  <2>1. /\ depth[r] \in 1..Len(sent[r]) /\ depth[r] < Len(sent[r]) /\ Len(sent[r]) \in Nat
        /\ Opened(r).fwd \in Entities
    <3>1. depth[r] \in 1..Len(sent[r]) /\ depth[r] < Len(sent[r]) /\ Opened(r).fwd # NoOne
      BY <1>2 DEF Forwards, unpack, isForwardable
    <3>2. Opened(r) \in Envelope
      BY <3>1, OpenedIsEnvelope
    <3>3. Len(sent[r]) \in Nat
      BY DEF TypeOK
    <3> QED
      BY <3>1, <3>2, <3>3 DEF Envelope
  <2>2. Recipient(r)' = Opened(r).fwd
    BY <1>2, <2>1 DEF Forwards, Forward, Recipient, Opened, TypeOK
  <2>3. sent[r] \in Sendable[r]
    BY <1>2 DEF Forwards, SentOK, At
  <2>4. depth'[r] \in 2..Len(sent[r])
    BY <1>2, <2>1 DEF Forwards, Forward, TypeOK
  <2>5. ASSUME NEW s \in Requests, s # r
        PROVE  depth'[s] = depth[s] /\ phase'[s] = phase[s] /\ Recipient(s)' = Recipient(s)
    BY <1>2, <2>5 DEF Forwards, Forward, Goes, TypeOK, Recipient
  <2>6. phase'[r] = "routing" /\ sent' = sent
    BY <1>2 DEF Forwards, Forward, Goes, TypeOK
  <2>7. ASSUME NEW s \in Requests
        PROVE  /\ IF phase'[s] = "idle" THEN sent'[s] = << >> ELSE sent'[s] \in Sendable[s]
               /\ phase'[s] \in {"idle", "received"} => depth'[s] = 1
               /\ phase'[s] \in {"routing", "wallet", "record", "row", "query"} =>
                    depth'[s] \in 2..Len(sent'[s]) /\ Recipient(s)' \in Entities
    <3>1. CASE s = r
      BY <2>1, <2>2, <2>3, <2>4, <2>6, <3>1
    <3>2. CASE s # r
      BY <2>5, <2>6, <3>2 DEF SentOK, At
    <3> QED
      BY <3>1, <3>2
  <2> QED
    BY <2>7 DEF SentOK, At
<1>3. ASSUME NEW r \in Requests, HandlerMoves(r)
      PROVE  SentOK'
  BY <1>3 DEF HandlerMoves, SentOK, TypeOK, At, Waiting, Recipient
<1>4. CASE UNCHANGED vars
  BY <1>4 DEF vars, requestVars, SentOK, At, Recipient
<1> QED
  BY <1>1, <1>2, <1>3, <1>4, KindsOfSteps

-----------------------------------------------------------------------------
(* What handlers have accepted, and the creation of entities               *)

\* An entity is created for a request in phase "record", which may create it.
LEMMA CreatedIsEntity ==
  ASSUME Inv, NEW r \in Requests, phase[r] \in {"wallet", "record", "row"}
  PROVE  /\ Opened(r) \in Envelope /\ Opened(r).did \in Dids
         /\ Opened(r).key \in Keys /\ Opened(r).from \in Keys
         /\ Created(r) \in Agents \cup Conns /\ Created(r) \in Entities
         /\ Created(r) \in Conns => Recipient(r) \in Agents
<1> USE DEF Inv
<1>1. /\ depth[r] \in 2..Len(sent[r]) /\ sent[r] \in Sendable[r]
      /\ Opened(r).did # NoOne /\ Opened(r).key # NoOne /\ Opened(r).from # NoOne
      /\ CreationAccepted(r)
  BY DEF SentOK, AcceptedOK, At
<1>2. Len(sent[r]) \in Nat
  BY DEF TypeOK
<1>3. depth[r] \in 1..Len(sent[r])
  BY <1>1, <1>2
<1>4. Opened(r) \in Envelope
  BY <1>3, OpenedIsEnvelope
<1>5. Opened(r).type \in {"connect", "createKey"}
  BY <1>1 DEF CreationAccepted
<1>6. Opened(r).did \in Dids /\ Opened(r).key \in Keys /\ Opened(r).from \in Keys
  BY <1>1, <1>4 DEF Envelope
<1>7. Opened(r).type = "createKey" => Recipient(r) \in Agents
  BY <1>1 DEF CreationAccepted
<1> QED
  BY <1>4, <1>5, <1>6, <1>7, Names DEF Created

\* Which steps change an entity.
LEMMA EntitySteps ==
  ASSUME [Next]_vars
  PROVE  \/ UNCHANGED entityVars
         \/ \E r \in Requests :
              \/ createNewRawWalletForEntity(r) \/ saveEntityRecord(r) \/ createRow(r)
              \/ setAgentWebhook(r) \/ updateStatusCodeAgentConnection(r) \/ storeMessage(r)
<1>1. ASSUME NEW r \in Requests,
             \/ handleIncomingMessage(r) \/ loadEntityRecordByDidOrVerkey(r)
             \/ handleMsgVcxV2Connect(r) \/ handleAuthorizedFwdMessage(r)
             \/ handleSignUpOrCreateAgent(r) \/ handleCreateKey(r) \/ handleUpdate(r)
             \/ handleAriesFwd(r) \/ handleGetMsgs(r) \/ Refuse(r) \/ loadMessages(r)
             \/ Answers(r) \/ StepFails(r) \/ Crash(r)
      PROVE  UNCHANGED entityVars
  BY <1>1 DEF handleIncomingMessage, loadEntityRecordByDidOrVerkey, handleMsgVcxV2Connect,
     handleAuthorizedFwdMessage, handleSignUpOrCreateAgent, handleCreateKey, handleUpdate,
     handleAriesFwd, handleGetMsgs, Refuse, loadMessages, Answers, StepFails, Crash,
     Forward, Continue, Throw
<1>2. ASSUME NEW r \in Requests, NEW m \in Sendable[r], Send(r, m)
      PROVE  UNCHANGED entityVars
  BY <1>2 DEF Send
<1>3. CASE UNCHANGED vars
  BY <1>3 DEF vars
<1> QED
  BY <1>1, <1>2, <1>3 DEF Next, Step

\* Owners and pairwise verkeys stay: an entity's record is saved once.
LEMMA OwnersStay ==
  ASSUME Inv, [Next]_vars
  PROVE  /\ \A e \in Entities : ownerOf[e] # NoOne => ownerOf'[e] = ownerOf[e]
         /\ \A c \in Conns : ownerOf[c] # NoOne => pairwise'[c] = pairwise[c]
         /\ rows \subseteq rows' /\ wallets \subseteq wallets'
<1> USE DEF Inv
<1>1. ASSUME NEW r \in Requests, saveEntityRecord(r)
      PROVE  /\ \A e \in Entities : ownerOf[e] # NoOne => ownerOf'[e] = ownerOf[e]
             /\ \A c \in Conns : ownerOf[c] # NoOne => pairwise'[c] = pairwise[c]
             /\ rows' = rows /\ wallets' = wallets
  <2>1. ownerOf[Created(r)] = NoOne
    BY <1>1 DEF saveEntityRecord, CreationOK
  <2> QED
    BY <1>1, <2>1 DEF saveEntityRecord, TypeOK
<1>2. ASSUME NEW r \in Requests,
             createNewRawWalletForEntity(r) \/ createRow(r) \/ setAgentWebhook(r)
             \/ updateStatusCodeAgentConnection(r) \/ storeMessage(r)
      PROVE  /\ ownerOf' = ownerOf /\ pairwise' = pairwise
             /\ rows \subseteq rows' /\ wallets \subseteq wallets'
  BY <1>2 DEF createNewRawWalletForEntity, createRow, setAgentWebhook,
     updateStatusCodeAgentConnection, storeMessage, Throw, creationVars, entityVars
<1>3. CASE UNCHANGED entityVars
  BY <1>3 DEF entityVars, creationVars
<1> QED
  BY <1>1, <1>2, <1>3, EntitySteps

\* Where a request that waits for wallets or tables comes from.
LEMMA HandlersWait ==
  ASSUME Inv, [Next]_vars, NEW s \in Requests, phase'[s] \in {"wallet", "record", "row", "query"}
  PROVE  /\ sent'[s] = sent[s] /\ depth'[s] = depth[s]
         /\ \/ phase[s] \in {"wallet", "record", "row"} /\ phase'[s] # "query"
            \/ At(s, "query") /\ phase'[s] = "query"
            \/ phase'[s] = "wallet" /\ (handleMsgVcxV2Connect(s) \/ handleCreateKey(s))
            \/ phase'[s] = "query" /\ (handleUpdate(s) \/ handleAriesFwd(s) \/ handleGetMsgs(s))
<1> USE DEF Inv, TypeOK
<1>1. ASSUME NEW r \in Requests,
             \/ StepFails(r) \/ Crash(r) \/ handleIncomingMessage(r)
             \/ loadEntityRecordByDidOrVerkey(r) \/ Refuse(r) \/ handleAuthorizedFwdMessage(r)
             \/ handleSignUpOrCreateAgent(r)
      PROVE  r # s /\ sent'[s] = sent[s] /\ depth'[s] = depth[s] /\ phase'[s] = phase[s]
  BY <1>1 DEF StepFails, Crash, handleIncomingMessage, loadEntityRecordByDidOrVerkey, Refuse,
     handleAuthorizedFwdMessage, handleSignUpOrCreateAgent, Throw, Forward, Respond, Goes
<1>2. ASSUME NEW r \in Requests,
             \/ handleMsgVcxV2Connect(r) \/ handleCreateKey(r) \/ handleUpdate(r)
             \/ handleAriesFwd(r) \/ handleGetMsgs(r)
      PROVE  /\ sent' = sent /\ depth' = depth
             /\ r # s => phase'[s] = phase[s]
             /\ handleMsgVcxV2Connect(r) \/ handleCreateKey(r) => phase'[r] = "wallet"
             /\ handleUpdate(r) \/ handleAriesFwd(r) \/ handleGetMsgs(r) => phase'[r] = "query"
  BY <1>2 DEF handleMsgVcxV2Connect, handleCreateKey, handleUpdate, handleAriesFwd, handleGetMsgs,
     Continue, Goes
<1>3. ASSUME NEW r \in Requests,
             createNewRawWalletForEntity(r) \/ saveEntityRecord(r) \/ createRow(r)
      PROVE  /\ sent' = sent /\ depth' = depth
             /\ r # s => phase'[s] = phase[s]
             /\ r = s => phase[s] \in {"wallet", "record", "row"} /\ phase'[s] # "query"
  BY <1>3 DEF createNewRawWalletForEntity, saveEntityRecord, createRow, Throw, Respond, Goes, At
<1>4. ASSUME NEW r \in Requests,
             \/ setAgentWebhook(r) \/ updateStatusCodeAgentConnection(r)
             \/ storeMessage(r) \/ loadMessages(r) \/ Answers(r)
      PROVE  r # s /\ sent' = sent /\ depth' = depth /\ phase'[s] = phase[s]
  BY <1>4 DEF setAgentWebhook, updateStatusCodeAgentConnection, storeMessage, loadMessages, Answers,
     Respond, Goes
<1>5. ASSUME NEW r \in Requests, NEW m \in Sendable[r], Send(r, m)
      PROVE  r # s /\ sent'[s] = sent[s] /\ depth' = depth /\ phase'[s] = phase[s]
  BY <1>5 DEF Send, Goes
<1>6. CASE UNCHANGED vars
  BY <1>6 DEF vars, requestVars, At
<1>7. ASSUME sent'[s] = sent[s], depth'[s] = depth[s], phase'[s] = phase[s]
      PROVE  \/ phase[s] \in {"wallet", "record", "row"} /\ phase'[s] # "query"
             \/ At(s, "query") /\ phase'[s] = "query"
  BY <1>7 DEF At
<1> QED
  BY <1>1, <1>2, <1>3, <1>4, <1>5, <1>6, <1>7 DEF Next, Step

\* What a handler has accepted stays accepted while it waits.
LEMMA AcceptedStep == Inv /\ [Next]_vars => AcceptedOK'
<1> DEFINE Creating(s) == /\ Opened(s).to = Recipient(s) /\ Opened(s).from # NoOne
                          /\ Opened(s).did # NoOne /\ Opened(s).key # NoOne
                          /\ CreationAccepted(s)
           Querying(s) == Opened(s).to = Recipient(s) /\ QueryAccepted(s)
<1> SUFFICES ASSUME Inv, [Next]_vars, NEW s \in Requests,
                    phase'[s] \in {"wallet", "record", "row", "query"}
             PROVE  /\ phase'[s] # "query" => Creating(s)'
                    /\ phase'[s] = "query" => Querying(s)'
  BY DEF AcceptedOK, At
<1> USE DEF Inv
<1>1. IF phase'[s] = "query" THEN Querying(s) ELSE Creating(s)
  <2>1. CASE phase[s] \in {"wallet", "record", "row"} /\ phase'[s] # "query"
    BY <2>1 DEF AcceptedOK
  <2>2. CASE At(s, "query") /\ phase'[s] = "query"
    BY <2>2 DEF AcceptedOK
  <2>3. CASE phase'[s] = "wallet" /\ handleMsgVcxV2Connect(s)
    BY <2>3 DEF handleMsgVcxV2Connect, Routed, isConnect, unpack, CreationAccepted
  <2>4. CASE phase'[s] = "wallet" /\ handleCreateKey(s)
    <3>1. /\ Recipient(s) \in Agents /\ ownerOf[Recipient(s)] # NoOne /\ unpack(s)
          /\ Opened(s).from = ownerOf[Recipient(s)] /\ Opened(s).type = "createKey"
      BY <2>4, Names DEF handleCreateKey, Routed, isResolved, isAuthorized
    <3>2. sent[s] \in Sendable[s] /\ depth[s] \in 1..Len(sent[s])
      BY <2>4, <3>1 DEF handleCreateKey, Routed, At, SentOK, unpack
    <3>3. Opened(s).did # NoOne /\ Opened(s).key # NoOne
      BY <3>1, <3>2, SendableAssumption DEF Opened
    <3> QED
      BY <2>4, <3>1, <3>3 DEF unpack, CreationAccepted
  <2>5. CASE phase'[s] = "query" /\ handleUpdate(s)
    BY <2>5, Names DEF handleUpdate, Routed, isResolved, isAuthorized, unpack, QueryAccepted
  <2>6. CASE phase'[s] = "query" /\ handleAriesFwd(s)
    BY <2>6, Names DEF handleAriesFwd, Routed, isResolved, unpack, QueryAccepted
  <2>7. CASE phase'[s] = "query" /\ handleGetMsgs(s)
    BY <2>7, Names
    DEF handleGetMsgs, Routed, isResolved, isAuthorizedPairwise, unpack, QueryAccepted
  <2> QED
    BY <2>1, <2>2, <2>3, <2>4, <2>5, <2>6, <2>7, HandlersWait
<1>2. Opened(s)' = Opened(s) /\ Recipient(s)' = Recipient(s)
  <2>1. sent'[s] = sent[s] /\ depth'[s] = depth[s]
    BY HandlersWait
  <2> QED
    BY <2>1 DEF Opened, Recipient
<1>3. Creating(s) => Creating(s)'
  BY <1>2, OwnersStay, Names DEF CreationAccepted
<1>4. Querying(s) => Querying(s)'
  BY <1>2, OwnersStay, Names DEF QueryAccepted, isUpdate
<1> QED
  BY <1>1, <1>3, <1>4

\* Only the creation of its wallet leads a request to the saving of a record.
LEMMA RecordFollowsWallet ==
  ASSUME Inv, [Next]_vars, NEW s \in Requests, phase'[s] = "record"
  PROVE  /\ \/ At(s, "record")
            \/ At(s, "wallet") /\ Created(s) \notin wallets /\ wallets' = wallets \cup {Created(s)}
         /\ Created(s)' = Created(s)
<1>0. phase \in [Requests -> Phase]
  BY DEF Inv, TypeOK
<1>1. Created(s)' = Created(s)
  <2>1. sent'[s] = sent[s] /\ depth'[s] = depth[s]
    BY HandlersWait
  <2> QED
    BY <2>1 DEF Created, Opened
<1>2. ASSUME NEW r \in Requests, createNewRawWalletForEntity(r)
      PROVE  \/ At(s, "record")
             \/ At(s, "wallet") /\ Created(s) \notin wallets /\ wallets' = wallets \cup {Created(s)}
  BY <1>0, <1>2 DEF createNewRawWalletForEntity, Throw, Goes, At
<1>3. ASSUME NEW r \in Requests,
             \/ StepFails(r) \/ Crash(r) \/ handleIncomingMessage(r)
             \/ loadEntityRecordByDidOrVerkey(r) \/ Refuse(r) \/ handleAuthorizedFwdMessage(r)
             \/ handleSignUpOrCreateAgent(r) \/ handleMsgVcxV2Connect(r) \/ handleCreateKey(r)
             \/ handleUpdate(r) \/ handleAriesFwd(r) \/ handleGetMsgs(r)
      PROVE  At(s, "record")
  BY <1>0, <1>3 DEF StepFails, Crash, handleIncomingMessage, loadEntityRecordByDidOrVerkey, Refuse,
     handleAuthorizedFwdMessage, handleSignUpOrCreateAgent, handleMsgVcxV2Connect,
     handleCreateKey, handleUpdate, handleAriesFwd, handleGetMsgs, Throw, Forward, Continue,
     Respond, Goes, At
<1>4. ASSUME NEW r \in Requests,
             \/ saveEntityRecord(r) \/ createRow(r) \/ setAgentWebhook(r)
             \/ updateStatusCodeAgentConnection(r)
             \/ storeMessage(r) \/ loadMessages(r) \/ Answers(r)
      PROVE  At(s, "record")
  BY <1>0, <1>4 DEF saveEntityRecord, createRow, setAgentWebhook, updateStatusCodeAgentConnection,
     storeMessage, loadMessages, Answers, Respond, Goes, At
<1>5. ASSUME NEW r \in Requests, NEW m \in Sendable[r], Send(r, m)
      PROVE  At(s, "record")
  BY <1>0, <1>5 DEF Send, Goes, At
<1>6. ASSUME UNCHANGED vars
      PROVE  At(s, "record")
  BY <1>6 DEF vars, requestVars, At
<1>7. (\E r \in Requests : createNewRawWalletForEntity(r)) \/ At(s, "record")
  BY <1>3, <1>4, <1>5, <1>6 DEF Next, Step
<1> QED
  BY <1>1, <1>2, <1>7

\* The name of a wallet keeps two requests from creating one entity.
LEMMA CreationStep == Inv /\ [Next]_vars => CreationOK'
<1> SUFFICES ASSUME Inv, [Next]_vars PROVE CreationOK'
  OBVIOUS
<1> USE DEF Inv
<1>1. ASSUME NEW r \in Requests, saveEntityRecord(r)
      PROVE  /\ Created(r) \in Entities /\ Created(r) \in wallets
             /\ ownerOf' = [ownerOf EXCEPT ![Created(r)] = Opened(r).from]
             /\ phase'[r] = "row" /\ At(r, "record") /\ wallets' = wallets
  <2>1. At(r, "record")
    BY <1>1 DEF saveEntityRecord
  <2>2. Created(r) \in wallets
    BY <2>1 DEF CreationOK
  <2>3. Created(r) \in Entities
    BY <2>1, CreatedIsEntity DEF At
  <2> QED
    BY <1>1, <2>1, <2>2, <2>3 DEF saveEntityRecord, Goes, TypeOK
<1>2. ownerOf' = ownerOf \/ \E r \in Requests : saveEntityRecord(r)
  <2>1. ASSUME NEW r \in Requests,
               createNewRawWalletForEntity(r) \/ createRow(r) \/ setAgentWebhook(r)
               \/ updateStatusCodeAgentConnection(r) \/ storeMessage(r)
        PROVE  ownerOf' = ownerOf
    BY <2>1 DEF createNewRawWalletForEntity, createRow, setAgentWebhook,
       updateStatusCodeAgentConnection, storeMessage, Throw, creationVars, entityVars
  <2>2. CASE UNCHANGED entityVars
    BY <2>2 DEF entityVars, creationVars
  <2> QED
    BY <2>1, <2>2, EntitySteps
<1>3. ASSUME NEW e \in Entities, ownerOf'[e] # NoOne
      PROVE  e \in wallets'
  <2>1. ownerOf[e] # NoOne \/ e \in wallets
    BY <1>1, <1>2, <1>3 DEF TypeOK
  <2> QED
    BY <2>1, OwnersStay DEF CreationOK
<1>7. ASSUME NEW c \in Conns, ownerOf'[c] # NoOne
      PROVE  pairwise'[c] # NoOne
  <2>1. CASE ownerOf[c] # NoOne
    BY <2>1, OwnersStay DEF CreationOK
  <2>2. CASE ownerOf[c] = NoOne
    <3>1. c \in Entities
      BY Names
    <3>2. PICK r \in Requests : saveEntityRecord(r)
      BY <1>2, <1>7, <2>2
    <3>3. c = Created(r)
      BY <1>1, <1>7, <2>2, <3>1, <3>2 DEF TypeOK
    <3>4. Opened(r).key # NoOne
      BY <3>2 DEF saveEntityRecord, AcceptedOK, At
    <3> QED
      BY <3>2, <3>3, <3>4 DEF saveEntityRecord, TypeOK
  <2> QED
    BY <2>1, <2>2
<1>4. ASSUME NEW s \in Requests, phase'[s] = "record"
      PROVE  /\ Created(s)' = Created(s) /\ Created(s) \in wallets'
             /\ Created(s) \in Entities /\ ownerOf[Created(s)] = NoOne
             /\ \/ At(s, "record") /\ Created(s) \in wallets
                \/ /\ At(s, "wallet") /\ Created(s) \notin wallets
                   /\ wallets' = wallets \cup {Created(s)}
  <2>1. CASE At(s, "record")
    BY <1>4, <2>1, RecordFollowsWallet, OwnersStay, CreatedIsEntity DEF CreationOK, At
  <2>2. CASE At(s, "wallet") /\ Created(s) \notin wallets /\ wallets' = wallets \cup {Created(s)}
    BY <1>4, <2>2, RecordFollowsWallet, CreatedIsEntity DEF CreationOK, At
  <2> QED
    BY <1>4, <2>1, <2>2, RecordFollowsWallet
<1>5. ASSUME NEW s \in Requests, phase'[s] = "record"
      PROVE  ownerOf'[Created(s)] = NoOne
  <2>1. ASSUME NEW r \in Requests, saveEntityRecord(r)
        PROVE  Created(r) # Created(s)
    <3>1. At(r, "record") /\ r # s /\ Created(r) \in wallets /\ wallets' = wallets
      BY <1>1, <1>5, <2>1
    <3> QED
      BY <1>4, <1>5, <3>1 DEF CreationOK
  <2> QED
    BY <1>1, <1>2, <1>4, <1>5, <2>1 DEF TypeOK
<1>6. ASSUME NEW r \in Requests, NEW s \in Requests, phase'[r] = "record", phase'[s] = "record",
             Created(r) = Created(s)
      PROVE  r = s
  <2>1. CASE At(r, "record") /\ At(s, "record")
    BY <1>6, <2>1 DEF CreationOK
  <2>2. CASE At(r, "wallet") /\ At(s, "wallet")
    BY <1>6, <2>2, TwoRequestsDoNotMove DEF At
  <2>3. ~(At(r, "record") /\ At(s, "wallet")) /\ ~(At(r, "wallet") /\ At(s, "record"))
    BY <1>4, <1>6 DEF At
  <2> QED
    BY <1>4, <1>6, <2>1, <2>2, <2>3
<1> QED
  BY <1>3, <1>4, <1>5, <1>6, <1>7 DEF CreationOK, At

-----------------------------------------------------------------------------
(* Messages                                                                *)

\* A request that has got its answer stays where it is.
LEMMA HandledStays ==
  ASSUME Inv, [Next]_vars, NEW s \in Requests, phase[s] \in {"answering", "ended", "lost"}
  PROVE  phase'[s] \in {"answering", "ended", "lost"} /\ sent'[s] = sent[s]
  BY KindsOfSteps
  DEF Inv, TypeOK, Send, Forwards, Forward, HandlerMoves, Goes, At, vars, requestVars

\* Only the handler of a forwarded message stores it.
LEMMA Stored ==
  ASSUME [Next]_vars
  PROVE  storedAt' = storedAt \/ \E r \in Requests : storeMessage(r)
<1>1. ASSUME NEW r \in Requests,
             createNewRawWalletForEntity(r) \/ saveEntityRecord(r) \/ createRow(r)
             \/ setAgentWebhook(r) \/ updateStatusCodeAgentConnection(r)
      PROVE  storedAt' = storedAt
  BY <1>1 DEF createNewRawWalletForEntity, saveEntityRecord, createRow, setAgentWebhook,
     updateStatusCodeAgentConnection, Throw, entityVars
<1> QED
  BY <1>1, EntitySteps DEF entityVars

LEMMA StoredStep == Inv /\ [Next]_vars => StoredOK'
<1> SUFFICES ASSUME Inv, [Next]_vars, NEW s \in Requests, storedAt'[s] # NoOne
             PROVE  /\ phase'[s] \in {"answering", "ended", "lost"}
                    /\ ownerOf'[storedAt'[s]] # NoOne
                    /\ \E i \in 1..Len(sent'[s]) :
                         sent'[s][i].to = storedAt'[s] /\ sent'[s][i].type = "ariesFwd"
  BY DEF StoredOK
<1> USE DEF Inv
<1>1. CASE storedAt[s] # NoOne
  <2>1. phase[s] \in {"answering", "ended", "lost"} /\ storedAt[s] \in Entities
    BY <1>1, Names DEF StoredOK, TypeOK
  <2>2. storedAt'[s] = storedAt[s]
    BY <2>1, Stored DEF storeMessage, At, TypeOK
  <2> QED
    BY <1>1, <2>1, <2>2, HandledStays, OwnersStay DEF StoredOK
<1>2. CASE storeMessage(s)
  <2>1. /\ Opened(s).type = "ariesFwd" /\ Opened(s).to = Recipient(s)
        /\ Recipient(s) \in Conns /\ ownerOf[Recipient(s)] # NoOne
        /\ depth[s] \in 2..Len(sent[s]) /\ Len(sent[s]) \in Nat
    <3>1. At(s, "query") /\ Opened(s).type = "ariesFwd"
      BY <1>2 DEF storeMessage
    <3>2. Opened(s).to = Recipient(s) /\ Recipient(s) \in Conns /\ ownerOf[Recipient(s)] # NoOne
      BY <3>1 DEF AcceptedOK, QueryAccepted, isUpdate
    <3> QED
      BY <3>1, <3>2 DEF At, SentOK, TypeOK
  <2>2. /\ storedAt'[s] = Recipient(s) /\ phase'[s] = "answering" /\ sent' = sent
        /\ ownerOf' = ownerOf
    BY <1>2 DEF storeMessage, Respond, Goes, creationVars, TypeOK
  <2>3. depth[s] \in 1..Len(sent[s])
    BY <2>1
  <2>4. sent'[s][depth[s]].to = storedAt'[s] /\ sent'[s][depth[s]].type = "ariesFwd"
    BY <2>1, <2>2 DEF Opened
  <2> QED
    BY <2>1, <2>2, <2>3, <2>4
<1>3. storedAt'[s] = storedAt[s] \/ storeMessage(s)
  BY Stored DEF storeMessage, TypeOK
<1> QED
  BY <1>1, <1>2, <1>3

\* How the answer of a request comes about.
Rests(s) == answer'[s] = answer[s] /\ phase'[s] = phase[s]

Moves(s) ==
  /\ answer'[s] = answer[s]
  /\ phase[s] \notin {"answering", "ended"} /\ phase'[s] \notin {"answering", "ended"}

IsAnswered(s) ==
  /\ answer'[s].msgs = {} /\ phase'[s] \in {"answering", "ended"}
  /\ phase'[s] = "answering" => answer'[s].kind \notin Refusal

LEMMA AnswersOfSteps ==
  ASSUME Inv, [Next]_vars, NEW s \in Requests
  PROVE  \/ Rests(s) \/ Moves(s) \/ IsAnswered(s)
         \/ answer'[s] = answer[s] /\ At(s, "answering") /\ phase'[s] = "ended"
         \/ answer'[s] = NoAnswer /\ phase'[s] = "lost"
         \/ loadMessages(s)
<1>0. phase \in [Requests -> Phase] /\ answer \in [Requests -> Answer]
  BY DEF Inv, TypeOK
<1>1. ASSUME NEW r \in Requests, NEW kind, NEW for,
             Respond(r, Response(kind, for, {})), kind \notin Refusal
      PROVE  Rests(s) \/ IsAnswered(s)
  BY <1>0, <1>1 DEF Respond, Response, Goes, Rests, IsAnswered
<1>2. ASSUME NEW r \in Requests, NEW kind, Throw(r, kind)
      PROVE  Rests(s) \/ IsAnswered(s)
  BY <1>0, <1>2 DEF Throw, Response, Goes, Rests, IsAnswered
<1>3. ASSUME NEW r \in Requests, handleIncomingMessage(r) \/ handleAuthorizedFwdMessage(r)
      PROVE  Moves(s) \/ Rests(s) \/ Throw(r, "refused")
  BY <1>0, <1>3
  DEF handleIncomingMessage, handleAuthorizedFwdMessage, Routed, Forward, Goes, At, Moves, Rests
<1>4. ASSUME NEW r \in Requests,
             \/ handleMsgVcxV2Connect(r) \/ handleCreateKey(r) \/ handleUpdate(r)
             \/ handleAriesFwd(r) \/ handleGetMsgs(r)
      PROVE  Moves(s) \/ Rests(s)
  BY <1>0, <1>4 DEF handleMsgVcxV2Connect, handleCreateKey, handleUpdate, handleAriesFwd,
     handleGetMsgs, Routed, Continue, Goes, At, Moves, Rests
<1>5. ASSUME NEW r \in Requests, loadEntityRecordByDidOrVerkey(r) \/ Refuse(r) \/ StepFails(r)
      PROVE  \E kind : Throw(r, kind)
  BY <1>5 DEF loadEntityRecordByDidOrVerkey, Refuse, StepFails
<1>6. ASSUME NEW r \in Requests,
             \/ handleSignUpOrCreateAgent(r) \/ createRow(r) \/ setAgentWebhook(r)
             \/ updateStatusCodeAgentConnection(r) \/ storeMessage(r)
      PROVE  \E kind, for : Respond(r, Response(kind, for, {})) /\ kind \notin Refusal
  BY <1>6 DEF handleSignUpOrCreateAgent, createRow, setAgentWebhook,
     updateStatusCodeAgentConnection, storeMessage, Refusal
<1>7. ASSUME NEW r \in Requests, createNewRawWalletForEntity(r) \/ saveEntityRecord(r)
      PROVE  Moves(s) \/ Rests(s) \/ Throw(r, "refused")
  BY <1>0, <1>7 DEF createNewRawWalletForEntity, saveEntityRecord, Goes, At, Moves, Rests
<1>8. ASSUME NEW r \in Requests, Answers(r) \/ Crash(r) \/ loadMessages(r)
      PROVE  \/ Rests(s)
             \/ answer'[s] = answer[s] /\ At(s, "answering") /\ phase'[s] = "ended"
             \/ answer'[s] = NoAnswer /\ phase'[s] = "lost"
             \/ loadMessages(s)
  BY <1>0, <1>8 DEF Answers, Crash, loadMessages, Respond, Goes, At, Rests
<1>9. ASSUME NEW r \in Requests, NEW m \in Sendable[r], Send(r, m)
      PROVE  Moves(s) \/ Rests(s)
  BY <1>0, <1>9 DEF Send, Goes, At, Moves, Rests
<1>10. CASE UNCHANGED vars
  BY <1>10 DEF vars, requestVars, Rests
<1>11. ASSUME NEW r \in Requests, Step(r) \/ StepFails(r) \/ Crash(r)
       PROVE  \/ \E kind, for : Respond(r, Response(kind, for, {})) /\ kind \notin Refusal
              \/ \E kind : Throw(r, kind)
              \/ Moves(s) \/ Rests(s)
              \/ Answers(r) \/ Crash(r) \/ loadMessages(r)
  BY <1>3, <1>4, <1>5, <1>6, <1>7, <1>11 DEF Step
<1> QED
  BY <1>1, <1>2, <1>8, <1>9, <1>10, <1>11 DEF Next

LEMMA AnswerStep == Inv /\ [Next]_vars => AnswerOK'
<1> SUFFICES ASSUME Inv, [Next]_vars, NEW s \in Requests
             PROVE  /\ phase'[s] \notin {"answering", "ended"} => answer'[s] = NoAnswer
                    /\ phase'[s] = "answering" => answer'[s].kind \notin Refusal
  BY DEF AnswerOK, At
<1>1. CASE loadMessages(s)
  BY <1>1 DEF loadMessages, Respond, Response, Goes, Refusal, Inv, TypeOK
<1>2. CASE ~loadMessages(s)
  BY <1>2, AnswersOfSteps DEF Inv, AnswerOK, At, Rests, Moves, IsAnswered
<1> QED
  BY <1>1, <1>2

\* Messages that are stored stay where they are, and so do the owners they are for.
LEMMA MessagesStep == Inv /\ [Next]_vars => MessagesReachOwners'
<1> SUFFICES ASSUME Inv, [Next]_vars, NEW s \in Requests, NEW m \in answer'[s].msgs
             PROVE  /\ storedAt'[m] # NoOne /\ ownerOf'[storedAt'[m]] = answer'[s].for
                    /\ \E i \in 1..Len(sent'[m]) :
                         sent'[m][i].to = storedAt'[m] /\ sent'[m][i].type = "ariesFwd"
  BY DEF MessagesReachOwners
<1> USE DEF Inv
<1>1. ASSUME NEW n \in Requests, storedAt[n] # NoOne
      PROVE  /\ storedAt'[n] = storedAt[n] /\ sent'[n] = sent[n]
             /\ ownerOf'[storedAt[n]] = ownerOf[storedAt[n]]
  <2>1. phase[n] \in {"answering", "ended", "lost"} /\ storedAt[n] \in Entities
    BY <1>1, Names DEF StoredOK, TypeOK
  <2>2. storedAt'[n] = storedAt[n]
    BY <2>1, Stored DEF storeMessage, At, TypeOK
  <2>3. ownerOf'[storedAt[n]] = ownerOf[storedAt[n]]
    BY <1>1, <2>1, OwnersStay DEF StoredOK
  <2> QED
    BY <2>1, <2>2, <2>3, HandledStays
<1>2. CASE loadMessages(s)
  <2>1. /\ m \in Requests /\ storedAt[m] = Recipient(s) /\ storedAt[m] # NoOne
        /\ answer'[s].for = ownerOf[Recipient(s)]
    BY <1>2, Names
    DEF loadMessages, Respond, Response, filter, MessagesOf, TypeOK
  <2> QED
    BY <1>1, <2>1 DEF StoredOK
<1>3. CASE ~loadMessages(s)
  <2>1. m \in answer[s].msgs /\ answer'[s] = answer[s]
    BY <1>3, AnswersOfSteps DEF Rests, Moves, IsAnswered, NoAnswer, Response
  <2>2. m \in Requests
    BY <2>1 DEF TypeOK, Answer
  <2> QED
    BY <1>1, <2>1, <2>2 DEF MessagesReachOwners
<1> QED
  BY <1>2, <1>3

-----------------------------------------------------------------------------
(* Invariants of the specification                                         *)

\* What requests, entities and messages are to each other, whatever is sent: a wallet name
\* belongs to one creation, and a handler that has authorised a request may rely on it
\* (agent.js, agent-connection.js, wallet.js:53-61).
THEOREM Invariance == Spec => []Inv
<1>1. Inv /\ [Next]_vars => Inv'
  BY TypeStep, SentStep, AcceptedStep, CreationStep, StoredStep, AnswerStep,
     MessagesStep DEF Inv
<1> QED
  BY InitInv, <1>1, PTL DEF Spec

\* The variables keep their types in every behaviour.
THEOREM TypeCorrect == Spec => []TypeOK
<1>1. Inv => TypeOK
  BY DEF Inv
<1> QED
  BY <1>1, Invariance, PTL

\* Messages are only given to the owner of the connection they were packed for
\* (agent-connection.js:118-127, storage.js:165-186).
THEOREM MessagesSafe == Spec => []MessagesReachOwners
<1>1. Inv => MessagesReachOwners
  BY DEF Inv
<1> QED
  BY <1>1, Invariance, PTL

-----------------------------------------------------------------------------
(* The steps of a request run out                                          *)

\* A step of a request opens an envelope or gets its handler to another await.
LEMMA StepGoesOn ==
  ASSUME TypeOK, NEW r \in Requests, Step(r)
  PROVE  Forwards(r) \/ phase'[r] # phase[r]
<1>1. CASE handleIncomingMessage(r) \/ handleAuthorizedFwdMessage(r)
  BY <1>1 DEF handleIncomingMessage, handleAuthorizedFwdMessage, isForward, isAuthorized, Routed,
     Throw, Goes, Forwards, At, TypeOK
<1>2. CASE loadEntityRecordByDidOrVerkey(r) \/ Refuse(r)
  BY <1>2 DEF loadEntityRecordByDidOrVerkey, Refuse, Routed, Throw, Goes, At, TypeOK
<1>3. CASE \/ handleMsgVcxV2Connect(r) \/ handleCreateKey(r) \/ handleUpdate(r)
           \/ handleAriesFwd(r) \/ handleGetMsgs(r) \/ handleSignUpOrCreateAgent(r)
  BY <1>3 DEF handleMsgVcxV2Connect, handleCreateKey, handleUpdate, handleAriesFwd, handleGetMsgs,
     handleSignUpOrCreateAgent, Routed, Continue, Respond, Goes, At, TypeOK
<1>4. CASE createNewRawWalletForEntity(r) \/ saveEntityRecord(r) \/ createRow(r)
  BY <1>4 DEF createNewRawWalletForEntity, saveEntityRecord, createRow, Throw, Respond, Goes,
     At, TypeOK
<1>5. CASE \/ setAgentWebhook(r) \/ updateStatusCodeAgentConnection(r)
           \/ storeMessage(r) \/ loadMessages(r) \/ Answers(r)
  BY <1>5 DEF setAgentWebhook, updateStatusCodeAgentConnection, storeMessage, loadMessages,
     Answers, Respond, Goes, At, TypeOK
<1> QED
  BY <1>1, <1>2, <1>3, <1>4, <1>5 DEF Step

\* A request that waits has an envelope to open, or has at most four steps left.
LEMMA Counted ==
  ASSUME TypeOK, SentOK, NEW r \in Requests
  PROVE  /\ StepsLeft(r) \in Nat
         /\ phase[r] \in {"received", "routing"} =>
              depth[r] \in 1..Len(sent[r]) /\ StepsLeft(r) = Len(sent[r]) - depth[r] + 5
<1>1. ASSUME phase[r] \in {"received", "routing"}
      PROVE  depth[r] \in 1..Len(sent[r]) /\ StepsLeft(r) = Len(sent[r]) - depth[r] + 5
  <2>1. sent[r] \in Sendable[r] /\ Len(sent[r]) \in Nat
    BY <1>1 DEF SentOK, At, TypeOK
  <2>2. Len(sent[r]) \in Nat \ {0}
    BY <2>1, SendableIsMessage
  <2>3. depth[r] = 1 \/ depth[r] \in 2..Len(sent[r])
    BY <1>1 DEF SentOK
  <2> QED
    BY <1>1, <2>2, <2>3 DEF StepsLeft, At
<1>2. phase[r] \in {"received", "routing"} => StepsLeft(r) \in Nat
  <2>1. Len(sent[r]) \in Nat
    BY DEF TypeOK
  <2> QED
    BY <1>1, <2>1
<1>3. phase[r] \notin {"received", "routing"} => StepsLeft(r) \in Nat
  BY DEF StepsLeft, At
<1> QED
  BY <1>1, <1>2, <1>3

LEMMA ForwardCounts ==
  ASSUME Inv, NEW r \in Requests, Forwards(r)
  PROVE  StepsLeft(r)' = StepsLeft(r) - 1
<1>1. depth[r] \in Nat /\ Len(sent[r]) \in Nat
  BY DEF Inv, TypeOK
<1>2. StepsLeft(r) = Len(sent[r]) - depth[r] + 5
  BY Counted DEF Inv, Forwards
<1>3. phase'[r] = "routing" /\ depth'[r] = depth[r] + 1 /\ sent' = sent
  BY DEF Inv, TypeOK, Forwards, Forward, Goes
<1> QED
  BY <1>1, <1>2, <1>3 DEF StepsLeft, At

LEMMA HandlerCounts ==
  ASSUME Inv, NEW r \in Requests, HandlerMoves(r)
  PROVE  /\ StepsLeft(r)' \in 0..StepsLeft(r)
         /\ phase'[r] # phase[r] => StepsLeft(r)' # StepsLeft(r)
<1>1. PICK ph \in {"wallet", "record", "row", "query", "answering", "ended", "lost"} :
        /\ phase'[r] = ph
        /\ ph \in {"wallet", "query"} => At(r, "routing")
        /\ ph = "record" => At(r, "wallet")
        /\ ph = "row" => At(r, "record")
  BY DEF Inv, TypeOK, HandlerMoves
<1>2. CASE phase[r] \in {"received", "routing"}
  <2>1. StepsLeft(r) >= 5 /\ StepsLeft(r) \in Nat
    <3>1. depth[r] \in Nat /\ Len(sent[r]) \in Nat
      BY DEF Inv, TypeOK
    <3> QED
      BY <1>2, <3>1, Counted DEF Inv
  <2>2. StepsLeft(r)' \in 0..4
    BY <1>1, <1>2 DEF StepsLeft, At
  <2> QED
    BY <2>1, <2>2
<1>3. CASE phase[r] \in {"wallet", "record", "row", "query", "answering"}
  BY <1>1, <1>3 DEF StepsLeft, At
<1> QED
  BY <1>2, <1>3 DEF HandlerMoves, Waiting

\* Whatever an agency does, no request that waits gets further from its end, and each of its
\* own steps takes it nearer.
LEMMA StepCounts ==
  ASSUME Inv, [Next]_vars, NEW r \in Requests, phase[r] \in Waiting
  PROVE  /\ StepsLeft(r)' \in 0..StepsLeft(r)
         /\ Step(r) => StepsLeft(r)' # StepsLeft(r)
<1>1. StepsLeft(r) \in Nat
  BY Counted DEF Inv
<1>2. ASSUME sent'[r] = sent[r], depth'[r] = depth[r], phase'[r] = phase[r]
      PROVE  StepsLeft(r)' = StepsLeft(r)
  BY <1>2 DEF StepsLeft, At
<1>3. ASSUME NEW s \in Requests, s # r,
             (\E m \in Sendable[s] : Send(s, m)) \/ Forwards(s) \/ HandlerMoves(s)
      PROVE  sent'[r] = sent[r] /\ depth'[r] = depth[r] /\ phase'[r] = phase[r]
  BY <1>3 DEF Inv, TypeOK, Send, Forwards, Forward, HandlerMoves, Goes
<1>4. CASE Forwards(r)
  <2>1. StepsLeft(r)' = StepsLeft(r) - 1 /\ StepsLeft(r) >= 1
    <3>1. StepsLeft(r) >= 5
      <4>1. depth[r] \in Nat /\ Len(sent[r]) \in Nat
        BY DEF Inv, TypeOK
      <4> QED
        BY <1>4, <4>1, Counted DEF Inv, Forwards
    <3> QED
      BY <1>1, <1>4, <3>1, ForwardCounts
  <2> QED
    BY <1>1, <2>1
<1>5. CASE HandlerMoves(r)
  <2>1. Step(r) => phase'[r] # phase[r] \/ Forwards(r)
    BY StepGoesOn DEF Inv
  <2> QED
    BY <1>4, <1>5, <2>1, HandlerCounts
<1>6. CASE ~Forwards(r) /\ ~HandlerMoves(r)
  <2>1. ~\E m \in Sendable[r] : Send(r, m)
    BY DEF Send, At, Waiting
  <2>2. sent'[r] = sent[r] /\ depth'[r] = depth[r] /\ phase'[r] = phase[r]
    BY <1>3, <1>6, <2>1, KindsOfSteps DEF vars, requestVars
  <2>3. ~Step(r)
    BY <1>6, <2>2, StepGoesOn DEF Inv
  <2> QED
    BY <1>1, <1>2, <2>2, <2>3
<1> QED
  BY <1>4, <1>5, <1>6

\* No message keeps an agency busy for ever, however long it is and whomever its envelopes
\* name: with each step a request has fewer left (router.js:27-34, agent.js:170-180).
THEOREM StepsRunOut == Spec => EveryStepCounts
<1>1. Inv /\ [Next]_vars =>
        [\A r \in Requests :
           phase[r] \in Waiting =>
             /\ StepsLeft(r)' \in 0..StepsLeft(r)
             /\ Step(r) => StepsLeft(r)' # StepsLeft(r)]_vars
  BY StepCounts
<1> QED
  BY <1>1, Invariance, PTL DEF Spec, EveryStepCounts

-----------------------------------------------------------------------------
(* Refusals                                                                *)

IsStranger(e) == \E d \in Strangers : e \in {AgentFor(d), ConnFor(d)}

\* Nothing is ever packed for an entity that is to be created later: clients know complete
\* entities, which have an owner for good, and strangers, which never get one.
IsReachable(e) == e = Fwa \/ ownerOf[e] # NoOne \/ IsStranger(e)

KnownOK ==
  /\ \A e \in rows : ownerOf[e] # NoOne
  /\ \A r \in Requests : At(r, "row") => ownerOf[Created(r)] # NoOne
  /\ \A e \in Entities : IsStranger(e) => ownerOf[e] = NoOne
  /\ \A r \in Requests : \A i \in 1..Len(sent[r]) : IsReachable(sent[r][i].to)

LEMMA InitKnown == Init => KnownOK /\ RefusedForAReason
<1> SUFFICES ASSUME Init PROVE KnownOK /\ RefusedForAReason
  OBVIOUS
<1>1. \A e \in rows : ownerOf[e] # NoOne
  BY DEF Init
<1>2. \A e \in Entities : IsStranger(e) => ownerOf[e] = NoOne
  BY StrangersAssumption DEF Init, IsStranger
<1>3. ASSUME NEW r \in Requests
      PROVE  ~At(r, "row") /\ Len(sent[r]) = 0 /\ answer[r].kind = "none"
  BY DEF Init, At, NoAnswer, Response
<1> QED
  BY <1>1, <1>2, <1>3 DEF KnownOK, RefusedForAReason

\* A request waits for its row when it has saved its record.
LEMMA RowFollowsRecord ==
  ASSUME Inv, [Next]_vars, NEW s \in Requests, phase'[s] = "row"
  PROVE  /\ At(s, "row") \/ saveEntityRecord(s)
         /\ Created(s)' = Created(s)
<1>0. phase \in [Requests -> Phase]
  BY DEF Inv, TypeOK
<1>1. Created(s)' = Created(s)
  <2>1. sent'[s] = sent[s] /\ depth'[s] = depth[s]
    BY HandlersWait
  <2> QED
    BY <2>1 DEF Created, Opened
<1>2. ASSUME NEW r \in Requests, saveEntityRecord(r)
      PROVE  At(s, "row") \/ saveEntityRecord(s)
  BY <1>0, <1>2 DEF saveEntityRecord, Goes, At
<1>3. ASSUME NEW r \in Requests,
             \/ StepFails(r) \/ Crash(r) \/ handleIncomingMessage(r)
             \/ loadEntityRecordByDidOrVerkey(r) \/ Refuse(r) \/ handleAuthorizedFwdMessage(r)
             \/ handleSignUpOrCreateAgent(r) \/ handleMsgVcxV2Connect(r) \/ handleCreateKey(r)
             \/ handleUpdate(r) \/ handleAriesFwd(r) \/ handleGetMsgs(r)
      PROVE  At(s, "row")
  BY <1>0, <1>3 DEF StepFails, Crash, handleIncomingMessage, loadEntityRecordByDidOrVerkey, Refuse,
     handleAuthorizedFwdMessage, handleSignUpOrCreateAgent, handleMsgVcxV2Connect,
     handleCreateKey, handleUpdate, handleAriesFwd, handleGetMsgs, Throw, Forward, Continue,
     Respond, Goes, At
<1>4. ASSUME NEW r \in Requests,
             \/ createNewRawWalletForEntity(r) \/ createRow(r) \/ setAgentWebhook(r)
             \/ updateStatusCodeAgentConnection(r)
             \/ storeMessage(r) \/ loadMessages(r) \/ Answers(r)
      PROVE  At(s, "row")
  BY <1>0, <1>4 DEF createNewRawWalletForEntity, createRow, setAgentWebhook,
     updateStatusCodeAgentConnection, storeMessage, loadMessages, Answers, Throw, Respond, Goes, At
<1>5. ASSUME NEW r \in Requests, NEW m \in Sendable[r], Send(r, m)
      PROVE  At(s, "row")
  BY <1>0, <1>5 DEF Send, Goes, At
<1>6. ASSUME UNCHANGED vars
      PROVE  At(s, "row")
  BY <1>6 DEF vars, requestVars, At
<1>7. (\E r \in Requests : saveEntityRecord(r)) \/ At(s, "row")
  BY <1>3, <1>4, <1>5, <1>6 DEF Next, Step
<1> QED
  BY <1>1, <1>2, <1>7

\* What is created is no stranger, and gets an owner.
LEMMA RecordSaved ==
  ASSUME Inv, NEW r \in Requests, saveEntityRecord(r)
  PROVE  /\ Created(r) \in Entities /\ ~IsStranger(Created(r))
         /\ ownerOf' = [ownerOf EXCEPT ![Created(r)] = Opened(r).from]
         /\ ownerOf'[Created(r)] # NoOne
<1>1. /\ Opened(r).did \in Dids /\ Opened(r).from \in Keys /\ Created(r) \in Entities
      /\ ownerOf' = [ownerOf EXCEPT ![Created(r)] = Opened(r).from]
  BY CreatedIsEntity DEF saveEntityRecord, At
<1>2. sent[r] \in Sendable[r] /\ depth[r] \in 1..Len(sent[r])
  <2>1. sent[r] \in Sendable[r] /\ depth[r] \in 2..Len(sent[r]) /\ Len(sent[r]) \in Nat
    BY DEF Inv, SentOK, TypeOK, saveEntityRecord, At
  <2> QED
    BY <2>1
<1>3. Opened(r).type \in {"connect", "createKey"}
  BY DEF Inv, AcceptedOK, CreationAccepted, saveEntityRecord, At
<1>4. Opened(r).did \notin Strangers
  BY <1>2, <1>3, StrangersAssumption DEF Opened
<1>5. ~IsStranger(Created(r))
  BY <1>4, Names DEF IsStranger, Created
<1> QED
  BY <1>1, <1>5, NamesAssumption DEF Inv, TypeOK

LEMMA EnvelopeSent ==
  ASSUME TypeOK, NEW s \in Requests, NEW i \in 1..Len(sent[s])
  PROVE  sent[s][i] \in Envelope /\ sent[s][i].to \in Entities
<1>1. sent[s][i] \in Envelope
  BY DEF TypeOK
<1> QED
  BY <1>1 DEF Envelope

LEMMA KnownStep == Inv /\ KnownOK /\ [Next]_vars => KnownOK'
<1> SUFFICES ASSUME Inv, KnownOK, [Next]_vars PROVE KnownOK'
  OBVIOUS
<1>1. ASSUME NEW e \in rows' PROVE ownerOf'[e] # NoOne
  <2>1. rows \subseteq Entities
    BY DEF Inv, TypeOK
  <2>2. CASE e \in rows
    BY <2>1, <2>2, OwnersStay DEF KnownOK
  <2>3. ASSUME NEW r \in Requests, createRow(r), e \notin rows
        PROVE  ownerOf'[e] # NoOne
    BY <2>3 DEF createRow, KnownOK
  <2>4. ASSUME NEW r \in Requests, setAgentWebhook(r), e \notin rows
        PROVE  ownerOf'[e] # NoOne
    BY <2>4 DEF setAgentWebhook, Inv, AcceptedOK, QueryAccepted
  <2>5. ASSUME NEW r \in Requests,
               \/ createNewRawWalletForEntity(r) \/ saveEntityRecord(r)
               \/ updateStatusCodeAgentConnection(r) \/ storeMessage(r)
        PROVE  rows' = rows
    BY <2>5 DEF createNewRawWalletForEntity, saveEntityRecord, updateStatusCodeAgentConnection,
       storeMessage, Throw, creationVars, entityVars
  <2>6. CASE UNCHANGED entityVars
    BY <2>2, <2>6 DEF entityVars, creationVars
  <2> QED
    BY <2>2, <2>3, <2>4, <2>5, <2>6, EntitySteps
<1>2. ASSUME NEW s \in Requests, phase'[s] = "row" PROVE ownerOf'[Created(s)'] # NoOne
  <2>1. Created(s)' = Created(s)
    BY <1>2, RowFollowsRecord
  <2>2. CASE saveEntityRecord(s)
    BY <2>1, <2>2, RecordSaved
  <2>3. CASE At(s, "row")
    BY <2>1, <2>3, CreatedIsEntity, OwnersStay DEF KnownOK, At
  <2> QED
    BY <1>2, <2>2, <2>3, RowFollowsRecord
<1>3. ASSUME NEW e \in Entities, IsStranger(e) PROVE ownerOf'[e] = NoOne
  <2>1. ownerOf[e] = NoOne
    BY <1>3 DEF KnownOK
  <2>2. ASSUME NEW r \in Requests, saveEntityRecord(r) PROVE ownerOf'[e] = ownerOf[e]
    BY <1>3, <2>2, RecordSaved DEF Inv, TypeOK
  <2>3. ASSUME NEW r \in Requests,
               createNewRawWalletForEntity(r) \/ createRow(r) \/ setAgentWebhook(r)
               \/ updateStatusCodeAgentConnection(r) \/ storeMessage(r)
        PROVE  ownerOf' = ownerOf
    BY <2>3 DEF createNewRawWalletForEntity, createRow, setAgentWebhook,
       updateStatusCodeAgentConnection, storeMessage, Throw, creationVars, entityVars
  <2>4. CASE UNCHANGED entityVars
    BY <2>4, <2>1 DEF entityVars, creationVars
  <2> QED
    BY <2>1, <2>2, <2>3, <2>4, EntitySteps
<1> DEFINE Reachable(e) == e = Fwa \/ ownerOf'[e] # NoOne \/ IsStranger(e)
<1>4. ASSUME NEW e \in Entities, IsReachable(e) PROVE Reachable(e)
  BY <1>4, OwnersStay DEF IsReachable
<1>5. ASSUME NEW s \in Requests, NEW i \in 1..Len(sent'[s])
      PROVE  Reachable(sent'[s][i].to)
  <2>1. CASE sent'[s] = sent[s]
    <3>1. sent[s][i].to \in Entities /\ IsReachable(sent[s][i].to)
      BY <2>1, EnvelopeSent DEF Inv, KnownOK
    <3> QED
      BY <1>4, <2>1, <3>1
  <2>2. ASSUME NEW m \in Sendable[s], Send(s, m) PROVE Reachable(sent'[s][i].to)
    <3>1. sent'[s] = m
      BY <2>2 DEF Send, Inv, TypeOK
    <3>2. m[i] \in Envelope /\ IsKnown(m[i].to)
      BY <2>2, <3>1, SendableIsMessage DEF Send
    <3>3. m[i].to \in Entities
      BY <3>2 DEF Envelope
    <3>4. IsReachable(m[i].to)
      BY <3>2, <3>3, Names DEF IsKnown, IsReachable, IsStranger, KnownOK
    <3> QED
      BY <1>4, <3>1, <3>3, <3>4
  <2>3. \/ sent'[s] = sent[s]
        \/ \E m \in Sendable[s] : Send(s, m)
    BY KindsOfSteps DEF Send, Forwards, Forward, HandlerMoves, vars, requestVars, Inv, TypeOK
  <2> QED
    BY <2>1, <2>2, <2>3
<1>6. \A s \in Requests : \A i \in 1..Len(sent'[s]) :
        \/ sent'[s][i].to = Fwa \/ ownerOf'[sent'[s][i].to] # NoOne
        \/ IsStranger(sent'[s][i].to)
  BY <1>5
<1> QED
  BY <1>1, <1>2, <1>3, <1>6 DEF KnownOK, At, IsReachable, IsStranger

Refused(kind) == kind \in {"typeError", "refused"}

HasReason(m) ==
  ~IsAddressed(m) \/ \E i \in 2..Len(m) : ~IsProper(m[i]) \/ IsTaken(m[i])

\* A reason stays one: what was not there when a message was sent, never is.
LEMMA ReasonsStay ==
  ASSUME Inv, KnownOK, [Next]_vars, NEW s \in Requests, HasReason(sent[s])
  PROVE  HasReason(sent[s])'  \/ sent'[s] # sent[s]
<1> SUFFICES ASSUME sent'[s] = sent[s], IsAddressed(sent[s]) PROVE HasReason(sent[s])'
  BY DEF HasReason, IsAddressed
<1>1. PICK i \in 2..Len(sent[s]) : ~IsProper(sent[s][i]) \/ IsTaken(sent[s][i])
  BY DEF HasReason
<1> DEFINE e == sent[s][i]
<1>2. e \in Envelope /\ e.to \in Entities /\ IsReachable(e.to)
  <2>1. i \in 1..Len(sent[s])
    BY DEF Inv, TypeOK
  <2> QED
    BY <2>1, EnvelopeSent DEF Inv, KnownOK
<1>3. IsTaken(e) => IsTaken(e)'
  BY OwnersStay DEF IsTaken
<1>4. ASSUME ~IsProper(e) PROVE ~IsProper(e)'
  <2>1. CASE ownerOf[e.to] # NoOne
    BY <1>2, <1>4, <2>1, OwnersStay DEF IsProper
  <2>2. CASE e.to = Fwa
    BY <1>4, <2>2, Names DEF IsProper
  <2>3. CASE IsStranger(e.to)
    <3>1. ownerOf'[e.to] = NoOne
      BY <1>2, <2>3, KnownStep DEF KnownOK, IsStranger
    <3> QED
      BY <1>4, <3>1 DEF IsProper
  <2> QED
    BY <1>2, <2>1, <2>2, <2>3 DEF IsReachable
<1> HIDE DEF e
<1>5. ~IsProper(e)' \/ IsTaken(e)'
  BY <1>1, <1>3, <1>4 DEF e
<1> QED
  BY <1>5 DEF HasReason, e

\* The ways in which a request comes to be refused.
IsRefusal(s) ==
  \/ At(s, "received") /\ ~isForward(s)
  \/ At(s, "routing") /\ ~isResolved(s)
  \/ At(s, "routing") /\ isResolved(s) /\ ~Accepted(s)
  \/ At(s, "wallet") /\ Created(s) \in wallets

LEMMA RefusalsOfSteps ==
  ASSUME Inv, [Next]_vars, NEW s \in Requests, Refused(answer'[s].kind)
  PROVE  \/ answer'[s] = answer[s] /\ sent'[s] = sent[s]
         \/ UNCHANGED <<sent, entityVars>> /\ IsRefusal(s)
<1>0. answer \in [Requests -> Answer] /\ sent \in [Requests -> Seq(Envelope)]
  BY DEF Inv, TypeOK
<1> DEFINE Stays == answer'[s] = answer[s] /\ sent'[s] = sent[s]
<1>1. ASSUME NEW r \in Requests, NEW kind, Throw(r, kind)
      PROVE  Stays \/ (r = s /\ answer'[s].kind = kind /\ UNCHANGED <<sent, entityVars>>)
  BY <1>0, <1>1 DEF Throw, Response
<1>2. ASSUME NEW r \in Requests, NEW kind, NEW for, NEW msgs,
             Respond(r, Response(kind, for, msgs)), ~Refused(kind)
      PROVE  Stays
  BY <1>0, <1>2 DEF Respond, Response
<1>3. ASSUME NEW r \in Requests,
             \/ handleMsgVcxV2Connect(r) \/ handleCreateKey(r) \/ handleUpdate(r)
             \/ handleAriesFwd(r) \/ handleGetMsgs(r) \/ handleAuthorizedFwdMessage(r)
             \/ saveEntityRecord(r) \/ Answers(r)
      PROVE  Stays
  BY <1>3 DEF handleMsgVcxV2Connect, handleCreateKey, handleUpdate, handleAriesFwd, handleGetMsgs,
     handleAuthorizedFwdMessage, saveEntityRecord, Answers, Continue, Forward
<1>4. ASSUME NEW r \in Requests,
             \/ handleSignUpOrCreateAgent(r) \/ createRow(r) \/ setAgentWebhook(r)
             \/ updateStatusCodeAgentConnection(r) \/ storeMessage(r) \/ loadMessages(r)
      PROVE  Stays
  <2>1. \E kind, for, msgs : Respond(r, Response(kind, for, msgs)) /\ ~Refused(kind)
    BY <1>4 DEF handleSignUpOrCreateAgent, createRow, setAgentWebhook,
       updateStatusCodeAgentConnection, storeMessage, loadMessages, Refused
  <2> QED
    BY <1>2, <2>1
<1>5. ASSUME NEW r \in Requests, handleIncomingMessage(r)
      PROVE  Stays \/ (UNCHANGED <<sent, entityVars>> /\ IsRefusal(s))
  BY <1>1, <1>5 DEF handleIncomingMessage, Forward, IsRefusal
<1>6. ASSUME NEW r \in Requests, loadEntityRecordByDidOrVerkey(r) \/ Refuse(r)
      PROVE  Stays \/ (UNCHANGED <<sent, entityVars>> /\ IsRefusal(s))
  BY <1>1, <1>6 DEF loadEntityRecordByDidOrVerkey, Refuse, Routed, IsRefusal
<1>7. ASSUME NEW r \in Requests, createNewRawWalletForEntity(r)
      PROVE  Stays \/ (UNCHANGED <<sent, entityVars>> /\ IsRefusal(s))
  BY <1>1, <1>7 DEF createNewRawWalletForEntity, IsRefusal
<1>8. ASSUME NEW r \in Requests, StepFails(r)
      PROVE  Stays
  BY <1>1, <1>8 DEF StepFails, Refused
<1>9. ASSUME NEW r \in Requests, Crash(r)
      PROVE  Stays
  BY <1>0, <1>9 DEF Crash, NoAnswer, Response, Refused
<1>10. ASSUME NEW r \in Requests, NEW m \in Sendable[r], Send(r, m)
       PROVE  Stays
  <2>1. answer[r].kind = "none" /\ answer' = answer
    BY <1>10 DEF Send, At, Inv, AnswerOK, NoAnswer, Response
  <2> QED
    BY <1>0, <1>10, <2>1 DEF Send, Refused
<1>11. CASE UNCHANGED vars
  BY <1>11 DEF vars, requestVars
<1> DEFINE Refusing == UNCHANGED <<sent, entityVars>> /\ IsRefusal(s)
<1>12. ASSUME NEW r \in Requests, Step(r) PROVE Stays \/ Refusing
  <2> HIDE DEF Stays, Refusing
  <2>1. CASE \/ handleMsgVcxV2Connect(r) \/ handleCreateKey(r) \/ handleUpdate(r)
             \/ handleAriesFwd(r) \/ handleGetMsgs(r) \/ handleAuthorizedFwdMessage(r)
             \/ saveEntityRecord(r) \/ Answers(r)
    BY <1>3, <2>1 DEF Stays
  <2>2. CASE \/ handleSignUpOrCreateAgent(r) \/ createRow(r) \/ setAgentWebhook(r)
             \/ updateStatusCodeAgentConnection(r) \/ storeMessage(r) \/ loadMessages(r)
    BY <1>4, <2>2 DEF Stays
  <2>3. CASE \/ handleIncomingMessage(r) \/ loadEntityRecordByDidOrVerkey(r) \/ Refuse(r)
             \/ createNewRawWalletForEntity(r)
    BY <1>5, <1>6, <1>7, <2>3 DEF Stays, Refusing
  <2> QED
    BY <1>12, <2>1, <2>2, <2>3 DEF Step
<1>13. ASSUME NEW r \in Requests,
              StepFails(r) \/ Crash(r) \/ \E m \in Sendable[r] : Send(r, m)
       PROVE  Stays
  BY <1>8, <1>9, <1>10, <1>13
<1> QED
  BY <1>11, <1>12, <1>13 DEF Next

\* Each of them has a reason.
LEMMA RefusalHasReason ==
  ASSUME Inv, KnownOK, NEW s \in Requests, IsRefusal(s)
  PROVE  HasReason(sent[s])
<1> DEFINE m == sent[s]
<1> SUFFICES ASSUME IsAddressed(m) PROVE HasReason(m)
  BY DEF HasReason
<1>1. m \in Seq(Envelope) /\ Len(m) \in Nat /\ Len(m) > 1
  BY DEF IsAddressed, Inv, TypeOK
<1>2. \A i \in 1..Len(m) : m[i] \in Envelope /\ m[i].to \in Entities
  BY EnvelopeSent DEF Inv
<1>3. CASE At(s, "received") /\ ~isForward(s)
  <2>1. depth[s] = 1
    BY <1>3 DEF Inv, SentOK, At
  <2>2. m[1].to = Fwa /\ m[1].type \in {"fwd", "ariesFwd"} /\ m[1].fwd = m[2].to
    BY <1>1 DEF IsAddressed
  <2>3. m[1].fwd # NoOne
    BY <1>1, <1>2, <2>2, Names
  <2> QED
    BY <1>1, <1>3, <2>1, <2>2, <2>3 DEF isForward, unpack, isForwardable, Opened, Recipient
<1>4. ASSUME phase[s] \in {"routing", "wallet"}
      PROVE  /\ depth[s] \in 2..Len(m) /\ Opened(s) = m[depth[s]]
             /\ Opened(s) \in Envelope /\ Opened(s).to = Recipient(s) /\ unpack(s)
             /\ Recipient(s) \in Entities
  <2>1. depth[s] \in 2..Len(m) /\ Recipient(s) \in Entities
    BY <1>4 DEF Inv, SentOK
  <2>2. Recipient(s) = m[depth[s]].to
    BY <1>1, <2>1 DEF IsAddressed, Recipient
  <2> QED
    BY <1>1, <1>2, <2>1, <2>2 DEF Opened, unpack
<1>5. ASSUME phase[s] \in {"routing", "wallet"}, ~IsProper(Opened(s)) \/ IsTaken(Opened(s))
      PROVE  HasReason(m)
  BY <1>4, <1>5 DEF HasReason
<1>6. CASE At(s, "routing") /\ ~isResolved(s)
  BY <1>4, <1>5, <1>6, Names DEF isResolved, IsProper, At
<1>7. CASE At(s, "routing") /\ isResolved(s) /\ ~Accepted(s)
  <2>1. CASE Recipient(s) = Fwa
    <3>1. ~isConnect(s)
      BY <1>7, <2>1 DEF Accepted
    <3>2. ~IsProper(Opened(s))
      BY <1>4, <1>7, <2>1, <3>1, Names DEF isConnect, IsProper, At
    <3> QED
      BY <1>5, <1>7, <3>2 DEF At
  <2>2. CASE Recipient(s) \in Agents
    <3>1. CASE ~isAuthorized(s)
      BY <1>4, <1>5, <1>7, <2>2, <3>1, Names DEF isAuthorized, IsProper, At
    <3>2. CASE isAuthorized(s) /\ Opened(s).type = "fwd"
      <4>1. ~isForwardable(s)
        BY <1>7, <2>2, <3>2 DEF Accepted
      <4>2. depth[s] # Len(m)
        BY <1>4, <1>7, <3>2 DEF IsAddressed, At
      <4>3. depth[s] < Len(m) /\ depth[s] + 1 \in 2..Len(m) /\ depth[s] \in Nat
        BY <1>1, <1>4, <1>7, <4>2 DEF At
      <4>4. Opened(s).fwd = m[depth[s] + 1].to
        BY <1>4, <1>7, <4>3 DEF IsAddressed, At
      <4>5. m[depth[s] + 1].to \in Entities
        BY <1>1, <1>2, <4>3
      <4> QED
        BY <4>1, <4>3, <4>4, <4>5, Names DEF isForwardable
    <3>3. CASE isAuthorized(s) /\ Opened(s).type # "fwd"
      <4>1. \/ Opened(s).type \in {"ariesFwd", "connect", "getMsgs", "unknown"}
            \/ /\ Opened(s).type = "updateComMethod"
               /\ ~(Opened(s).method = "2" /\ Opened(s).url # BadUrl)
            \/ Opened(s).type = "updateMsgs" /\ Opened(s).list # "array"
        BY <1>4, <1>7, <2>2, <3>3 DEF Accepted, isUpdate, Envelope, Type, At
      <4> QED
        BY <1>4, <1>5, <1>7, <2>2, <4>1, Names DEF IsProper, At
    <3> QED
      BY <3>1, <3>2, <3>3
  <2>3. CASE Recipient(s) \in Conns
    <3>1. /\ Opened(s).type # "ariesFwd"
          /\ ~(isAuthorizedPairwise(s) /\ Opened(s).type = "getMsgs")
      BY <1>4, <1>7, <2>3 DEF Accepted, At
    <3>2. ~IsProper(Opened(s))
      BY <1>4, <1>7, <2>3, <3>1, Names DEF isAuthorizedPairwise, IsProper, At
    <3> QED
      BY <1>5, <1>7, <3>2 DEF At
  <2> QED
    BY <1>4, <1>7, <2>1, <2>2, <2>3, Names DEF At
<1>8. CASE At(s, "wallet") /\ Created(s) \in wallets
  <2>1. Opened(s).type \in {"connect", "createKey"}
    BY <1>8 DEF Inv, AcceptedOK, CreationAccepted, At
  <2> QED
    BY <1>5, <1>8, <2>1 DEF IsTaken, Created, At
<1> QED
  BY <1>3, <1>6, <1>7, <1>8 DEF IsRefusal

LEMMA ReasonStep == Inv /\ KnownOK /\ RefusedForAReason /\ [Next]_vars => RefusedForAReason'
<1> SUFFICES ASSUME Inv, KnownOK, RefusedForAReason, [Next]_vars,
                    NEW s \in Requests, Refused(answer'[s].kind)
             PROVE  HasReason(sent[s])'
  BY DEF RefusedForAReason, HasReason, Refused
<1>1. CASE answer'[s] = answer[s] /\ sent'[s] = sent[s]
  <2>1. HasReason(sent[s])
    BY <1>1 DEF RefusedForAReason, HasReason, Refused
  <2> QED
    BY <1>1, <2>1, ReasonsStay
<1>2. CASE UNCHANGED <<sent, entityVars>> /\ IsRefusal(s)
  <2>1. HasReason(sent[s])
    BY <1>2, RefusalHasReason
  <2> QED
    BY <1>2, <2>1, ReasonsStay
<1> QED
  BY <1>1, <1>2, RefusalsOfSteps

\* What is refused is refused for a reason that lies in the request, whatever else the
\* agency does meanwhile (entity-fwa.js, agent.js, agent-connection.js).
THEOREM RefusalsHaveReasons == Spec => []RefusedForAReason
<1>1. Init => KnownOK /\ RefusedForAReason
  BY InitKnown
<1>2. Inv /\ KnownOK /\ RefusedForAReason /\ [Next]_vars => (KnownOK /\ RefusedForAReason)'
  BY KnownStep, ReasonStep
<1> QED
  BY <1>1, <1>2, Invariance, PTL DEF Spec

-----------------------------------------------------------------------------
(* Routing implements Agency                                               *)

\* The sets of requests that Agency is instantiated with.
Pending == {r \in Requests : phase[r] \in Waiting /\ ~IsPerformed(r)}
Performed == {r \in Requests : IsPerformed(r)}
Answered == {r \in Requests : phase[r] = "ended" /\ answer[r].kind \notin Refusal}

PromisedStep == [Promised!Next]_Promised!vars

\* Agency has the names of Routing.
LEMMA PromisedNames ==
  /\ Promised!Fwa = Fwa /\ Promised!Agents = Agents /\ Promised!Conns = Conns
  /\ Promised!Entities = Entities
  /\ \A k : Promised!AgentFor(k) = AgentFor(k) /\ Promised!ConnFor(k) = ConnFor(k)
  BY DEF Promised!Fwa, Promised!Agents, Promised!Conns, Promised!Entities, Promised!AgentFor,
     Promised!ConnFor, Fwa, Agents, Conns, Entities, AgentFor, ConnFor

\* What becomes of the sets when a request goes on to another phase.
Moved(r, ph) ==
  /\ Pending' = IF ph \in Waiting \ {"row", "answering"} THEN Pending \cup {r}
                ELSE Pending \ {r}
  /\ Performed' = IF ph \in {"row", "answering"} THEN Performed \cup {r}
                  ELSE Performed \ {r}
  /\ Answered' = IF ph = "ended" /\ answer'[r].kind \notin Refusal
                 THEN Answered \cup {r} ELSE Answered \ {r}

LEMMA SetsMove ==
  ASSUME TypeOK, NEW r \in Requests, NEW ph, phase' = [phase EXCEPT ![r] = ph],
         \A s \in Requests : s # r => answer'[s] = answer[s]
  PROVE  Moved(r, ph)
<1>1. /\ phase'[r] = ph
      /\ \A s \in Requests : s # r => phase'[s] = phase[s]
  BY DEF TypeOK
<1>2. ASSUME NEW s \in Requests, s # r
      PROVE  /\ s \in Pending' <=> s \in Pending
             /\ s \in Performed' <=> s \in Performed
             /\ s \in Answered' <=> s \in Answered
  BY <1>1, <1>2 DEF Pending, Performed, Answered, IsPerformed
<1>3. /\ r \in Pending' <=> ph \in Waiting \ {"row", "answering"}
      /\ r \in Performed' <=> ph \in {"row", "answering"}
      /\ r \in Answered' <=> ph = "ended" /\ answer'[r].kind \notin Refusal
  BY <1>1 DEF Pending, Performed, Answered, IsPerformed, Waiting
<1>4. /\ Pending \subseteq Requests /\ Performed \subseteq Requests /\ Answered \subseteq Requests
      /\ Pending' \subseteq Requests /\ Performed' \subseteq Requests
      /\ Answered' \subseteq Requests
  BY DEF Pending, Performed, Answered
<1> QED
  BY <1>2, <1>3, <1>4 DEF Moved

LEMMA PromisedInit == Init => Promised!Init
<1> SUFFICES ASSUME Init PROVE Promised!Init
  OBVIOUS
<1>1. Pending = {} /\ Performed = {} /\ Answered = {}
  BY DEF Init, Pending, Performed, Answered, IsPerformed, Waiting
<1> QED
  BY <1>1, StartAssumption, PromisedNames DEF Init, Promised!Init, Pending, Performed, Answered

\* A request goes on, nothing is done yet: Agency does not see it.
LEMMA StepsOnTheWay ==
  ASSUME TypeOK, NEW r \in Requests, phase[r] \in Waiting \ {"row", "answering"},
         NEW ph \in Waiting \ {"row", "answering"}, Goes(r, ph),
         UNCHANGED <<sent, answer, ownerOf, agentOf, pairwise, webhook, storedAt, reviewed>>
  PROVE  PromisedStep
<1>1. r \in Pending /\ r \notin Performed /\ r \notin Answered
  BY DEF Pending, Performed, Answered, IsPerformed, Waiting
<1>2. Moved(r, ph)
  BY SetsMove DEF Goes
<1>3. UNCHANGED <<Pending, Performed, Answered>>
  BY <1>1, <1>2 DEF Moved, Waiting
<1> QED
  BY <1>3 DEF PromisedStep, Promised!vars, Promised!entityVars, Pending, Performed, Answered

\* A request ends with an error or with its process.
LEMMA StepsThatFail ==
  ASSUME TypeOK, NEW r \in Requests, phase[r] \in Waiting,
         \/ \E kind \in Refusal : Throw(r, kind)
         \/ Goes(r, "lost") /\ answer' = [answer EXCEPT ![r] = NoAnswer]
              /\ UNCHANGED <<sent, entityVars>>
  PROVE  PromisedStep
<1>1. r \in Pending \cup Performed /\ r \notin Answered
  BY DEF Pending, Performed, Answered, IsPerformed, Waiting
<1>2. PICK ph \in {"ended", "lost"} :
        /\ phase' = [phase EXCEPT ![r] = ph] /\ (ph = "ended" => answer'[r].kind \in Refusal)
        /\ \A s \in Requests : s # r => answer'[s] = answer[s]
        /\ UNCHANGED <<sent, entityVars>>
  BY DEF Throw, Goes, Response, TypeOK
<1>3. Moved(r, ph)
  BY <1>2, SetsMove
<1>4. Pending' = Pending \ {r} /\ Performed' = Performed \ {r} /\ Answered' = Answered
  BY <1>1, <1>2, <1>3 DEF Moved, Waiting
<1>5. Promised!Fail(r)
  BY <1>1, <1>2, <1>4
  DEF Promised!Fail, Promised!entityVars, entityVars, creationVars, Pending, Performed, Answered
<1> QED
  BY <1>5 DEF PromisedStep, Promised!Next

\* A request is performed: it changes what the promise allows for its opened envelope.
LEMMA StepsThatPerform ==
  ASSUME TypeOK, NEW r \in Requests, phase[r] \in Waiting \ {"row", "answering"},
         NEW ph \in {"row", "answering"}, Goes(r, ph),
         \A s \in Requests : s # r => answer'[s] = answer[s],
         sent' = sent, depth[r] \in 1..Len(sent[r]),
         \/ Promised!CreateAgent(Opened(r)) \/ Promised!CreateConnection(Opened(r))
         \/ Promised!SetWebhook(Opened(r)) \/ Promised!MarkReviewed(Opened(r))
         \/ Promised!Store(r, Opened(r))
         \/ Promised!Answerable(Opened(r)) /\ UNCHANGED Promised!entityVars
  PROVE  PromisedStep
<1>1. r \in Pending /\ r \notin Performed /\ r \notin Answered
  BY DEF Pending, Performed, Answered, IsPerformed, Waiting
<1>2. Moved(r, ph)
  BY SetsMove DEF Goes
<1>3. Pending' = Pending \ {r} /\ Performed' = Performed \cup {r} /\ Answered' = Answered
  BY <1>1, <1>2 DEF Moved, Waiting
<1>4. depth[r] \in DOMAIN sent[r] /\ Opened(r) = sent[r][depth[r]]
  BY DEF TypeOK, Opened
<1>5. Promised!Perform(r)
  BY <1>1, <1>3, <1>4 DEF Promised!Perform, Pending, Performed, Answered
<1> QED
  BY <1>5 DEF PromisedStep, Promised!Next

LEMMA CreationIsPromised ==
  ASSUME Inv, NEW r \in Requests, saveEntityRecord(r)
  PROVE  PromisedStep
<1> USE DEF Inv
<1>1. /\ At(r, "record") /\ Opened(r).to = Recipient(r) /\ CreationAccepted(r)
      /\ ownerOf[Created(r)] = NoOne /\ depth[r] \in 2..Len(sent[r]) /\ Len(sent[r]) \in Nat
  BY DEF saveEntityRecord, At, AcceptedOK, CreationOK, SentOK, TypeOK
<1>2. Opened(r).did \in Dids /\ Opened(r).key \in Keys /\ Opened(r).from \in Keys
  BY <1>1, CreatedIsEntity DEF At
<1>3. ASSUME Opened(r).type = "connect"
      PROVE  Promised!CreateAgent(Opened(r))
  <2>1. Created(r) = AgentFor(Opened(r).did) /\ Created(r) \notin Conns
    BY <1>2, <1>3, Names DEF Created
  <2> QED
    BY <1>1, <1>2, <1>3, <2>1, PromisedNames
    DEF saveEntityRecord, CreationAccepted, Promised!CreateAgent
<1>4. ASSUME Opened(r).type = "createKey"
      PROVE  Promised!CreateConnection(Opened(r))
  <2>1. Created(r) = ConnFor(Opened(r).did) /\ Created(r) \in Conns
    BY <1>2, <1>4, Names DEF Created
  <2> QED
    <3>1. /\ Recipient(r) \in Agents /\ Opened(r).from = ownerOf[Recipient(r)]
          /\ Opened(r).from # NoOne
      BY <1>1, <1>2, <1>4, NamesAssumption DEF CreationAccepted
    <3>2. /\ ownerOf' = [ownerOf EXCEPT ![ConnFor(Opened(r).did)] = Opened(r).from]
          /\ agentOf' = [agentOf EXCEPT ![ConnFor(Opened(r).did)] = Opened(r).to]
          /\ pairwise' = [pairwise EXCEPT ![ConnFor(Opened(r).did)] = Opened(r).key]
          /\ UNCHANGED <<webhook, storedAt, reviewed>>
      BY <1>1, <2>1 DEF saveEntityRecord
    <3> QED
      BY <1>1, <1>2, <1>4, <2>1, <3>1, <3>2, PromisedNames DEF Promised!CreateConnection
<1>5. Promised!CreateAgent(Opened(r)) \/ Promised!CreateConnection(Opened(r))
  BY <1>1, <1>3, <1>4 DEF CreationAccepted
<1>6. /\ depth[r] \in 1..Len(sent[r]) /\ phase[r] \in Waiting \ {"row", "answering"}
      /\ Goes(r, "row") /\ sent' = sent /\ answer' = answer
  BY <1>1 DEF saveEntityRecord, At, Waiting
<1> QED
  BY <1>5, <1>6, StepsThatPerform

\* The queries of handlers do what is promised for an authorised request.
LEMMA QueriesArePromised ==
  ASSUME Inv, NEW r \in Requests,
         \/ setAgentWebhook(r) \/ updateStatusCodeAgentConnection(r)
         \/ storeMessage(r) \/ loadMessages(r)
  PROVE  PromisedStep
<1> USE DEF Inv
<1>1. At(r, "query")
  BY DEF setAgentWebhook, updateStatusCodeAgentConnection, storeMessage, loadMessages
<1>2. /\ Opened(r).to = Recipient(r) /\ QueryAccepted(r)
      /\ depth[r] \in 2..Len(sent[r]) /\ Len(sent[r]) \in Nat
  BY <1>1 DEF At, AcceptedOK, SentOK, TypeOK
<1>3. depth[r] \in 1..Len(sent[r]) /\ Opened(r) \in Envelope
  BY <1>2, OpenedIsEnvelope
<1>4. ASSUME setAgentWebhook(r)
      PROVE  Promised!SetWebhook(Opened(r))
  <2>1. /\ Opened(r).type = "updateComMethod" /\ Recipient(r) \in Agents
        /\ Opened(r).from = ownerOf[Recipient(r)] /\ ownerOf[Recipient(r)] # NoOne
        /\ Opened(r).method = "2" /\ Opened(r).url \in Urls \cup {NoUrl}
    BY <1>2, <1>3, <1>4 DEF setAgentWebhook, QueryAccepted, isUpdate, Envelope
  <2> QED
    BY <1>2, <1>4, <2>1, PromisedNames DEF setAgentWebhook, Promised!SetWebhook
<1>5. ASSUME updateStatusCodeAgentConnection(r)
      PROVE  Promised!MarkReviewed(Opened(r))
  <2>1. /\ Opened(r).type = "updateMsgs" /\ Recipient(r) \in Agents
        /\ Opened(r).from = ownerOf[Recipient(r)] /\ ownerOf[Recipient(r)] # NoOne
        /\ Opened(r).list = "array"
    BY <1>2, <1>5 DEF updateStatusCodeAgentConnection, QueryAccepted, isUpdate
  <2>2. Opened(r).uids \cap MessagesOf(Recipient(r))
          = {m \in Opened(r).uids : storedAt[m] # NoOne /\ agentOf[storedAt[m]] = Recipient(r)}
    BY <1>3 DEF MessagesOf, Envelope
  <2> QED
    BY <1>2, <1>5, <2>1, <2>2, PromisedNames
    DEF updateStatusCodeAgentConnection, creationVars, Promised!MarkReviewed
<1>6. ASSUME storeMessage(r)
      PROVE  Promised!Store(r, Opened(r))
  BY <1>2, <1>6, PromisedNames
  DEF storeMessage, QueryAccepted, isUpdate, creationVars, Promised!Store
<1>7. ASSUME loadMessages(r)
      PROVE  Promised!Answerable(Opened(r)) /\ UNCHANGED Promised!entityVars
  <2>1. /\ Opened(r).type = "getMsgs" /\ Recipient(r) \in Conns
        /\ Opened(r).from = pairwise[Recipient(r)] /\ ownerOf[Recipient(r)] # NoOne
    BY <1>2, <1>7 DEF loadMessages, QueryAccepted, isUpdate
  <2>2. Opened(r).from # NoOne
    BY <2>1 DEF CreationOK
  <2> QED
    BY <1>2, <1>7, <2>1, <2>2, PromisedNames
    DEF loadMessages, entityVars, creationVars, Promised!Answerable, Promised!entityVars
<1>8. /\ phase[r] \in Waiting \ {"row", "answering"} /\ Goes(r, "answering") /\ sent' = sent
      /\ \A s \in Requests : s # r => answer'[s] = answer[s]
  BY <1>1 DEF setAgentWebhook, updateStatusCodeAgentConnection, storeMessage, loadMessages,
     Respond, TypeOK, At, Waiting
<1> QED
  BY <1>3, <1>4, <1>5, <1>6, <1>7, <1>8, StepsThatPerform

LEMMA StepImplements == Inv /\ [Next]_vars => PromisedStep
<1> SUFFICES ASSUME Inv, [Next]_vars PROVE PromisedStep
  OBVIOUS
<1> USE DEF Inv
<1>1. ASSUME NEW r \in Requests, NEW m \in Sendable[r], Send(r, m)
      PROVE  PromisedStep
  <2>1. r \notin Pending /\ r \notin Performed /\ r \notin Answered /\ sent[r] = << >>
    BY <1>1 DEF Send, At, Pending, Performed, Answered, IsPerformed, Waiting, SentOK
  <2>2. Moved(r, "received")
    BY <1>1, SetsMove DEF Send, Goes
  <2>3. /\ Pending' = Pending \cup {r} /\ Performed' = Performed /\ Answered' = Answered
    BY <2>1, <2>2 DEF Moved, Waiting
  <2>4. Promised!Send(r, m)
    BY <1>1, <2>1, <2>3
    DEF Send, Promised!Send, Promised!entityVars, entityVars, creationVars,
        Pending, Performed, Answered
  <2> QED
    BY <2>4 DEF PromisedStep, Promised!Next
<1>2. ASSUME NEW r \in Requests,
             \/ handleIncomingMessage(r) \/ handleAuthorizedFwdMessage(r)
             \/ handleMsgVcxV2Connect(r) \/ handleCreateKey(r) \/ handleUpdate(r)
             \/ handleAriesFwd(r) \/ handleGetMsgs(r) \/ createNewRawWalletForEntity(r)
             \/ loadEntityRecordByDidOrVerkey(r) \/ Refuse(r)
      PROVE  PromisedStep
  <2>1. phase[r] \in Waiting \ {"row", "answering"}
    BY <1>2 DEF handleIncomingMessage, handleAuthorizedFwdMessage, handleMsgVcxV2Connect,
       handleCreateKey, handleUpdate, handleAriesFwd, handleGetMsgs, createNewRawWalletForEntity,
       loadEntityRecordByDidOrVerkey, Refuse, Routed, At, Waiting
  <2>2. \/ Throw(r, "refused") \/ Throw(r, "typeError")
        \/ /\ Goes(r, "routing") \/ Goes(r, "wallet") \/ Goes(r, "query") \/ Goes(r, "record")
           /\ UNCHANGED <<sent, answer, ownerOf, agentOf, pairwise, webhook, storedAt, reviewed>>
    BY <1>2 DEF handleIncomingMessage, handleAuthorizedFwdMessage, handleMsgVcxV2Connect,
       handleCreateKey, handleUpdate, handleAriesFwd, handleGetMsgs, createNewRawWalletForEntity,
       loadEntityRecordByDidOrVerkey, Refuse, Forward, Continue, entityVars, creationVars
  <2>3. CASE Throw(r, "refused") \/ Throw(r, "typeError")
    BY <2>1, <2>3, StepsThatFail DEF Refusal
  <2> QED
    BY <2>1, <2>2, <2>3, StepsOnTheWay DEF Waiting
<1>3. ASSUME NEW r \in Requests, StepFails(r) \/ Crash(r)
      PROVE  PromisedStep
  BY <1>3, StepsThatFail DEF StepFails, Crash, Refusal
<1>4. ASSUME NEW r \in Requests, createRow(r)
      PROVE  PromisedStep
  <2>1. r \notin Pending /\ r \in Performed /\ r \notin Answered
    BY <1>4 DEF createRow, At, Pending, Performed, Answered, IsPerformed
  <2>2. \A s \in Requests : s # r => answer'[s] = answer[s]
    BY <1>4 DEF createRow, Respond, TypeOK
  <2>3. Moved(r, "answering")
    BY <1>4, <2>2, SetsMove DEF createRow, Respond, Goes
  <2>4. UNCHANGED <<Pending, Performed, Answered>>
    BY <2>1, <2>3 DEF Moved
  <2> QED
    BY <1>4, <2>4
    DEF createRow, Respond, PromisedStep, Promised!vars, Promised!entityVars,
        Pending, Performed, Answered
<1>5. ASSUME NEW r \in Requests, handleSignUpOrCreateAgent(r)
      PROVE  PromisedStep
  <2>1. /\ depth[r] \in 1..Len(sent[r]) /\ Opened(r).to = Recipient(r)
        /\ Opened(r).from = ownerOf[Recipient(r)] /\ ownerOf[Recipient(r)] # NoOne
        /\ Opened(r).type \in {"signUp", "createAgent"}
    BY <1>5, Names DEF handleSignUpOrCreateAgent, Routed, isResolved, isAuthorized, unpack
  <2>2. Promised!Answerable(Opened(r)) /\ UNCHANGED Promised!entityVars
    BY <1>5, <2>1
    DEF handleSignUpOrCreateAgent, entityVars, creationVars, Promised!Answerable,
        Promised!entityVars
  <2>3. /\ phase[r] \in Waiting \ {"row", "answering"} /\ Goes(r, "answering") /\ sent' = sent
        /\ \A s \in Requests : s # r => answer'[s] = answer[s]
    BY <1>5 DEF handleSignUpOrCreateAgent, Routed, Respond, At, Waiting, TypeOK
  <2> QED
    BY <2>1, <2>2, <2>3, StepsThatPerform
<1>6. ASSUME NEW r \in Requests, Answers(r)
      PROVE  PromisedStep
  <2>1. r \notin Pending /\ r \in Performed /\ answer'[r].kind \notin Refusal
    BY <1>6 DEF Answers, At, Pending, Performed, IsPerformed, AnswerOK
  <2>2. Moved(r, "ended")
    BY <1>6, SetsMove DEF Answers, Goes
  <2>3. /\ Pending' = Pending /\ Performed' = Performed \ {r} /\ Answered' = Answered \cup {r}
    BY <2>1, <2>2 DEF Moved, Waiting
  <2>4. Promised!Answer(r)
    BY <1>6, <2>1, <2>3
    DEF Answers, Promised!Answer, Promised!entityVars, entityVars, creationVars,
        Pending, Performed, Answered
  <2> QED
    BY <2>4 DEF PromisedStep, Promised!Next
<1>7. CASE UNCHANGED vars
  <2>1. UNCHANGED <<Pending, Performed, Answered>>
    BY <1>7 DEF vars, requestVars, Pending, Performed, Answered, IsPerformed
  <2> QED
    BY <1>7, <2>1
    DEF vars, requestVars, entityVars, creationVars, PromisedStep, Promised!vars,
        Promised!entityVars, Pending, Performed, Answered
<1> QED
  BY <1>1, <1>2, <1>3, <1>4, <1>5, <1>6, <1>7, CreationIsPromised, QueriesArePromised
  DEF Next, Step

\* The agency keeps its promise for any number of requests, nested as they may be: each is
\* performed at most once, for one with the right to it, and answered only after that
\* (router.js, entity-fwa.js, agent.js, agent-connection.js).
THEOREM Implementation == Spec => ImplementsAgency
<1>1. Init => Promised!Init
  BY PromisedInit
<1>2. Inv /\ [Next]_vars => [Promised!Next]_Promised!vars
  BY StepImplements DEF PromisedStep
<1> QED
  BY <1>1, <1>2, Invariance, PTL DEF Spec, ImplementsAgency
=============================================================================
