------------------------------ MODULE Routing ------------------------------
(***************************************************************************)
(* The way of a request through an agency: POST /agency/msg                *)
(* (api-messaging.js), the forward agent that opens the outer envelope     *)
(* (entity-fwa.js), the router and the resolver that look up its recipient *)
(* (router.js, resolver.js), and the agents and agent connections that     *)
(* open the next one, forward it on or act on it (agent.js,                *)
(* agent-connection.js).  Each await, at which other requests run, a step  *)
(* may fail or the process may die, ends a step of the model.              *)
(*                                                                         *)
(* Wallets and tables are kept as far as routing and authorisation depend  *)
(* on them: Onboarding has the creation of an entity in detail, Mailbox    *)
(* what becomes of a stored message.  The storage of wallets is assumed to *)
(* refuse a second wallet of a name, which the schema of the repository    *)
(* does not say (setup/create.sql:14-19): Onboarding also has the other    *)
(* case, in which the second entity gets another DID than the first.       *)
(***************************************************************************)
EXTENDS ClientMessages

CONSTANTS
  OwnerAtStart,  \* [Entities -> Keys or NoOne]: the owners of existing entities
  AgentAtStart,  \* [Conns -> Agents or NoOne]: the agents of existing connections
  PairwiseAtStart,  \* [Conns -> Keys or NoOne]: the verkeys they were created for
  Strangers,     \* DIDs that no client uses; nothing is ever created for them
  MaxFailures    \* bound: steps that fail, and processes that die

ASSUME StartAssumption ==
  /\ OwnerAtStart \in [Entities -> Keys \cup {NoOne}]
  /\ AgentAtStart \in [Conns -> Agents \cup {NoOne}]
  /\ PairwiseAtStart \in [Conns -> Keys \cup {NoOne}]
  /\ OwnerAtStart[Fwa] = NoOne
  /\ \A c \in Conns :
       IF OwnerAtStart[c] = NoOne THEN AgentAtStart[c] = NoOne /\ PairwiseAtStart[c] = NoOne
       ELSE /\ AgentAtStart[c] # NoOne /\ PairwiseAtStart[c] # NoOne
            /\ OwnerAtStart[c] = OwnerAtStart[AgentAtStart[c]]

ASSUME StrangersAssumption ==
  /\ Strangers \subseteq Dids
  /\ \A d \in Strangers : OwnerAtStart[AgentFor(d)] = NoOne /\ OwnerAtStart[ConnFor(d)] = NoOne
  /\ \A r \in Requests : \A m \in Sendable[r] : \A i \in 1..Len(m) :
       m[i].type \in {"connect", "createKey"} => m[i].did \notin Strangers

ASSUME BoundAssumption == MaxFailures \in Nat

VARIABLES
  sent,      \* [Requests -> Seq(Envelope)]: << >> until it is sent
  depth,     \* [Requests -> Nat]: the envelope to be opened next, or the last opened
  phase,     \* [Requests -> Phase]: what a request waits for
  answer,    \* [Requests -> Answer]
  wallets,   \* entities whose wallet exists
  ownerOf,   \* [Entities -> Keys or NoOne]: ownerVerkey in the record of an entity
  agentOf,   \* [Conns -> Agents or NoOne]: agentDid in the record of a connection
  pairwise,  \* [Conns -> Keys or NoOne]: userPairwiseVerkey in that record
  rows,      \* entities with a row in agents or agent_connections
  webhook,   \* [Agents -> Urls or NoUrl]
  storedAt,  \* [Requests -> Conns or NoOne]: where a forwarded message is stored
  reviewed,  \* messages marked as reviewed
  failures   \* how much of the bound is used

requestVars == <<sent, depth, phase, answer>>
creationVars == <<wallets, rows, ownerOf, agentOf, pairwise>>
entityVars == <<creationVars, webhook, storedAt, reviewed>>
vars == <<requestVars, entityVars, failures>>

Waiting == {"received", "routing", "wallet", "record", "row", "query", "answering"}
Phase == Waiting \cup {"idle", "ended", "lost"}
Refusal == {"typeError", "refused", "failed"}
Kind == Refusal \cup {"none", "connected", "signedUp", "agentCreated", "keyCreated",
                      "comMethodUpdated", "statusUpdated", "msgs", "stored"}

\* What is answered, whose verkey it is packed for, and which messages it contains.
Answer == [kind : Kind, for : Keys \cup {NoOne}, msgs : SUBSET Requests]
Response(kind, for, msgs) == [kind |-> kind, for |-> for, msgs |-> msgs]
NoAnswer == Response("none", NoOne, {})

TypeOK ==
  /\ sent \in [Requests -> Seq(Envelope)]
  /\ depth \in [Requests -> Nat]
  /\ phase \in [Requests -> Phase]
  /\ answer \in [Requests -> Answer]
  /\ wallets \in SUBSET Entities /\ rows \in SUBSET Entities
  /\ ownerOf \in [Entities -> Keys \cup {NoOne}]
  /\ agentOf \in [Conns -> Agents \cup {NoOne}]
  /\ pairwise \in [Conns -> Keys \cup {NoOne}]
  /\ webhook \in [Agents -> Urls \cup {NoUrl}]
  /\ storedAt \in [Requests -> Conns \cup {NoOne}]
  /\ reviewed \in SUBSET Requests
  /\ failures \in Nat

Init ==
  /\ sent = [r \in Requests |-> << >>]
  /\ depth = [r \in Requests |-> 1]
  /\ phase = [r \in Requests |-> "idle"]
  /\ answer = [r \in Requests |-> NoAnswer]
  /\ ownerOf = OwnerAtStart /\ agentOf = AgentAtStart /\ pairwise = PairwiseAtStart
  /\ wallets = {e \in Entities : OwnerAtStart[e] # NoOne} /\ rows = wallets
  /\ webhook = [a \in Agents |-> NoUrl]
  /\ storedAt = [r \in Requests |-> NoOne]
  /\ reviewed = {}
  /\ failures = 0

At(r, ph) == phase[r] = ph
Goes(r, ph) == phase' = [phase EXCEPT ![r] = ph]

Opened(r) == sent[r][depth[r]]
Recipient(r) == IF depth[r] = 1 THEN Fwa ELSE sent[r][depth[r] - 1].fwd

\* The recipient has the key that the next envelope is packed for.
unpack(r) == depth[r] \in 1..Len(sent[r]) /\ Opened(r).to = Recipient(r)

\* @fwd and @msg are there.
isForwardable(r) == Opened(r).fwd # NoOne /\ depth[r] < Len(sent[r])

\* Faulty: what goes on to the next recipient is what came, not what was in it.
forwardsWhatCame(r) ==
  /\ Goes(r, "routing")
  /\ UNCHANGED <<sent, depth, answer, entityVars, failures>>

\* The request goes on to the recipient named in the opened envelope.
Forward(r) ==
  /\ depth' = [depth EXCEPT ![r] = @ + 1]
  /\ Goes(r, "routing")
  /\ UNCHANGED <<sent, answer, entityVars, failures>>

\* The handler has opened the envelope and waits for wallet, redis or MySQL.
Continue(r, ph) ==
  /\ Goes(r, ph)
  /\ UNCHANGED <<sent, depth, answer, entityVars, failures>>

\* The handler has a response, which is packed next.
Respond(r, response) ==
  /\ Goes(r, "answering")
  /\ answer' = [answer EXCEPT ![r] = response]
  /\ UNCHANGED <<sent, depth, failures>>

\* An error, whatever handler throws it, ends in the catch of handleIncomingMessage.
Throw(r, kind) ==
  /\ Goes(r, "ended")
  /\ answer' = [answer EXCEPT ![r] = Response(kind, NoOne, {})]
  /\ UNCHANGED <<sent, depth, entityVars>>

-----------------------------------------------------------------------------
(* Clients                                                                 *)

\* DIDs are random: a client only knows those of entities it was told of, whose
\* creation is complete, or DIDs that nobody has.
IsKnown(e) == e \in rows \cup {Fwa, NoOne} \/ \E d \in Strangers : e \in {AgentFor(d), ConnFor(d)}

Send(r, m) ==
  /\ At(r, "idle")
  /\ \A i \in 1..Len(m) : IsKnown(m[i].to) /\ IsKnown(m[i].fwd)
  /\ sent' = [sent EXCEPT ![r] = m]
  /\ Goes(r, "received")
  /\ UNCHANGED <<depth, answer, entityVars, failures>>

-----------------------------------------------------------------------------
(* api-messaging.js, router.js, resolver.js                                *)

\* The outer envelope is anoncrypted, and its content a forward of either kind.
isForward(r) == unpack(r) /\ Opened(r).type \in {"fwd", "ariesFwd"} /\ isForwardable(r)

handleIncomingMessage(r) ==
  /\ At(r, "received")
  /\ IF isForward(r) THEN Forward(r) ELSE Throw(r, "refused") /\ UNCHANGED failures

\* The SELECT of the resolver finds a record, or the recipient is the forward agent.
isResolved(r) == Recipient(r) = Fwa \/ ownerOf[Recipient(r)] # NoOne

\* The record of a row that is not there is read, which throws a TypeError before
\* resolver or router can find that there is no recipient.
loadEntityRecordByDidOrVerkey(r) ==
  /\ At(r, "routing") /\ ~isResolved(r)
  /\ Throw(r, "typeError") /\ UNCHANGED failures

\* The recipient handles the routed message.
Routed(r, recipients) == At(r, "routing") /\ isResolved(r) /\ Recipient(r) \in recipients

-----------------------------------------------------------------------------
(* entity-fwa.js                                                           *)

\* Whatever is authcrypted for the forward agent is taken for a Connect.  Its verkey is that
\* of the sender; its DID is not looked at.
isConnect(r) ==
  /\ unpack(r)
  /\ Opened(r).type = "connect" /\ Opened(r).did # NoOne /\ Opened(r).key # NoOne
  /\ Opened(r).key = Opened(r).from

handleMsgVcxV2Connect(r) == Routed(r, {Fwa}) /\ isConnect(r) /\ Continue(r, "wallet")

-----------------------------------------------------------------------------
(* agent.js                                                                *)

\* Faulty: whoever can pack a message for an agent talks to it.
isReadable(r) == unpack(r)

\* Only the owner talks to an agent, whatever about.
isAuthorized(r) == unpack(r) /\ Opened(r).from = ownerOf[Recipient(r)]

\* Faulty: the message is routed as it came, with its envelope.
routesTheEnvelope(r) ==
  /\ Routed(r, Agents)
  /\ isAuthorized(r) /\ Opened(r).type = "fwd" /\ isForwardable(r)
  /\ Continue(r, "routing")

handleAuthorizedFwdMessage(r) ==
  /\ Routed(r, Agents)
  /\ isAuthorized(r) /\ Opened(r).type = "fwd" /\ isForwardable(r)
  /\ Forward(r)

handleSignUpOrCreateAgent(r) ==
  /\ Routed(r, Agents)
  /\ isAuthorized(r)
  /\ \E t \in {<<"signUp", "signedUp">>, <<"createAgent", "agentCreated">>} :
       Opened(r).type = t[1] /\ Respond(r, Response(t[2], Opened(r).from, {}))
  /\ UNCHANGED entityVars

handleCreateKey(r) ==
  /\ Routed(r, Agents)
  /\ isAuthorized(r) /\ Opened(r).type = "createKey"
  /\ Continue(r, "wallet")

\* Only a webhook can be set, to an url of http or https or to none.  Without a list of uids
\* the handler has no response, and to pack that is an error.
isUpdate(r) ==
  \/ /\ Opened(r).type = "updateComMethod"
     /\ Opened(r).method = "2" /\ Opened(r).url # BadUrl
  \/ Opened(r).type = "updateMsgs" /\ Opened(r).list = "array"

handleUpdate(r) ==
  /\ Routed(r, Agents)
  /\ isAuthorized(r) /\ isUpdate(r)
  /\ Continue(r, "query")

-----------------------------------------------------------------------------
(* agent-connection.js                                                     *)

\* Whoever sends it, a forward is stored; its field `to' is not looked at.
handleAriesFwd(r) ==
  /\ Routed(r, Conns)
  /\ unpack(r) /\ Opened(r).type = "ariesFwd"
  /\ Continue(r, "query")

\* Faulty: the owner's verkey is expected.
isFromOwner(r) == unpack(r) /\ Opened(r).from = ownerOf[Recipient(r)]

\* Anything else must come from the verkey that the connection was created for.
isAuthorizedPairwise(r) == unpack(r) /\ Opened(r).from = pairwise[Recipient(r)]

handleGetMsgs(r) ==
  /\ Routed(r, Conns)
  /\ isAuthorizedPairwise(r) /\ Opened(r).type = "getMsgs"
  /\ Continue(r, "query")

\* What no handler accepts.
Accepted(r) ==
  \/ Recipient(r) = Fwa /\ isConnect(r)
  \/ /\ Recipient(r) \in Agents /\ isAuthorized(r)
     /\ \/ Opened(r).type \in {"signUp", "createAgent", "createKey"} \/ isUpdate(r)
        \/ Opened(r).type = "fwd" /\ isForwardable(r)
  \/ /\ Recipient(r) \in Conns
     /\ \/ unpack(r) /\ Opened(r).type = "ariesFwd"
        \/ isAuthorizedPairwise(r) /\ Opened(r).type = "getMsgs"

Refuse(r) ==
  /\ Routed(r, Entities) /\ ~Accepted(r)
  /\ Throw(r, "refused") /\ UNCHANGED failures

-----------------------------------------------------------------------------
(* Creation of an entity                                                   *)

Created(r) ==
  IF Opened(r).type = "connect" THEN AgentFor(Opened(r).did) ELSE ConnFor(Opened(r).did)

\* The wallet is created with a new key, so a wallet of that name must not exist.
createNewRawWalletForEntity(r) ==
  /\ At(r, "wallet")
  /\ \/ /\ Created(r) \notin wallets
        /\ wallets' = wallets \cup {Created(r)}
        /\ Goes(r, "record")
        /\ UNCHANGED <<sent, depth, answer, rows, ownerOf, agentOf, pairwise, webhook,
                       storedAt, reviewed, failures>>
     \/ Created(r) \in wallets /\ Throw(r, "refused") /\ UNCHANGED failures

\* A connection gets the owner of the agent that creates it, who has sent the CreateKey, and
\* the pairwise verkey that the owner has given.
saveEntityRecord(r) ==
  /\ At(r, "record")
  /\ ownerOf' = [ownerOf EXCEPT ![Created(r)] = Opened(r).from]
  /\ IF Created(r) \in Conns
     THEN /\ agentOf' = [agentOf EXCEPT ![Created(r)] = Recipient(r)]
          /\ pairwise' = [pairwise EXCEPT ![Created(r)] = Opened(r).key]
     ELSE UNCHANGED <<agentOf, pairwise>>
  /\ Goes(r, "row")
  /\ UNCHANGED <<sent, depth, answer, wallets, rows, webhook, storedAt, reviewed, failures>>

\* createAgentRecord or linkAgentToItsConnection, then the answer for the sender.  The row
\* is not there yet: nobody knows the DID of the new entity.
createRow(r) ==
  /\ At(r, "row")
  /\ rows' = rows \cup {Created(r)}
  /\ Respond(r, Response(IF Created(r) \in Agents THEN "connected" ELSE "keyCreated",
                         Opened(r).from, {}))
  /\ UNCHANGED <<wallets, ownerOf, agentOf, pairwise, webhook, storedAt, reviewed>>

-----------------------------------------------------------------------------
(* storage.js                                                              *)

\* An INSERT, or the UPDATE of the row that is there already.
setAgentWebhook(r) ==
  /\ At(r, "query") /\ Opened(r).type = "updateComMethod"
  /\ webhook' = [webhook EXCEPT ![Recipient(r)] = Opened(r).url]
  /\ rows' = rows \cup {Recipient(r)}
  /\ Respond(r, Response("comMethodUpdated", Opened(r).from, {}))
  /\ UNCHANGED <<wallets, ownerOf, agentOf, pairwise, storedAt, reviewed>>

MessagesOf(agent) == {m \in Requests : storedAt[m] # NoOne /\ agentOf[storedAt[m]] = agent}

\* The uids may be of any connection of the agent; without uids nothing is updated.
updateStatusCodeAgentConnection(r) ==
  /\ At(r, "query") /\ Opened(r).type = "updateMsgs"
  /\ reviewed' = reviewed \cup (Opened(r).uids \cap MessagesOf(Recipient(r)))
  /\ Respond(r, Response("statusUpdated", Opened(r).from, {}))
  /\ UNCHANGED <<creationVars, webhook, storedAt>>

\* What follows, the flags and the webhook, is not awaited (Mailbox).
storeMessage(r) ==
  /\ At(r, "query") /\ Opened(r).type = "ariesFwd"
  /\ storedAt' = [storedAt EXCEPT ![r] = Recipient(r)]
  /\ Respond(r, Response("stored", NoOne, {}))
  /\ UNCHANGED <<creationVars, webhook, reviewed>>

\* An empty filter is none.
filter(messages, uids) == IF uids = {} THEN messages ELSE messages \cap uids

\* Faulty: the messages are packed for the sender of the request.
answersSender(r) ==
  /\ At(r, "query") /\ Opened(r).type = "getMsgs"
  /\ LET here == {m \in MessagesOf(agentOf[Recipient(r)]) : storedAt[m] = Recipient(r)} IN
       Respond(r, Response("msgs", Opened(r).from, filter(here, Opened(r).uids)))
  /\ UNCHANGED entityVars

\* The answer is for the owner, whose verkey is not the one that has sent the request.
loadMessages(r) ==
  /\ At(r, "query") /\ Opened(r).type = "getMsgs"
  /\ LET here == {m \in MessagesOf(agentOf[Recipient(r)]) : storedAt[m] = Recipient(r)} IN
       Respond(r, Response("msgs", ownerOf[Recipient(r)], filter(here, Opened(r).uids)))
  /\ UNCHANGED entityVars

-----------------------------------------------------------------------------
\* The response is packed and goes back through the handlers as it is.
Answers(r) ==
  /\ At(r, "answering")
  /\ Goes(r, "ended")
  /\ UNCHANGED <<sent, depth, answer, entityVars, failures>>

\* An await is rejected, also the packing of the response of what is done already.
StepFails(r) ==
  /\ phase[r] \in Waiting /\ failures < MaxFailures
  /\ Throw(r, "failed")
  /\ failures' = failures + 1

\* The process that serves a request dies, and the client gets no answer.
Crash(r) ==
  /\ phase[r] \in Waiting /\ failures < MaxFailures
  /\ Goes(r, "lost")
  /\ answer' = [answer EXCEPT ![r] = NoAnswer]
  /\ failures' = failures + 1
  /\ UNCHANGED <<sent, depth, entityVars>>

Step(r) ==
  \/ handleIncomingMessage(r) \/ loadEntityRecordByDidOrVerkey(r)
  \/ handleMsgVcxV2Connect(r)
  \/ handleAuthorizedFwdMessage(r) \/ handleSignUpOrCreateAgent(r)
  \/ handleCreateKey(r) \/ handleUpdate(r)
  \/ handleAriesFwd(r) \/ handleGetMsgs(r)
  \/ Refuse(r)
  \/ createNewRawWalletForEntity(r) \/ saveEntityRecord(r) \/ createRow(r)
  \/ setAgentWebhook(r) \/ updateStatusCodeAgentConnection(r)
  \/ storeMessage(r) \/ loadMessages(r)
  \/ Answers(r)

Next ==
  \E r \in Requests :
    \/ \E m \in Sendable[r] : Send(r, m)
    \/ Step(r) \/ StepFails(r) \/ Crash(r)

Spec == Init /\ [][Next]_vars /\ \A r \in Requests : WF_vars(Step(r))

-----------------------------------------------------------------------------
(* Properties                                                              *)

\* A request that has its entry in the database, or its answer ready, is performed.
IsPerformed(r) == phase[r] \in {"row", "answering"}

Promised == INSTANCE Agency WITH
  pending <- {r \in Requests : phase[r] \in Waiting /\ ~IsPerformed(r)},
  performed <- {r \in Requests : IsPerformed(r)},
  answered <- {r \in Requests : phase[r] = "ended" /\ answer[r].kind \notin Refusal}

\* Whatever way a message takes, it changes at most what it may change, once, and is
\* answered with a result only after that (entity-fwa.js, agent.js, agent-connection.js).
ImplementsAgency == Promised!Init /\ [][Promised!Next]_Promised!vars

\* A client gets messages only in an answer packed for the owner of the connection
\* they are stored at, and each of them was packed for that connection by its sender
\* (agent-connection.js:118-127, storage.js:165-186).
MessagesReachOwners ==
  \A r \in Requests : \A m \in answer[r].msgs :
    /\ storedAt[m] # NoOne /\ ownerOf[storedAt[m]] = answer[r].for
    /\ \E i \in 1..Len(sent[m]) : sent[m][i].to = storedAt[m] /\ sent[m][i].type = "ariesFwd"

\* An envelope is sent by the one its recipient listens to, is of a type it knows and has
\* what that type asks for: a Connect its DID and verkey, an update a webhook or a list.
IsProper(e) ==
  \/ e.to = Fwa /\ e.type = "connect" /\ e.did # NoOne /\ e.from = e.key /\ e.from # NoOne
  \/ /\ e.to \in Agents /\ e.from = ownerOf[e.to] /\ e.from # NoOne
     /\ e.type \notin {"ariesFwd", "connect", "getMsgs", "unknown"}
     /\ e.type = "updateComMethod" => e.method = "2" /\ e.url # BadUrl
     /\ e.type = "updateMsgs" => e.list = "array"
  \/ e.to \in Conns /\ ownerOf[e.to] # NoOne /\ e.type = "ariesFwd"
  \/ e.to \in Conns /\ ownerOf[e.to] # NoOne /\ e.type = "getMsgs" /\ e.from = pairwise[e.to]

\* A message is properly addressed when each envelope is sent to the one it is packed for:
\* the outer one is a forward to the agency, and no forward is empty.
IsAddressed(m) ==
  /\ m[1].to = Fwa /\ m[1].type \in {"fwd", "ariesFwd"}
  /\ Len(m) > 1 /\ m[Len(m)].type # "fwd"
  /\ \A i \in 2..Len(m) : m[i - 1].fwd = m[i].to

\* What an envelope asks to create is there, or its creation has begun.
IsTaken(e) ==
  \/ e.type = "connect" /\ AgentFor(e.did) \in wallets
  \/ e.type = "createKey" /\ ConnFor(e.did) \in wallets

\* A request is only refused for a reason: it is not what its recipients listen to, lacks
\* what its type asks for, or what it creates exists already (entity-fwa.js:82-121,
\* agent.js:106-168, 183-210, 252-263, agent-connection.js:129-160).  A failure on the way
\* is not a refusal.
RefusedForAReason ==
  \A r \in Requests : answer[r].kind \in {"typeError", "refused"} =>
    \/ ~IsAddressed(sent[r])
    \/ \E i \in 2..Len(sent[r]) : ~IsProper(sent[r][i]) \/ IsTaken(sent[r][i])

\* Every request is answered, unless the process that serves it dies: no forward goes
\* round in circles (router.js:27-34, entity-fwa.js:130-164).
EveryRequestEnds == \A r \in Requests : At(r, "received") ~> phase[r] \in {"ended", "lost"}

\* How many steps a request has before it at most: an envelope is opened in each of the
\* first ones, and creation takes longest of what may follow.
StepsLeft(r) ==
  CASE phase[r] \in {"received", "routing"} -> Len(sent[r]) - depth[r] + 5
    [] At(r, "wallet")                     -> 4
    [] At(r, "record")                     -> 3
    [] phase[r] \in {"row", "query"}        -> 2
    [] At(r, "answering")                  -> 1
    [] OTHER                               -> 0

\* No step takes a request back, neither its own nor those of requests that are served
\* meanwhile, and it runs out of steps: however its envelopes are nested and whomever they
\* name, no message keeps an agency busy for ever (router.js:27-34, agent.js:170-180).
EveryStepCounts ==
  [][\A r \in Requests :
       phase[r] \in Waiting =>
         /\ StepsLeft(r)' \in 0..StepsLeft(r)
         /\ Step(r) => StepsLeft(r)' # StepsLeft(r)]_vars

\* A recipient that nobody has is reported as such: the look-up of its record yields
\* `undefined' (storage.js:212-213) and the router throws `Recipient not found.'
\* (router.js:31), so that a request never ends in a TypeError.
UnknownIsNotFound == \A r \in Requests : answer[r].kind # "typeError"
=============================================================================
