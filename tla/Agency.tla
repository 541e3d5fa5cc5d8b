------------------------------- MODULE Agency -------------------------------
(***************************************************************************)
(* What an agency promises to the clients that send it messages, without   *)
(* forwarding, look-ups and answers on their way.  A request is performed  *)
(* at most once.  It changes one thing, of the entity it is packed for,    *)
(* and that only if the one who packed it has the right to it.  It is      *)
(* answered with a result only if it was performed.                        *)
(***************************************************************************)
EXTENDS ClientMessages

VARIABLES
  sent,       \* [Requests -> Seq(Envelope)]: << >> until it is sent
  pending,    \* requests that are neither performed nor ended
  performed,  \* requests that are performed and not ended
  answered,   \* requests answered with a result
  ownerOf,    \* [Entities -> Keys or NoOne]: whose an entity is, once it exists
  agentOf,    \* [Conns -> Agents or NoOne]: the agent of a connection
  pairwise,   \* [Conns -> Keys or NoOne]: the verkey that reads at a connection
  webhook,    \* [Agents -> Urls or NoUrl]
  storedAt,   \* [Requests -> Conns or NoOne]: where a forwarded message is stored
  reviewed    \* messages marked as reviewed

entityVars == <<ownerOf, agentOf, pairwise, webhook, storedAt, reviewed>>
vars == <<sent, pending, performed, answered, entityVars>>

\* An earlier run of the agency has left entities; they have no messages.
Init ==
  /\ sent = [r \in Requests |-> << >>]
  /\ pending = {} /\ performed = {} /\ answered = {}
  /\ ownerOf \in [Entities -> Keys \cup {NoOne}]
  /\ agentOf \in [Conns -> Agents \cup {NoOne}]
  /\ pairwise \in [Conns -> Keys \cup {NoOne}]
  /\ webhook = [a \in Agents |-> NoUrl]
  /\ storedAt = [r \in Requests |-> NoOne]
  /\ reviewed = {}

Send(r, m) ==
  /\ sent[r] = << >>
  /\ sent' = [sent EXCEPT ![r] = m]
  /\ pending' = pending \cup {r}
  /\ UNCHANGED <<performed, answered, entityVars>>

\* The first to connect for a DID becomes the owner of its agent, with the verkey that has
\* packed the message.  That the DID belongs to that verkey is not promised.
CreateAgent(e) ==
  /\ e.type = "connect" /\ e.to = Fwa /\ e.did \in Dids
  /\ e.key \in Keys /\ e.from = e.key
  /\ ownerOf[AgentFor(e.did)] = NoOne
  /\ ownerOf' = [ownerOf EXCEPT ![AgentFor(e.did)] = e.from]
  /\ UNCHANGED <<agentOf, pairwise, webhook, storedAt, reviewed>>

\* A connection that did not exist is created for an agent by the agent's owner, who says
\* for which DID and which verkey.
CreateConnection(e) ==
  /\ e.type = "createKey" /\ e.to \in Agents /\ e.did \in Dids /\ e.key \in Keys
  /\ e.from # NoOne /\ e.from = ownerOf[e.to]
  /\ ownerOf[ConnFor(e.did)] = NoOne
  /\ ownerOf' = [ownerOf EXCEPT ![ConnFor(e.did)] = e.from]
  /\ agentOf' = [agentOf EXCEPT ![ConnFor(e.did)] = e.to]
  /\ pairwise' = [pairwise EXCEPT ![ConnFor(e.did)] = e.key]
  /\ UNCHANGED <<webhook, storedAt, reviewed>>

\* A webhook is empty or an url of http or https.
SetWebhook(e) ==
  /\ e.type = "updateComMethod" /\ e.to \in Agents
  /\ e.from # NoOne /\ e.from = ownerOf[e.to]
  /\ e.method = "2" /\ e.url \in Urls \cup {NoUrl}
  /\ webhook' = [webhook EXCEPT ![e.to] = e.url]
  /\ UNCHANGED <<ownerOf, agentOf, pairwise, storedAt, reviewed>>

\* Only messages of the agent's own connections are marked.
MarkReviewed(e) ==
  /\ e.type = "updateMsgs" /\ e.to \in Agents /\ e.list = "array"
  /\ e.from # NoOne /\ e.from = ownerOf[e.to]
  /\ reviewed' = reviewed \cup
       {m \in e.uids : storedAt[m] # NoOne /\ agentOf[storedAt[m]] = e.to}
  /\ UNCHANGED <<ownerOf, agentOf, pairwise, webhook, storedAt>>

\* Whoever knows the verkey of a connection may leave a message there.
Store(r, e) ==
  /\ e.type = "ariesFwd" /\ e.to \in Conns /\ ownerOf[e.to] # NoOne
  /\ storedAt' = [storedAt EXCEPT ![r] = e.to]
  /\ UNCHANGED <<ownerOf, agentOf, pairwise, webhook, reviewed>>

\* Only the owner talks to an agent, only the holder of the pairwise key reads.
Answerable(e) ==
  \/ e.type \in {"signUp", "createAgent"} /\ e.from # NoOne /\ e.from = ownerOf[e.to]
  \/ /\ e.type = "getMsgs" /\ e.to \in Conns /\ ownerOf[e.to] # NoOne
     /\ e.from # NoOne /\ e.from = pairwise[e.to]

Perform(r) ==
  /\ r \in pending
  /\ \E i \in DOMAIN sent[r] :
       LET e == sent[r][i] IN
         \/ CreateAgent(e) \/ CreateConnection(e)
         \/ SetWebhook(e) \/ MarkReviewed(e) \/ Store(r, e)
         \/ Answerable(e) /\ UNCHANGED entityVars
  /\ pending' = pending \ {r} /\ performed' = performed \cup {r}
  /\ UNCHANGED <<sent, answered>>

Answer(r) ==
  /\ r \in performed
  /\ performed' = performed \ {r} /\ answered' = answered \cup {r}
  /\ UNCHANGED <<sent, pending, entityVars>>

\* It ends with an error, or with the connection lost, performed or not.
Fail(r) ==
  /\ r \in pending \cup performed
  /\ pending' = pending \ {r} /\ performed' = performed \ {r}
  /\ UNCHANGED <<sent, answered, entityVars>>

Next ==
  \E r \in Requests :
    \/ \E m \in Sendable[r] : Send(r, m)
    \/ Perform(r) \/ Answer(r) \/ Fail(r)

Spec == Init /\ [][Next]_vars
=============================================================================
