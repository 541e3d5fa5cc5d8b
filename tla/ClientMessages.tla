--------------------------- MODULE ClientMessages ---------------------------
(***************************************************************************)
(* The messages clients send to an agency (agency-flows.js).  A message is *)
(* a sequence of envelopes, the outermost first: every envelope but the    *)
(* last is a forward that names the recipient of what is packed in it.     *)
(*                                                                         *)
(* An entity is named by its kind and the DID that its creator has given,  *)
(* as its wallet is, and addressed by that name: its own DID and verkey,   *)
(* which it makes itself, reach the same recipient.  A client sets the DID *)
(* and the verkey in a message as it likes, the one need not belong to the *)
(* other.                                                                  *)
(***************************************************************************)
EXTENDS Naturals, Sequences

CONSTANTS
  Dids,         \* DIDs that clients give: of owners, and pairwise ones
  Keys,         \* verkeys of clients, also of either sort
  NoOne,        \* no sender (anoncrypted), no recipient, no DID, no key
  Requests,     \* requests to the agency; a stored message has the uid of its request
  Urls, NoUrl,  \* webhook urls of http or https, and the empty one
  BadUrl,       \* any other value of a webhook, a string or not
  Sendable      \* [Requests -> set of messages]: what a request of an instance may be

ASSUME NamesAssumption == /\ NoOne \notin Keys /\ NoOne \notin Dids
                          /\ NoUrl \notin Urls /\ BadUrl \notin Urls \cup {NoUrl}

Fwa == <<"fwa", NoOne>>
AgentFor(did) == <<"agent", did>>
ConnFor(did) == <<"conn", did>>

Agents == {AgentFor(d) : d \in Dids}
Conns == {ConnFor(d) : d \in Dids}
Entities == {Fwa} \cup Agents \cup Conns

ASSUME NoOneIsNoEntity == NoOne \notin Entities

\* Any type that the recipient does not know is "unknown".
Type == {"fwd", "ariesFwd", "connect", "signUp", "createAgent", "createKey",
         "updateComMethod", "updateMsgs", "getMsgs", "unknown"}

Envelope == [
  to     : Entities,                     \* whose verkey it is packed for
  from   : Keys \cup {NoOne},            \* whose verkey it is packed by
  type   : Type,
  fwd    : Entities \cup {NoOne},        \* "fwd", "ariesFwd": @fwd, to
  did    : Dids \cup {NoOne},            \* "connect": fromDID; "createKey": forDID
  key    : Keys \cup {NoOne},            \* "connect": fromDIDVerKey; "createKey":
                                         \* forDIDVerKey; "ariesFwd" to a client: to
  uids   : SUBSET Requests,              \* "updateMsgs", "getMsgs"; {} is no filter
  list   : {"array", "other"},           \* "updateMsgs": what uidsByConns is
  method : {"2", "other"},               \* "updateComMethod": the type of comMethod
  url    : Urls \cup {NoUrl, BadUrl}]    \* "updateComMethod": its value, the webhook

\* Clients fill in the fields that the type of a message has.
ASSUME SendableAssumption ==
  \A r \in Requests : \A m \in Sendable[r] :
    /\ m \in Seq(Envelope) /\ m # << >>
    /\ \A i \in 1..Len(m) : m[i].type = "createKey" => m[i].did # NoOne /\ m[i].key # NoOne

pack(to, from, type) ==
  [to |-> to, from |-> from, type |-> type, fwd |-> NoOne, did |-> NoOne, key |-> NoOne,
   uids |-> {}, list |-> "array", method |-> "2", url |-> NoUrl]

\* What sendToAgency makes of a message: a forward that is anoncrypted for the agency.
wrapWithAgencyFwd(recipient) == [pack(Fwa, NoOne, "fwd") EXCEPT !.fwd = recipient]

vcxFlowConnect(sender, did, key) ==
  <<wrapWithAgencyFwd(Fwa),
    [pack(Fwa, sender, "connect") EXCEPT !.did = did, !.key = key]>>

vcxFlowSignUp(owner, agent) ==
  <<wrapWithAgencyFwd(agent), pack(agent, owner, "signUp")>>

vcxFlowCreateAgent(owner, agent) ==
  <<wrapWithAgencyFwd(agent), pack(agent, owner, "createAgent")>>

vcxFlowCreateAgentConnection(owner, agent, did, pairwise) ==
  <<wrapWithAgencyFwd(agent),
    [pack(agent, owner, "createKey") EXCEPT !.did = did, !.key = pairwise]>>

vcxFlowGetMsgsFromAgentConn(pairwise, conn, uids) ==
  <<wrapWithAgencyFwd(conn), [pack(conn, pairwise, "getMsgs") EXCEPT !.uids = uids]>>

vcxFlowUpdateMsgsFromAgent(owner, agent, uids) ==
  <<wrapWithAgencyFwd(agent), [pack(agent, owner, "updateMsgs") EXCEPT !.uids = uids]>>

vcxFlowSetWebhookUrl(owner, agent, url) ==
  <<wrapWithAgencyFwd(agent), [pack(agent, owner, "updateComMethod") EXCEPT !.url = url]>>

\* What is packed end to end for the recipient stays closed to the agency.
vcxFlowSendAriesMessage(conn, recipient) ==
  <<wrapWithAgencyFwd(conn), [pack(conn, NoOne, "ariesFwd") EXCEPT !.key = recipient]>>

\* A message for a connection sent by way of an agent of its owner, as libvcx does.
viaAgent(owner, agent, message) ==
  <<wrapWithAgencyFwd(agent), [pack(agent, owner, "fwd") EXCEPT !.fwd = message[1].fwd],
    message[2]>>

\* The same message forwarded to the agency the Aries way.
viaAries(message) == [message EXCEPT ![1].type = "ariesFwd"]
=============================================================================
