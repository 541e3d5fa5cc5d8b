------------------------------- MODULE Storage ------------------------------
(***************************************************************************)
(* The statements of storage.js on the messages of an agent.  A table of   *)
(* messages maps the uid of each row to its other columns.                 *)
(***************************************************************************)

\* A row, as storage-utils.js hands it on without its payload.
buildStoredMessage(agentDid, agentConnectionDid, statusCode) ==
  [agentDid |-> agentDid, agentConnectionDid |-> agentConnectionDid, statusCode |-> statusCode]

\* An empty filter lets everything pass.
Passes(value, filter) == filter = {} \/ value \in filter

\* The uids of the rows of an agent that pass the filters.
loadMessages(messages, agentDid, agentConnDids, uids, statusCodes) ==
  {uid \in DOMAIN messages :
     /\ messages[uid].agentDid = agentDid
     /\ Passes(uid, uids)
     /\ Passes(messages[uid].agentConnectionDid, agentConnDids)
     /\ Passes(messages[uid].statusCode, statusCodes)}

\* Faulty: no uids are taken for no filter.
updatedUnlessFiltered(messages, agentDid, uids) ==
  {uid \in DOMAIN messages : messages[uid].agentDid = agentDid /\ Passes(uid, uids)}

\* The uids of the rows that an update of status codes touches; without uids there are none.
updateStatusCodeAgentConnection(messages, agentDid, uids) ==
  {uid \in DOMAIN messages : messages[uid].agentDid = agentDid /\ uid \in uids}
=============================================================================
