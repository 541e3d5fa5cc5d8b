------------------------------ MODULE Registry ------------------------------
(***************************************************************************)
(* What the creation of agents and agent connections promises, without     *)
(* wallets being opened, DIDs and processes.  A request claims the name of *)
(* its owner or its pairwise DID before it is recorded under it and        *)
(* answered, and it is complete then; a connection needs an agent that was *)
(* answered.  Any request may fail on the way, and what it leaves behind   *)
(* stays as it is.                                                         *)
(*                                                                         *)
(* That a name is claimed by one request only, once and for all, is what   *)
(* the claims are for.  It is promised where claims are exclusive, which   *)
(* is up to the storage that keeps them.                                   *)
(***************************************************************************)
CONSTANTS
  Requests,
  Names,
  NameOf,      \* [Requests -> Names]
  Connections, \* the requests for an agent connection
  AgentOf      \* [Connections -> Requests]

VARIABLES
  exclusive, \* whether a name that is claimed is refused to others
  claims,    \* [Names -> SUBSET Requests]
  recorded,  \* requests whose entity has a record
  complete,  \* requests whose entity is an agent, or linked to one, in the tables
  state      \* [Requests -> State]

vars == <<exclusive, claims, recorded, complete, state>>

State == {"idle", "pending", "answered", "failed"}

Init ==
  /\ exclusive \in BOOLEAN
  /\ claims = [n \in Names |-> {}]
  /\ recorded = {} /\ complete = {}
  /\ state = [r \in Requests |-> "idle"]

Start(r) ==
  /\ state[r] = "idle"
  /\ r \in Connections => state[AgentOf[r]] = "answered"
  /\ state' = [state EXCEPT ![r] = "pending"]
  /\ UNCHANGED <<exclusive, claims, recorded, complete>>

Claim(r) ==
  /\ state[r] = "pending"
  /\ exclusive => claims[NameOf[r]] = {}
  /\ claims' = [claims EXCEPT ![NameOf[r]] = @ \cup {r}]
  /\ UNCHANGED <<exclusive, recorded, complete, state>>

Record(r) ==
  /\ state[r] = "pending"
  /\ r \in claims[NameOf[r]]
  /\ recorded' = recorded \cup {r}
  /\ UNCHANGED <<exclusive, claims, complete, state>>

Complete(r) ==
  /\ state[r] = "pending"
  /\ r \in recorded
  /\ complete' = complete \cup {r}
  /\ UNCHANGED <<exclusive, claims, recorded, state>>

Answer(r) ==
  /\ state[r] = "pending"
  /\ r \in recorded
  /\ complete' = complete \cup {r}
  /\ state' = [state EXCEPT ![r] = "answered"]
  /\ UNCHANGED <<exclusive, claims, recorded>>

\* One request is refused or fails, or all those of a process that dies.
Fail(failing) ==
  /\ \A r \in failing : state[r] = "pending"
  /\ state' = [r \in Requests |-> IF r \in failing THEN "failed" ELSE state[r]]
  /\ UNCHANGED <<exclusive, claims, recorded, complete>>

Next ==
  \/ \E r \in Requests : Start(r) \/ Claim(r) \/ Record(r) \/ Complete(r) \/ Answer(r)
  \/ \E failing \in SUBSET Requests : Fail(failing)

Spec == Init /\ [][Next]_vars
=============================================================================
