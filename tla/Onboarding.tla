----------------------------- MODULE Onboarding -----------------------------
(***************************************************************************)
(* Creating agents and agent connections: the handlers of Connect          *)
(* (entity-fwa.js) and CreateKey (agent.js), the wallet service they use   *)
(* (service-indy-wallets.js) and the tables they fill (storage.js), in     *)
(* every agency process, over one MySQL.                                   *)
(*                                                                         *)
(* A request creates one entity, so the request itself stands for the DID  *)
(* the entity gets and for the wallet key that is generated for it.        *)
(* Nothing is done in a transaction: each await is a step boundary at      *)
(* which other requests run, the step may fail or the process may die.     *)
(*                                                                         *)
(* A wallet is kept by the storage plugin of the indy library.  Whether    *)
(* that storage refuses a second wallet of one name is not settled by the  *)
(* repository: its tables (setup/create.sql:14-19) have no UNIQUE key on   *)
(* the name, and the code only expects the error (wallet.js:61-69).  Both  *)
(* are modelled; what rests on the refusal says so.                        *)
(***************************************************************************)
EXTENDS Naturals

CONSTANTS
  Procs,        \* agency processes sharing one database
  Connects,     \* requests to create an agent
  CreateKeys,   \* requests to create an agent connection
  Wallets,      \* wallet names
  ReqProc,      \* [Requests -> Procs]: the process serving a request
  WalletOf,     \* [Requests -> Wallets]: agent_<owner DID>, agentconn_<pairwise DID>
  TargetOf,     \* [CreateKeys -> Connects]: the agent a CreateKey is sent to
  NoKey,        \* no wallet
  MaxCrashes,   \* bound: process crashes
  MaxFailures   \* bound: steps that fail

Requests == Connects \cup CreateKeys

ASSUME RequestsAssumption ==
  /\ Connects \cap CreateKeys = {}
  /\ NoKey \notin Requests
  /\ ReqProc \in [Requests -> Procs]
  /\ WalletOf \in [Requests -> Wallets]
  /\ TargetOf \in [CreateKeys -> Connects]

\* The two kinds of wallet names differ in their prefix.
ASSUME WalletNamesDiffer ==
  \A r \in Connects, k \in CreateKeys : WalletOf[r] # WalletOf[k]

ASSUME BoundAssumption == MaxCrashes \in Nat /\ MaxFailures \in Nat

VARIABLES
  naming,       \* "unique" if the storage refuses a second wallet of one name, else "free"
  wallets,      \* [Wallets -> SUBSET Requests]: the wallets of a name, by their keys
  didIn,        \* [Requests -> Requests or NoKey]: the wallet the DID of an entity is in
  records,      \* entities with a row in table entities
  rows,         \* entities with a row in table agents or agent_connections
  openWallets,  \* [Procs -> [Wallets -> Requests or NoKey]]: open in the indy library
  openWalletHandlesCache,  \* [Procs -> SUBSET Wallets]
  opening,      \* [Requests -> Wallets]: the wallet a request opens
  phase,        \* [Requests -> Phase]: what a request waits for
  crashes, failures        \* how much of the bounds is used

dbVars == <<wallets, didIn, records, rows>>
walletVars == <<openWallets, openWalletHandlesCache, opening>>
vars == <<naming, dbVars, walletVars, phase, crashes, failures>>

Waiting == {"open", "opened", "message", "wallet", "did", "pairwise", "save", "register", "resolve"}
Phase == Waiting \cup {"idle", "answered", "failed"}

At(r, ph) == phase[r] = ph

namesUnique == naming = "unique"

TypeOK ==
  /\ naming \in {"unique", "free"}
  /\ wallets \in [Wallets -> SUBSET Requests]
  /\ didIn \in [Requests -> Requests \cup {NoKey}]
  /\ records \in SUBSET Requests /\ rows \in SUBSET Requests
  /\ openWallets \in [Procs -> [Wallets -> Requests \cup {NoKey}]]
  /\ openWalletHandlesCache \in [Procs -> SUBSET Wallets]
  /\ opening \in [Requests -> Wallets]
  /\ phase \in [Requests -> Phase]
  /\ crashes \in Nat /\ failures \in Nat

Init ==
  /\ naming \in {"unique", "free"}
  /\ wallets = [w \in Wallets |-> {}]
  /\ didIn = [r \in Requests |-> NoKey]
  /\ records = {} /\ rows = {}
  /\ openWallets = [p \in Procs |-> [w \in Wallets |-> NoKey]]
  /\ openWalletHandlesCache = [p \in Procs |-> {}]
  /\ opening = [r \in Requests |-> WalletOf[r]]
  /\ phase = [r \in Requests |-> "idle"]
  /\ crashes = 0 /\ failures = 0

Goes(r, ph) == phase' = [phase EXCEPT ![r] = ph]

-----------------------------------------------------------------------------
(* service-indy-wallets.js                                                 *)

\* A cached handle is used at once, whichever wallet of the name it is of; otherwise the
\* wallet is opened.
getWalletHandle(r, w, next) ==
  /\ opening' = [opening EXCEPT ![r] = w]
  /\ \/ w \in openWalletHandlesCache[ReqProc[r]] /\ Goes(r, next)
     \/ w \notin openWalletHandlesCache[ReqProc[r]] /\ Goes(r, "open")

IsOpen(p, w) == openWallets[p][w] # NoKey

\* The key a wallet is opened with: one's own was just created, the one of the agent is
\* in its record.
keyOf(r) == IF opening[r] = WalletOf[r] THEN r ELSE TargetOf[r]

\* Faulty: a wallet that is open already is waited for.
waitForWallet(r) ==
  /\ At(r, "open")
  /\ ~IsOpen(ReqProc[r], opening[r])
  /\ openWallets' = [openWallets EXCEPT ![ReqProc[r]][opening[r]] = keyOf(r)]
  /\ Goes(r, "opened")
  /\ UNCHANGED <<naming, dbVars, openWalletHandlesCache, opening, crashes, failures>>

\* The library refuses to open a wallet twice in one process.  The storage finds some
\* wallet of the name, and the key has to be the one of that wallet.
WalletOpened(r) ==
  /\ At(r, "open")
  /\ LET p == ReqProc[r]
         w == opening[r]
     IN \E found \in wallets[w] :
          \/ /\ ~IsOpen(p, w) /\ found = keyOf(r)
             /\ openWallets' = [openWallets EXCEPT ![p][w] = found]
             /\ Goes(r, "opened")
          \/ /\ IsOpen(p, w) \/ found # keyOf(r)
             /\ Goes(r, "failed")
             /\ UNCHANGED openWallets
  /\ UNCHANGED <<naming, dbVars, openWalletHandlesCache, opening, crashes, failures>>

\* What is waited for once a wallet is at hand.
afterOpening(r) == IF opening[r] = WalletOf[r] THEN "did" ELSE "message"

\* Faulty: the handle is used but not kept.
handleNotCached(r) ==
  /\ At(r, "opened")
  /\ Goes(r, afterOpening(r))
  /\ UNCHANGED <<naming, dbVars, walletVars, crashes, failures>>

HandleCached(r) ==
  /\ At(r, "opened")
  /\ openWalletHandlesCache' = [openWalletHandlesCache EXCEPT ![ReqProc[r]] = @ \cup {opening[r]}]
  /\ Goes(r, afterOpening(r))
  /\ UNCHANGED <<naming, dbVars, openWallets, opening, crashes, failures>>

\* Faulty: the wallet is created whatever the storage says.
createdAnew(r) ==
  /\ At(r, "wallet")
  /\ wallets' = [wallets EXCEPT ![WalletOf[r]] = @ \cup {r}]
  /\ getWalletHandle(r, WalletOf[r], "did")
  /\ UNCHANGED <<naming, didIn, records, rows, openWallets, openWalletHandlesCache,
                 crashes, failures>>

\* Faulty: an existing wallet is taken over, as assureWallet would.
assured(r) ==
  /\ At(r, "wallet")
  /\ wallets' = [wallets EXCEPT ![WalletOf[r]] = IF @ = {} THEN {r} ELSE @]
  /\ getWalletHandle(r, WalletOf[r], "did")
  /\ UNCHANGED <<naming, didIn, records, rows, openWallets, openWalletHandlesCache,
                 crashes, failures>>

\* A wallet of a name that is taken is refused, or created beside the other one.
createNewRawWalletForEntity(r) ==
  /\ At(r, "wallet")
  /\ LET refused == namesUnique /\ wallets[WalletOf[r]] # {} IN
       \/ /\ ~refused
          /\ wallets' = [wallets EXCEPT ![WalletOf[r]] = @ \cup {r}]
          /\ getWalletHandle(r, WalletOf[r], "did")
       \/ /\ refused
          /\ Goes(r, "failed")
          /\ UNCHANGED <<wallets, opening>>
  /\ UNCHANGED <<naming, didIn, records, rows, openWallets, openWalletHandlesCache,
                 crashes, failures>>

\* The DID goes into the wallet the handle is of.
DidStored(r) ==
  /\ At(r, "did")
  /\ didIn' = [didIn EXCEPT ![r] = openWallets[ReqProc[r]][WalletOf[r]]]
  /\ Goes(r, IF r \in Connects THEN "save" ELSE "pairwise")
  /\ UNCHANGED <<naming, wallets, records, rows, walletVars, crashes, failures>>

-----------------------------------------------------------------------------
(* entity-fwa.js, agent.js, agent-connection.js                            *)

handleMsgVcxV2Connect(r) ==
  /\ At(r, "idle")
  /\ Goes(r, "wallet")
  /\ UNCHANGED <<naming, dbVars, walletVars, crashes, failures>>

\* The owner learns the DID of its agent from the answer to Connect.  The agent is
\* looked up and its wallet opened.
handleCreateKey(k) ==
  /\ At(k, "idle")
  /\ At(TargetOf[k], "answered")
  /\ TargetOf[k] \in records
  /\ getWalletHandle(k, WalletOf[TargetOf[k]], "message")
  /\ UNCHANGED <<naming, dbVars, openWallets, openWalletHandlesCache, crashes, failures>>

\* The message is decrypted with the key of the DID it was sent to.
MessageDecrypted(k) ==
  /\ At(k, "message")
  /\ LET agent == TargetOf[k] IN
       Goes(k, IF openWallets[ReqProc[k]][WalletOf[agent]] = didIn[agent] THEN "wallet"
               ELSE "failed")
  /\ UNCHANGED <<naming, dbVars, walletVars, crashes, failures>>

savePairwiseData(k) ==
  /\ At(k, "pairwise")
  /\ Goes(k, "save")
  /\ UNCHANGED <<naming, dbVars, walletVars, crashes, failures>>

saveEntityRecord(r) ==
  /\ At(r, "save")
  /\ records' = records \cup {r}
  /\ Goes(r, "register")
  /\ UNCHANGED <<naming, wallets, didIn, rows, walletVars, crashes, failures>>

createAgentRecord(r) ==
  /\ At(r, "register")
  /\ rows' = rows \cup {r}
  /\ Goes(r, "resolve")
  /\ UNCHANGED <<naming, wallets, didIn, records, walletVars, crashes, failures>>

\* Faulty: the answer does not wait for the link.
answeredWithoutLink(k) ==
  /\ At(k, "register")
  /\ Goes(k, "answered")
  /\ UNCHANGED <<naming, dbVars, walletVars, crashes, failures>>

linkAgentToItsConnection(k) ==
  /\ At(k, "register")
  /\ rows' = rows \cup {k}
  /\ Goes(k, "answered")
  /\ UNCHANGED <<naming, wallets, didIn, records, walletVars, crashes, failures>>

\* Connect looks the new agent up and builds it before it answers.
resolveEntityAO(r) ==
  /\ At(r, "resolve")
  /\ r \in records
  /\ WalletOf[r] \in openWalletHandlesCache[ReqProc[r]]
  /\ Goes(r, "answered")
  /\ UNCHANGED <<naming, dbVars, walletVars, crashes, failures>>

-----------------------------------------------------------------------------
(* Failures.  Nothing is undone.                                           *)

StepFails(r) ==
  /\ failures < MaxFailures
  /\ failures' = failures + 1
  /\ phase[r] \in Waiting \ {"opened"}
  /\ Goes(r, "failed")
  /\ UNCHANGED <<naming, dbVars, walletVars, crashes>>

Crash(p) ==
  /\ crashes < MaxCrashes
  /\ crashes' = crashes + 1
  /\ phase' = [r \in Requests |->
                 IF ReqProc[r] = p /\ phase[r] \in Waiting THEN "failed" ELSE phase[r]]
  /\ openWallets' = [openWallets EXCEPT ![p] = [w \in Wallets |-> NoKey]]
  /\ openWalletHandlesCache' = [openWalletHandlesCache EXCEPT ![p] = {}]
  /\ UNCHANGED <<naming, dbVars, opening, failures>>

-----------------------------------------------------------------------------

EntityStep(r) ==
  \/ createNewRawWalletForEntity(r)
  \/ WalletOpened(r)
  \/ HandleCached(r)
  \/ DidStored(r)
  \/ saveEntityRecord(r)

Next ==
  \/ \E r \in Requests : EntityStep(r) \/ StepFails(r)
  \/ \E r \in Connects : handleMsgVcxV2Connect(r) \/ createAgentRecord(r) \/ resolveEntityAO(r)
  \/ \E k \in CreateKeys : handleCreateKey(k) \/ MessageDecrypted(k) \/ savePairwiseData(k)
                           \/ linkAgentToItsConnection(k)
  \/ \E p \in Procs : Crash(p)

\* Steps that are waited for end; nobody has to send a request.
Fairness ==
  /\ \A r \in Requests : WF_vars(EntityStep(r))
  /\ \A r \in Connects : WF_vars(createAgentRecord(r) \/ resolveEntityAO(r))
  /\ \A k \in CreateKeys : WF_vars(MessageDecrypted(k) \/ savePairwiseData(k)
                                      \/ linkAgentToItsConnection(k))

Spec == Init /\ [][Next]_vars /\ Fairness

-----------------------------------------------------------------------------
(* Properties.                                                             *)

\* However often and at however many processes an owner connects, at most one agent is
\* ever recorded for it, and one connection for a pairwise DID, provided that the storage
\* keeps wallet names apart: the wallet name is the only lock there is
\* (agent-internal.js:23-28, agent-connection-internal.js:21-27, setup/create.sql:14-19).
OneEntityPerWallet ==
  namesUnique => \A r, s \in records : WalletOf[r] = WalletOf[s] => r = s

\* An entity is recorded only after its wallet: a wallet with the key in the record exists,
\* and where wallet names are kept apart the DID of the entity is in that one and not in
\* one that the cached handle was of (agent.js:49-65, agent-connection.js:56-76,
\* service-indy-wallets.js:39-61).
RecordsOpenTheirWallet ==
  \A r \in records : r \in wallets[WalletOf[r]] /\ (namesUnique => didIn[r] = r)

\* A request that was answered left everything in place, and a connection the
\* agent it belongs to, whatever failed or crashed in between (entity-fwa.js:110-128,
\* agent.js:235-240).
AnsweredIsComplete ==
  \A r \in Requests : At(r, "answered") =>
    /\ r \in records /\ r \in rows
    /\ r \in CreateKeys => TargetOf[r] \in records /\ TargetOf[r] \in rows

\* A wallet that is open in the library but not in the cache could never be opened
\* again in that process: some request is always about to cache it
\* (service-indy-wallets.js:39-51).
OpenWalletsAreCached ==
  \A p \in Procs, w \in Wallets : IsOpen(p, w) =>
    \/ w \in openWalletHandlesCache[p]
    \/ \E r \in Requests : ReqProc[r] = p /\ At(r, "opened") /\ opening[r] = w

\* Whoever works on an entity has its wallet open and cached in its own process, and the
\* look-up that ends a Connect finds the record: no request waits for a step that cannot
\* be taken, whichever others opened the wallet or died meanwhile
\* (service-indy-wallets.js:39-51, entity-fwa.js:110-128).
NoRequestIsStuck ==
  \A r \in Requests :
    /\ phase[r] \in {"did", "pairwise", "save", "register", "resolve"} =>
         /\ WalletOf[r] \in openWalletHandlesCache[ReqProc[r]]
         /\ IsOpen(ReqProc[r], WalletOf[r])
    /\ At(r, "message") => WalletOf[TargetOf[r]] \in openWalletHandlesCache[ReqProc[r]]
    /\ At(r, "resolve") => r \in Connects /\ r \in records
    /\ At(r, "pairwise") => r \in CreateKeys

\* The wallet of a request that failed before it saved a record.
Orphan(r) == r \in wallets[WalletOf[r]] /\ r \notin records /\ At(r, "failed")

\* Where wallet names are kept apart, a half-done creation is never completed and blocks
\* its owner or its pairwise DID for good: no retry takes the wallet over and none is
\* recorded under its name (service-indy-wallets.js:53-61).
OrphansStay ==
  [][\A r \in Requests : namesUnique /\ Orphan(r) =>
       /\ Orphan(r)'
       /\ \A s \in Requests : WalletOf[s] = WalletOf[r] => s \notin records']_vars

\* Every request that was started is answered or fails (entity-fwa.js:110-176,
\* agent.js:235-240): none waits for a wallet another one holds.
EveryRequestEnds ==
  \A r \in Requests : ~At(r, "idle") ~> At(r, "answered") \/ At(r, "failed")

-----------------------------------------------------------------------------
(* The creation of entities as its callers know it.                        *)

States == [r \in Requests |-> IF phase[r] \in Waiting THEN "pending" ELSE phase[r]]

RG == INSTANCE Registry WITH
  Names       <- Wallets,
  NameOf      <- [r \in Requests |-> WalletOf[r]],
  Connections <- CreateKeys,
  AgentOf     <- [k \in CreateKeys |-> TargetOf[k]],
  exclusive   <- namesUnique,
  claims      <- wallets,
  recorded    <- records,
  complete    <- rows,
  state       <- States

\* The handlers implement Registry, whatever competes, fails or dies: only who claimed a
\* name is recorded and answered, and where the storage keeps wallet names apart a name is
\* claimed once (service-indy-wallets.js:53-61, entity-fwa.js:110-128, agent.js:235-240).
ImplementsRegistry == RG!Spec

=============================================================================
