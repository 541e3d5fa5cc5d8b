------------------------------ MODULE Startup ------------------------------
(***************************************************************************)
(* The start of the processes of an agency (index.js, run.js, app.js): the *)
(* configuration is validated, certificates are downloaded from S3 into    *)
(* the container (download-certs.js), MySQL is waited for (storage.js),    *)
(* the forward agent's wallet, DID and verkey are set up in several        *)
(* attempts (entity-fwa.js, wallet.js), and the server listens.            *)
(* The wallet is in MySQL and all processes share it, so processes that    *)
(* start at once for the first time compete in creating it and its DID.    *)
(*                                                                         *)
(* AGENCY_WALLET_KEY is the same everywhere.  AGENCY_SEED need not be: a   *)
(* process may be deployed again with a new one.  A verkey is named by the *)
(* seed it is derived from.                                                *)
(*                                                                         *)
(* A process that is started again finds the files its container has, in   *)
(* whatever state the last one left them, unless the container is a new    *)
(* one.                                                                    *)
(***************************************************************************)
EXTENDS Configuration, Naturals

CONSTANTS
  Processes,
  Seeds,              \* seeds, and the verkeys derived from them
  NoKey,              \* undefined
  Seed,               \* [Processes -> Seeds]: AGENCY_SEED
  Deployments,        \* which configurations the processes may have
  AttemptsThreshold,  \* of waitUntilConnectsToMysql
  Attempts,           \* of buildForwardAgent
  MaxOutages,         \* bound: how often MySQL goes away
  MaxFailures         \* bound: operations that fail for other reasons, and deaths

ASSUME SeedAssumption == Seed \in [Processes -> Seeds] /\ NoKey \notin Seeds
ASSUME DeploymentsAssumption == Deployments \subseteq [Processes -> Config]
ASSUME AttemptsAssumption == AttemptsThreshold \in Nat /\ Attempts \in Nat \ {0}
ASSUME BoundAssumption == MaxOutages \in Nat /\ MaxFailures \in Nat

VARIABLES
  config,    \* [Processes -> Config]: what the environment of a process says
  file,      \* [Processes -> [Files -> Content]]: certificate and key in its container
  piping,    \* [Processes -> SUBSET Files]: files it is still being sent by S3
  phase,     \* [Processes -> Phase]
  tries,     \* [Processes -> Nat]: failed connections to MySQL (attempts)
  attempt,   \* [Processes -> Nat]: failed set-ups of the forward agent
  cached,    \* [Processes -> BOOLEAN]: the handle of its wallet is in the cache
  verkey,    \* [Processes -> Seeds or NoKey]: agencyVerkey
  wallet,    \* the wallet exists
  did,       \* Seeds or NoKey: the verkey stored with AGENCY_DID in the wallet
  told,      \* verkeys that clients were told
  mysql,     \* MySQL can be reached
  outages, failures  \* how much of the bounds is used

processVars == <<phase, tries, attempt, cached, verkey>>
fileVars == <<config, file, piping>>
walletVars == <<wallet, did>>
boundVars == <<outages, failures>>
vars == <<fileVars, processVars, walletVars, told, mysql, boundVars>>

SetUp == {"assuring", "opening", "looking", "creating", "keying"}
Fetching == {"fetchingCert", "fetchingKey"}
Phase == SetUp \cup Fetching \cup {"off", "describing", "certifying", "connecting", "building", "listening", "exited"}

Files == {"cert", "key"}
Content == {"absent", "partial", "whole"}
NoFiles == [f \in Files |-> "absent"]

TypeOK ==
  /\ config \in [Processes -> Config]
  /\ file \in [Processes -> [Files -> Content]]
  /\ piping \in [Processes -> SUBSET Files]
  /\ phase \in [Processes -> Phase]
  /\ tries \in [Processes -> 0..AttemptsThreshold + 1]
  /\ attempt \in [Processes -> 0..Attempts]
  /\ cached \in [Processes -> BOOLEAN]
  /\ verkey \in [Processes -> Seeds \cup {NoKey}]
  /\ wallet \in BOOLEAN
  /\ did \in Seeds \cup {NoKey}
  /\ told \in SUBSET (Seeds \cup {NoKey})
  /\ mysql \in BOOLEAN
  /\ outages \in Nat /\ failures \in Nat

Init ==
  /\ config \in Deployments
  /\ file = [p \in Processes |-> NoFiles]
  /\ piping = [p \in Processes |-> {}]
  /\ phase = [p \in Processes |-> "off"]
  /\ tries = [p \in Processes |-> 0]
  /\ attempt = [p \in Processes |-> 0]
  /\ cached = [p \in Processes |-> FALSE]
  /\ verkey = [p \in Processes |-> NoKey]
  /\ wallet = FALSE /\ did = NoKey
  /\ told = {}
  /\ mysql \in BOOLEAN
  /\ outages = 0 /\ failures = 0

At(p, ph) == phase[p] = ph
Goes(p, ph) == phase' = [phase EXCEPT ![p] = ph]

-----------------------------------------------------------------------------
(* index.js, run.js: before the application is built                       *)

\* A process is started, or started again by whoever runs it, in its container or in a new
\* one.  The configuration is loaded and validated before anything else.
run(p) ==
  /\ phase[p] \in {"off", "exited"}
  /\ \/ UNCHANGED file
     \/ file' = [file EXCEPT ![p] = NoFiles]
  /\ Goes(p, IF ~validateAppConfig(config[p]) THEN "exited"
             ELSE IF config[p].ECS_METADATA THEN "describing" ELSE "certifying")
  /\ tries' = [tries EXCEPT ![p] = 0]
  /\ attempt' = [attempt EXCEPT ![p] = 0]
  /\ UNCHANGED <<config, piping, cached, verkey, walletVars, told, mysql, boundVars>>

\* The task metadata were asked for; whatever the answer is, or if the request fails, the
\* start goes on.
fetchEcsTaskMetadata(p) ==
  /\ At(p, "describing")
  /\ Goes(p, "certifying")
  /\ UNCHANGED <<fileVars, tries, attempt, cached, verkey, walletVars, told, mysql, boundVars>>

Exists(p, f) == file[p][f] # "absent"

\* Files that exist are taken for the certificates, whatever is in them.
certificatesPresent(p) == \A f \in Files : Exists(p, f)

\* Faulty: a file that exists is downloaded once more.
fetchAnyway(p, f, ph) == Goes(p, ph)

\* fetchAwsAsset, up to its first await: a file that exists is an error.
fetchAwsAsset(p, f, ph) == Goes(p, IF Exists(p, f) THEN "exited" ELSE ph)

fetchServerCertsFromS3(p) ==
  /\ At(p, "certifying")
  /\ \/ /\ ~config[p].SERVER_ENABLE_TLS \/ certificatesPresent(p)
        /\ Goes(p, "connecting")
     \/ /\ config[p].SERVER_ENABLE_TLS /\ ~certificatesPresent(p)
        /\ IF config[p].AWS_S3
           THEN fetchAwsAsset(p, "cert", "fetchingCert") ELSE Goes(p, "exited")
  /\ UNCHANGED <<fileVars, tries, attempt, cached, verkey, walletVars, told, mysql, boundVars>>

\* S3 has answered: the content begins to be sent, and the start goes on without it.
AssetSent(p) ==
  /\ \/ /\ At(p, "fetchingCert")
        /\ fetchAwsAsset(p, "key", "fetchingKey")
        /\ IF At(p, "exited")'
           THEN UNCHANGED piping /\ file' \in {file, [file EXCEPT ![p]["cert"] = "partial"]}
           ELSE piping' = [piping EXCEPT ![p] = {"cert"}] /\ UNCHANGED file
     \/ /\ At(p, "fetchingKey")
        /\ Goes(p, "connecting")
        /\ piping' = [piping EXCEPT ![p] = @ \cup {"key"}]
        /\ UNCHANGED file
  /\ UNCHANGED <<config, tries, attempt, cached, verkey, walletVars, told, mysql, boundVars>>

\* A file that is sent is created, and some time later it is complete.
Piped(p, f) ==
  /\ f \in piping[p]
  /\ \/ /\ ~Exists(p, f)
        /\ file' = [file EXCEPT ![p][f] = "partial"]
        /\ UNCHANGED piping
     \/ /\ Exists(p, f)
        /\ file' = [file EXCEPT ![p][f] = "whole"]
        /\ piping' = [piping EXCEPT ![p] = @ \ {f}]
  /\ UNCHANGED <<config, processVars, walletVars, told, mysql, boundVars>>

-----------------------------------------------------------------------------
(* run.js, app.js, storage.js, server.js                                   *)

canConnectToDbSchema == mysql

\* The failed connections are counted before they are compared with the threshold, so
\* there is one more of them than the error thrown says.
waitUntilConnectsToMysql(p) ==
  /\ At(p, "connecting")
  /\ \/ /\ canConnectToDbSchema
        /\ Goes(p, "assuring")
        /\ UNCHANGED <<tries, piping>>
     \/ /\ ~canConnectToDbSchema
        /\ tries' = [tries EXCEPT ![p] = @ + 1]
        /\ IF tries'[p] <= AttemptsThreshold
           THEN UNCHANGED <<phase, piping>>
           ELSE Goes(p, "exited") /\ piping' = [piping EXCEPT ![p] = {}]
  /\ UNCHANGED <<config, file, attempt, cached, verkey, walletVars, told, mysql, boundVars>>

Usable(p) == \A f \in Files : file[p][f] = "whole"

\* Resolver and router get to know the forward agent.  The server reads certificate and
\* key as they are by now, refuses what is missing or truncated, and listens.
createWebServer(p) ==
  /\ At(p, "building")
  /\ IF config[p].SERVER_ENABLE_TLS => Usable(p)
     THEN Goes(p, "listening") /\ UNCHANGED <<cached, verkey, piping>>
     ELSE /\ Goes(p, "exited")
          /\ cached' = [cached EXCEPT ![p] = FALSE]
          /\ verkey' = [verkey EXCEPT ![p] = NoKey]
          /\ piping' = [piping EXCEPT ![p] = {}]
  /\ UNCHANGED <<config, file, tries, attempt, walletVars, told, mysql, boundVars>>

\* The process ends, on a signal or by an error that nobody or startServer catches; the
\* files stay as they are.
exit(p) ==
  /\ phase[p] \notin {"off", "exited"} /\ failures < MaxFailures
  /\ Goes(p, "exited")
  /\ cached' = [cached EXCEPT ![p] = FALSE]
  /\ verkey' = [verkey EXCEPT ![p] = NoKey]
  /\ piping' = [piping EXCEPT ![p] = {}]
  /\ failures' = failures + 1
  /\ UNCHANGED <<config, file, tries, attempt, walletVars, told, mysql, outages>>

-----------------------------------------------------------------------------
(* entity-fwa.js, wallet.js, service-indy-wallets.js                       *)

\* What is awaited next; the set-up has done nothing else.
Continue(p, ph) == Goes(p, ph) /\ UNCHANGED <<fileVars, tries, attempt, told, mysql, boundVars>>

\* Faulty: the attempt is not counted.
retried(p) ==
  /\ Goes(p, "assuring")
  /\ UNCHANGED <<fileVars, tries, attempt, cached, verkey, told, mysql, outages>>

\* Faulty: the first attempt that fails is the last.
failedForGood(p) ==
  /\ attempt' = [attempt EXCEPT ![p] = @ + 1]
  /\ Goes(p, "building")
  /\ UNCHANGED <<fileVars, tries, cached, verkey, told, mysql, outages>>

\* The catch of buildForwardAgent.  When no attempt is left, the loop ends as it does
\* after a success, with the verkey undefined.
buildForwardAgent(p) ==
  /\ attempt' = [attempt EXCEPT ![p] = @ + 1]
  /\ Goes(p, IF attempt'[p] < Attempts THEN "assuring" ELSE "building")
  /\ UNCHANGED <<fileVars, tries, cached, verkey, told, mysql, outages>>

\* Faulty: that the wallet exists is an error like any other.
walletCreated(p) ==
  /\ At(p, "assuring") /\ mysql
  /\ IF wallet
     THEN buildForwardAgent(p) /\ UNCHANGED <<walletVars, failures>>
     ELSE wallet' = TRUE /\ Continue(p, "opening") /\ UNCHANGED <<cached, verkey, did>>

\* That the wallet exists already is not an error.  One wallet of that name is assumed, which
\* the storage of wallets must see to (Onboarding).
indyAssureWallet(p) ==
  /\ At(p, "assuring") /\ mysql
  /\ wallet' = TRUE
  /\ Continue(p, "opening")
  /\ UNCHANGED <<cached, verkey, did>>

\* A cached handle needs no MySQL.
getWalletHandle(p) ==
  /\ At(p, "opening") /\ (cached[p] \/ mysql)
  /\ cached' = [cached EXCEPT ![p] = TRUE]
  /\ Continue(p, "looking")
  /\ UNCHANGED <<verkey, walletVars>>

indyDidExists(p) ==
  /\ At(p, "looking") /\ mysql
  /\ Continue(p, IF did = NoKey THEN "creating" ELSE "keying")
  /\ UNCHANGED <<cached, verkey, walletVars>>

\* Another process may have stored the DID meanwhile: with another verkey that is an
\* error; with the same one it may be, if it was stored while the library was at it.
indyCreateAndStoreMyDid(p) ==
  /\ At(p, "creating") /\ mysql
  /\ \/ /\ did \in {NoKey, Seed[p]}
        /\ did' = Seed[p]
        /\ Continue(p, "keying")
        /\ UNCHANGED <<cached, verkey, wallet>>
     \/ /\ did # NoKey
        /\ buildForwardAgent(p) /\ UNCHANGED <<walletVars, failures>>

\* Faulty: the verkey is the one of the seed.
keyOfSeed(p) ==
  /\ At(p, "keying") /\ mysql
  /\ verkey' = [verkey EXCEPT ![p] = Seed[p]]
  /\ Continue(p, "building")
  /\ UNCHANGED <<cached, walletVars>>

\* The verkey is the one in the wallet, whoever stored it.
indyKeyForLocalDid(p) ==
  /\ At(p, "keying") /\ mysql
  /\ verkey' = [verkey EXCEPT ![p] = did]
  /\ Continue(p, "building")
  /\ UNCHANGED <<cached, walletVars>>

\* MySQL is away, and with it the wallet.
Unreachable(p) ==
  /\ phase[p] \in SetUp /\ ~mysql /\ ~(At(p, "opening") /\ cached[p])
  /\ buildForwardAgent(p)
  /\ UNCHANGED <<walletVars, failures>>

\* An operation of the indy library fails for another reason, or its result is lost
\* after it has taken effect.
StepFails(p) ==
  /\ phase[p] \in SetUp /\ failures < MaxFailures
  /\ \/ UNCHANGED walletVars
     \/ At(p, "assuring") /\ mysql /\ wallet' = TRUE /\ UNCHANGED did
     \/ At(p, "creating") /\ mysql /\ did = NoKey /\ did' = Seed[p] /\ UNCHANGED wallet
  /\ buildForwardAgent(p)
  /\ failures' = failures + 1

-----------------------------------------------------------------------------
\* GET /agency: a client asks for the verkey to pack its messages for.
getForwardAgentInfo(p) ==
  /\ At(p, "listening")
  /\ told' = told \cup {verkey[p]}
  /\ UNCHANGED <<fileVars, processVars, walletVars, mysql, boundVars>>

\* MySQL goes away or comes back.
Outage ==
  /\ \/ mysql /\ outages < MaxOutages /\ outages' = outages + 1
     \/ ~mysql /\ UNCHANGED outages
  /\ mysql' = ~mysql
  /\ UNCHANGED <<fileVars, processVars, walletVars, told, failures>>

Step(p) ==
  \/ fetchEcsTaskMetadata(p) \/ fetchServerCertsFromS3(p) \/ AssetSent(p)
  \/ waitUntilConnectsToMysql(p) \/ createWebServer(p)
  \/ indyAssureWallet(p) \/ getWalletHandle(p) \/ indyDidExists(p)
  \/ indyCreateAndStoreMyDid(p) \/ indyKeyForLocalDid(p)
  \/ Unreachable(p)

Next ==
  \/ \E p \in Processes :
       \/ run(p) \/ Step(p) \/ StepFails(p) \/ exit(p) \/ getForwardAgentInfo(p)
       \/ \E f \in Files : Piped(p, f)
  \/ Outage

Spec == Init /\ [][Next]_vars /\ \A p \in Processes : WF_vars(Step(p))

-----------------------------------------------------------------------------
(* Properties                                                              *)

\* The agency has one verkey: what any process takes for it, or has told a client before
\* it died, is the key in the wallet, so that every process opens what is packed for it,
\* whichever seeds they were started with (entity-fwa.js:38-53).
OneIdentity ==
  /\ \A p \in Processes : verkey[p] \in {NoKey, did}
  /\ told \subseteq {NoKey, did}

\* A process listens without knowing its verkey only when each of its attempts has failed
\* (entity-fwa.js:63-74).
NoVerkeyOnlyAfterAllAttempts ==
  \A p \in Processes :
    At(p, "listening") /\ verkey[p] = NoKey => attempt[p] = Attempts

\* Only a part of certificate and key is in the container of a process, and nothing is
\* under way that completes it.
Spoilt(p) ==
  /\ config[p].SERVER_ENABLE_TLS /\ ~Usable(p) /\ piping[p] = {}
  /\ Exists(p, "key") \/ (Exists(p, "cert") /\ ~At(p, "fetchingKey"))

\* A download that was cut short is never served, and no later start completes it: whatever
\* starts in that container exits, until the container is replaced (download-certs.js:25,
\* :46, server.js:41).
SpoiltIsFinal ==
  [][\A p \in Processes :
       Spoilt(p) => ~At(p, "listening")' /\ (Spoilt(p)' \/ file'[p] = NoFiles)]_vars

\* No start hangs: a process listens in the end, or it exits (storage.js:27-40,
\* entity-fwa.js:66-74, download-certs.js:24-56).
EveryStartEnds ==
  \A p \in Processes :
    phase[p] \in {"describing", "certifying"} ~> phase[p] \in {"listening", "exited"}

\* How many steps a start has left at most, with what is left of its attempts to connect
\* and to set up the forward agent.
StepsLeft(p) ==
  LET connecting == 5 * Attempts + 2 + AttemptsThreshold - tries[p]
      settingUp  == 5 * (Attempts - attempt[p]) - 4
  IN  CASE At(p, "describing")    -> connecting + 4
        [] At(p, "certifying")    -> connecting + 3
        [] At(p, "fetchingCert") -> connecting + 2
        [] At(p, "fetchingKey")  -> connecting + 1
        [] At(p, "connecting")    -> connecting
        [] At(p, "assuring")      -> settingUp + 5
        [] At(p, "opening")       -> settingUp + 4
        [] At(p, "looking")       -> settingUp + 3
        [] At(p, "creating")      -> settingUp + 2
        [] At(p, "keying")        -> settingUp + 1
        [] At(p, "building")      -> 1
        [] OTHER                  -> 0

\* No start goes in circles, whatever fails and however the starts compete: each of its
\* steps leaves it fewer steps, and no other process and no outage gives it more
\* (storage.js:27-40, entity-fwa.js:66-74).
EveryStepCounts ==
  [][\A p \in Processes :
       phase[p] \notin {"off", "listening", "exited"} =>
         /\ StepsLeft(p)' \in 0..StepsLeft(p)
         /\ Step(p) => StepsLeft(p)' # StepsLeft(p)]_vars

\* The certificates of a process are there or can be downloaded.
Provided(p) ==
  config[p].SERVER_ENABLE_TLS =>
    Usable(p) \/ (config[p].AWS_S3 /\ file[p] = NoFiles)

\* A process with an accepted configuration whose container has no half of a download, and
\* which starts while MySQL is there, and stays, comes to know the verkey, though others
\* compete with it in creating wallet and DID (entity-fwa.js:38-53, wallet.js:61-69).
HealthyStartSucceeds ==
  \A p \in Processes :
    (At(p, "certifying") /\ Provided(p) /\ [](mysql /\ failures = MaxFailures))
      ~> verkey[p] # NoKey
=============================================================================
