--------------------------- MODULE Startup_proofs ---------------------------
(***************************************************************************)
(* Proofs about Startup, for any number of processes, seeds, attempts,     *)
(* outages and failures.                                                   *)
(***************************************************************************)
EXTENDS Startup, TLAPS

\* Before the forward agent is set up.
Early == Fetching \cup {"describing", "certifying", "connecting"}

\* What the phase of a process says of its attempts and of the DID.
ProcessInv(p) ==
  /\ phase[p] \in Early => tries[p] <= AttemptsThreshold
  /\ phase[p] \in Early \cup SetUp => attempt[p] < Attempts
  /\ At(p, "keying") => did # NoKey
  /\ phase[p] \in {"building", "listening"} /\ verkey[p] = NoKey => attempt[p] = Attempts

\* What the phase of a process says of the files it is being sent.
FilesInv(p) ==
  /\ phase[p] \in {"off", "exited", "describing", "certifying", "fetchingCert"} => piping[p] = {}
  /\ At(p, "fetchingCert") => ~Exists(p, "cert")
  /\ At(p, "fetchingKey") => ~Exists(p, "key") /\ piping[p] \subseteq {"cert"}
  /\ At(p, "listening") /\ config[p].SERVER_ENABLE_TLS => Usable(p)

Inv == TypeOK /\ OneIdentity /\ \A p \in Processes : ProcessInv(p) /\ FilesInv(p)

\* What every attempt that fails does, apart from the wallet.
LEMMA AttemptFails ==
  ASSUME TypeOK, NEW p \in Processes, buildForwardAgent(p), attempt[p] < Attempts
  PROVE  /\ phase' \in [Processes -> Phase]
         /\ attempt' \in [Processes -> 0..Attempts]
         /\ UNCHANGED <<fileVars, tries, cached, verkey, told, mysql, outages>>
         /\ \A q \in Processes : q # p => phase'[q] = phase[q] /\ attempt'[q] = attempt[q]
         /\ \/ phase'[p] = "assuring" /\ attempt'[p] < Attempts
            \/ phase'[p] = "building" /\ attempt'[p] = Attempts
<1>1. attempt[p] \in 0..Attempts - 1 /\ attempt'[p] = attempt[p] + 1
  BY AttemptsAssumption DEF TypeOK, buildForwardAgent
<1>2. attempt' \in [Processes -> 0..Attempts]
  BY <1>1, AttemptsAssumption DEF TypeOK, buildForwardAgent
<1>3. \/ Goes(p, "assuring") /\ attempt'[p] < Attempts
      \/ Goes(p, "building") /\ attempt'[p] = Attempts
  BY <1>1, AttemptsAssumption DEF buildForwardAgent
<1>4. phase' \in [Processes -> Phase]
  BY <1>3 DEF TypeOK, Goes, Phase, SetUp
<1>5. UNCHANGED <<fileVars, tries, cached, verkey, told, mysql, outages>>
  BY DEF buildForwardAgent
<1>6. \A q \in Processes : q # p => phase'[q] = phase[q] /\ attempt'[q] = attempt[q]
  BY <1>3 DEF TypeOK, Goes, buildForwardAgent
<1>7. QED
  BY <1>2, <1>3, <1>4, <1>5, <1>6 DEF TypeOK, Goes

\* A failed attempt keeps the invariant, whatever it leaves in the wallet.
LEMMA FailedAttempt ==
  ASSUME Inv, NEW p \in Processes, phase[p] \in SetUp, buildForwardAgent(p),
         wallet' \in BOOLEAN, did' = did \/ (did = NoKey /\ did' \in Seeds),
         failures' \in Nat
  PROVE  Inv'
<1>1. attempt[p] < Attempts
  BY DEF Inv, ProcessInv
<1>2. /\ phase' \in [Processes -> Phase]
      /\ attempt' \in [Processes -> 0..Attempts]
      /\ UNCHANGED <<fileVars, tries, cached, verkey, told, mysql, outages>>
      /\ \A q \in Processes : q # p => phase'[q] = phase[q] /\ attempt'[q] = attempt[q]
      /\ \/ phase'[p] = "assuring" /\ attempt'[p] < Attempts
         \/ phase'[p] = "building" /\ attempt'[p] = Attempts
  BY <1>1, AttemptFails DEF Inv
<1>3. TypeOK'
  BY <1>2, SeedAssumption DEF Inv, TypeOK, fileVars
<1>4. OneIdentity'
  BY <1>2, SeedAssumption DEF Inv, TypeOK, OneIdentity
<1>5. ASSUME NEW q \in Processes PROVE ProcessInv(q)'
  <2>1. CASE q = p
    BY <1>2, <2>1 DEF ProcessInv, At, SetUp, Early, Fetching
  <2>2. CASE q # p
    BY <1>2, <2>2, SeedAssumption DEF Inv, ProcessInv, At, SetUp, Early, Fetching
  <2>3. QED
    BY <2>1, <2>2
<1>6. ASSUME NEW q \in Processes PROVE FilesInv(q)'
  <2>1. FilesInv(q) /\ UNCHANGED <<config, file, piping>>
    BY <1>2 DEF Inv, fileVars
  <2>2. phase'[q] = phase[q] \/ phase'[q] \in {"assuring", "building"}
    BY <1>2
  <2>3. QED
    BY <2>1, <2>2 DEF FilesInv, At, Exists, Usable
<1>7. QED
  BY <1>3, <1>4, <1>5, <1>6 DEF Inv

\* Everything that is a process's own, but for the cached handle.
Same(q) ==
  /\ phase'[q] = phase[q] /\ tries'[q] = tries[q] /\ attempt'[q] = attempt[q]
  /\ verkey'[q] = verkey[q] /\ config'[q] = config[q]
  /\ file'[q] = file[q] /\ piping'[q] = piping[q]

\* A step of one process is of no concern to the others.
LEMMA StepOfOne ==
  ASSUME Inv, NEW p \in Processes, \A q \in Processes : q # p => Same(q),
         did # NoKey => did' # NoKey,
         TypeOK', OneIdentity', ProcessInv(p)', FilesInv(p)'
  PROVE  Inv'
<1>1. ASSUME NEW q \in Processes, q # p PROVE ProcessInv(q)' /\ FilesInv(q)'
  <2>1. Same(q) /\ ProcessInv(q) /\ FilesInv(q)
    BY <1>1 DEF Inv
  <2>2. ProcessInv(q)'
    BY <2>1 DEF Same, ProcessInv, At
  <2>3. FilesInv(q)'
    <3>1. Usable(q)' <=> Usable(q)
      BY <2>1 DEF Same, Usable
    <3>2. QED
      BY <2>1, <3>1 DEF Same, FilesInv, At, Exists
  <2>4. QED
    BY <2>2, <2>3
<1>2. QED
  BY <1>1 DEF Inv

\* Initially nothing runs.
LEMMA InitInv == Init => Inv
<1> SUFFICES ASSUME Init PROVE Inv
  OBVIOUS
<1>1. TypeOK
  <2>1. /\ phase \in [Processes -> Phase]
        /\ tries \in [Processes -> 0..AttemptsThreshold + 1]
        /\ attempt \in [Processes -> 0..Attempts]
        /\ verkey \in [Processes -> Seeds \cup {NoKey}]
        /\ did \in Seeds \cup {NoKey}
        /\ told \in SUBSET (Seeds \cup {NoKey})
        /\ outages \in Nat /\ failures \in Nat
    BY AttemptsAssumption DEF Init, Phase, SetUp, Fetching
  <2>2. cached \in [Processes -> BOOLEAN] /\ wallet \in BOOLEAN /\ mysql \in BOOLEAN
    BY Zenon DEF Init
  <2>3. config \in [Processes -> Config]
    BY DeploymentsAssumption, Zenon DEF Init
  <2>4. /\ file \in [Processes -> [Files -> Content]]
        /\ piping \in [Processes -> SUBSET Files]
    BY DEF Init, NoFiles, Content
  <2>5. QED
    BY <2>1, <2>2, <2>3, <2>4, Zenon DEF TypeOK
<1>2. OneIdentity
  BY DEF Init, OneIdentity
<1>3. ASSUME NEW p \in Processes PROVE ProcessInv(p) /\ FilesInv(p)
  <2>1. phase[p] = "off" /\ piping[p] = {}
    BY DEF Init
  <2>2. QED
    BY <2>1 DEF ProcessInv, FilesInv, At, SetUp, Early, Fetching
<1>4. QED
  BY <1>1, <1>2, <1>3 DEF Inv

\* Every step keeps the invariant.
LEMMA NextInv == Inv /\ [Next]_vars => Inv'
<1> SUFFICES ASSUME Inv, [Next]_vars PROVE Inv'
  OBVIOUS
<1> USE SeedAssumption, AttemptsAssumption
<1> USE DEF fileVars, processVars, walletVars, boundVars, Goes, At, Exists, Usable
<1>1. ASSUME NEW p \in Processes, run(p) PROVE Inv'
  <2>1. TypeOK'
    <3>1. file' = file \/ file' = [file EXCEPT ![p] = NoFiles]
      BY <1>1 DEF run
    <3>2. file' \in [Processes -> [Files -> Content]]
      BY <3>1 DEF Inv, TypeOK, NoFiles, Content
    <3>3. \E ph \in {"exited", "describing", "certifying"} : Goes(p, ph)
      BY <1>1 DEF run
    <3>4. phase' \in [Processes -> Phase]
      BY <3>3 DEF Inv, TypeOK, Phase
    <3>5. QED
      BY <1>1, <3>2, <3>4 DEF run, Inv, TypeOK
  <2>2. OneIdentity'
    BY <1>1 DEF run, Inv, TypeOK, OneIdentity
  <2>3. ProcessInv(p)'
    <3>1. \E ph \in {"exited", "describing", "certifying"} : Goes(p, ph)
      BY <1>1 DEF run
    <3>2. phase'[p] \in {"exited", "describing", "certifying"}
      BY <3>1 DEF Inv, TypeOK
    <3>3. tries'[p] = 0 /\ attempt'[p] = 0
      BY <1>1 DEF run, Inv, TypeOK
    <3>4. QED
      BY <3>2, <3>3 DEF ProcessInv, SetUp
  <2>4. FilesInv(p)'
    BY <1>1 DEF run, Inv, TypeOK, FilesInv, SetUp, Fetching
  <2>5. \A q \in Processes : q # p => Same(q)
    BY <1>1 DEF run, Inv, TypeOK, Same
  <2>6. did # NoKey => did' # NoKey
    BY <1>1 DEF run
  <2>7. QED
    BY <2>1, <2>2, <2>3, <2>4, <2>5, <2>6, StepOfOne
<1>2. ASSUME NEW p \in Processes, fetchEcsTaskMetadata(p) PROVE Inv'
  <2>1. TypeOK'
    BY <1>2 DEF fetchEcsTaskMetadata, Inv, TypeOK, Phase, SetUp, Fetching
  <2>2. OneIdentity'
    BY <1>2 DEF fetchEcsTaskMetadata, Inv, TypeOK, OneIdentity
  <2>3. ProcessInv(p)'
    BY <1>2 DEF fetchEcsTaskMetadata, Inv, TypeOK, ProcessInv, SetUp, Early, Fetching
  <2>4. FilesInv(p)'
    BY <1>2 DEF fetchEcsTaskMetadata, Inv, TypeOK, FilesInv, SetUp, Fetching
  <2>5. \A q \in Processes : q # p => Same(q)
    BY <1>2 DEF fetchEcsTaskMetadata, Inv, TypeOK, Same
  <2>6. did # NoKey => did' # NoKey
    BY <1>2 DEF fetchEcsTaskMetadata
  <2>7. QED
    BY <2>1, <2>2, <2>3, <2>4, <2>5, <2>6, StepOfOne
<1>3. ASSUME NEW p \in Processes, fetchServerCertsFromS3(p) PROVE Inv'
  <2>1. TypeOK'
    BY <1>3 DEF fetchServerCertsFromS3, fetchAwsAsset, Inv, TypeOK, Phase, SetUp, Fetching
  <2>2. OneIdentity'
    BY <1>3 DEF fetchServerCertsFromS3, fetchAwsAsset, Inv, TypeOK, OneIdentity
  <2>3. ProcessInv(p)'
    BY <1>3 DEF fetchServerCertsFromS3, fetchAwsAsset, Inv, TypeOK, ProcessInv, SetUp, Early, Fetching
  <2>4. FilesInv(p)'
    <3>1. \/ \E ph \in {"connecting", "exited"} : Goes(p, ph)
          \/ ~Exists(p, "cert") /\ Goes(p, "fetchingCert")
      BY <1>3 DEF fetchServerCertsFromS3, fetchAwsAsset
    <3>2. piping[p] = {} /\ UNCHANGED <<file, piping>>
      BY <1>3 DEF fetchServerCertsFromS3, Inv, FilesInv
    <3>3. phase \in [Processes -> Phase]
      BY DEF Inv, TypeOK
    <3>4. QED
      BY <3>1, <3>2, <3>3 DEF FilesInv
  <2>5. \A q \in Processes : q # p => Same(q)
    BY <1>3 DEF fetchServerCertsFromS3, fetchAwsAsset, Inv, TypeOK, Same
  <2>6. did # NoKey => did' # NoKey
    BY <1>3 DEF fetchServerCertsFromS3, fetchAwsAsset
  <2>7. QED
    BY <2>1, <2>2, <2>3, <2>4, <2>5, <2>6, StepOfOne
<1>4. ASSUME NEW p \in Processes, AssetSent(p) PROVE Inv'
  <2>1. TypeOK'
    <3>1. file' = file \/ file' = [file EXCEPT ![p]["cert"] = "partial"]
      BY <1>4 DEF AssetSent
    <3>2. file' \in [Processes -> [Files -> Content]]
      BY <3>1 DEF Inv, TypeOK, Files, Content
    <3>3. \/ piping' = piping
          \/ piping' = [piping EXCEPT ![p] = {"cert"}]
          \/ piping' = [piping EXCEPT ![p] = @ \cup {"key"}]
      BY <1>4 DEF AssetSent
    <3>4. piping' \in [Processes -> SUBSET Files]
      BY <3>3 DEF Inv, TypeOK, Files
    <3>5. \E ph \in {"exited", "fetchingKey", "connecting"} : Goes(p, ph)
      BY <1>4 DEF AssetSent, fetchAwsAsset
    <3>6. phase' \in [Processes -> Phase]
      BY <3>5 DEF Inv, TypeOK, Phase, Fetching
    <3>7. QED
      BY <1>4, <3>2, <3>4, <3>6 DEF AssetSent, Inv, TypeOK
  <2>2. OneIdentity'
    BY <1>4 DEF AssetSent, fetchAwsAsset, Inv, TypeOK, OneIdentity
  <2>3. ProcessInv(p)'
    BY <1>4 DEF AssetSent, fetchAwsAsset, Inv, TypeOK, ProcessInv, SetUp, Early, Fetching
  <2>4. FilesInv(p)'
    BY <1>4 DEF AssetSent, fetchAwsAsset, Inv, TypeOK, FilesInv, SetUp, Fetching, Files
  <2>5. \A q \in Processes : q # p => Same(q)
    BY <1>4 DEF AssetSent, fetchAwsAsset, Inv, TypeOK, Same
  <2>6. did # NoKey => did' # NoKey
    BY <1>4 DEF AssetSent, fetchAwsAsset
  <2>7. QED
    BY <2>1, <2>2, <2>3, <2>4, <2>5, <2>6, StepOfOne
<1>5. ASSUME NEW p \in Processes, NEW f \in Files, Piped(p, f) PROVE Inv'
  <2>1. TypeOK'
    <3>1. \/ file' = [file EXCEPT ![p][f] = "partial"]
          \/ file' = [file EXCEPT ![p][f] = "whole"]
      BY <1>5 DEF Piped
    <3>2. file' \in [Processes -> [Files -> Content]]
      <4>1. file \in [Processes -> [Files -> Content]] /\ file[p] \in [Files -> Content]
        BY DEF Inv, TypeOK
      <4>2. [file[p] EXCEPT ![f] = "partial"] \in [Files -> Content]
        BY <4>1 DEF Content
      <4>3. [file[p] EXCEPT ![f] = "whole"] \in [Files -> Content]
        BY <4>1 DEF Content
      <4>4. QED
        BY <3>1, <4>1, <4>2, <4>3
    <3>3. piping' \in [Processes -> SUBSET Files]
      <4>1. piping' = piping \/ piping' = [piping EXCEPT ![p] = @ \ {f}]
        BY <1>5 DEF Piped
      <4>2. QED
        BY <4>1 DEF Inv, TypeOK
    <3>4. QED
      BY <1>5, <3>2, <3>3 DEF Piped, Inv, TypeOK
  <2>2. OneIdentity' /\ ProcessInv(p)' /\ UNCHANGED did
    BY <1>5 DEF Piped, Inv, OneIdentity, ProcessInv
  <2>3. FilesInv(p)'
    <3>1. f \in piping[p] /\ phase' = phase
      BY <1>5 DEF Piped
    <3>2. piping'[p] \subseteq piping[p]
      BY <1>5 DEF Piped, Inv, TypeOK
    <3>3. f # "key" => file'[p]["key"] = file[p]["key"]
      BY <1>5 DEF Piped, Inv, TypeOK, Files
    <3>4. FilesInv(p)
      BY DEF Inv
    <3>5. ASSUME Usable(p) PROVE Usable(p)'
      <4>1. file' = [file EXCEPT ![p][f] = "whole"]
        BY <1>5, <3>5 DEF Piped
      <4>2. QED
        BY <3>5, <4>1 DEF Inv, TypeOK
    <3>6. QED
      BY <1>5, <3>1, <3>2, <3>3, <3>4, <3>5, Zenon DEF FilesInv, Piped
  <2>4. \A q \in Processes : q # p => Same(q)
    BY <1>5 DEF Piped, Inv, TypeOK, Same
  <2>5. QED
    BY <2>1, <2>2, <2>3, <2>4, StepOfOne
<1>6. ASSUME NEW p \in Processes, waitUntilConnectsToMysql(p) PROVE Inv'
  <2>1. TypeOK'
    <3>1. tries[p] \in 0..AttemptsThreshold
      BY <1>6 DEF waitUntilConnectsToMysql, Inv, TypeOK, ProcessInv, Early
    <3>2. \/ tries' = tries
          \/ tries' = [tries EXCEPT ![p] = @ + 1]
      BY <1>6 DEF waitUntilConnectsToMysql
    <3>3. tries' \in [Processes -> 0..AttemptsThreshold + 1]
      BY <3>1, <3>2 DEF Inv, TypeOK
    <3>4. piping' = piping \/ piping' = [piping EXCEPT ![p] = {}]
      BY <1>6 DEF waitUntilConnectsToMysql
    <3>5. piping' \in [Processes -> SUBSET Files]
      BY <3>4 DEF Inv, TypeOK
    <3>6. phase' = phase \/ \E ph \in {"assuring", "exited"} : Goes(p, ph)
      BY <1>6 DEF waitUntilConnectsToMysql
    <3>7. phase' \in [Processes -> Phase]
      BY <3>6 DEF Inv, TypeOK, Phase, SetUp
    <3>8. QED
      BY <1>6, <3>3, <3>5, <3>7 DEF waitUntilConnectsToMysql, Inv, TypeOK
  <2>2. OneIdentity'
    BY <1>6 DEF waitUntilConnectsToMysql, Inv, TypeOK, OneIdentity
  <2>3. ProcessInv(p)'
    BY <1>6 DEF waitUntilConnectsToMysql, Inv, TypeOK, ProcessInv, SetUp, Early, Fetching
  <2>4. FilesInv(p)'
    BY <1>6 DEF waitUntilConnectsToMysql, Inv, TypeOK, FilesInv, SetUp, Fetching
  <2>5. \A q \in Processes : q # p => Same(q)
    BY <1>6 DEF waitUntilConnectsToMysql, Inv, TypeOK, Same
  <2>6. did # NoKey => did' # NoKey
    BY <1>6 DEF waitUntilConnectsToMysql
  <2>7. QED
    BY <2>1, <2>2, <2>3, <2>4, <2>5, <2>6, StepOfOne
<1>7. ASSUME NEW p \in Processes, createWebServer(p) PROVE Inv'
  <2>1. TypeOK'
    BY <1>7 DEF createWebServer, Inv, TypeOK, Phase, SetUp, Fetching
  <2>2. OneIdentity'
    BY <1>7 DEF createWebServer, Inv, TypeOK, OneIdentity
  <2>3. ProcessInv(p)'
    <3>1. CASE Goes(p, "listening") /\ UNCHANGED verkey
      BY <1>7, <3>1 DEF createWebServer, Inv, TypeOK, ProcessInv, SetUp, Early, Fetching
    <3>2. CASE Goes(p, "exited")
      BY <3>2 DEF Inv, TypeOK, ProcessInv, SetUp, Early, Fetching
    <3>3. QED
      BY <1>7, <3>1, <3>2 DEF createWebServer
  <2>4. FilesInv(p)'
    <3>1. CASE Goes(p, "listening") /\ (config[p].SERVER_ENABLE_TLS => Usable(p))
      <4>1. phase'[p] = "listening" /\ UNCHANGED <<config, file>>
        BY <1>7, <3>1 DEF createWebServer, Inv, TypeOK
      <4>2. QED
        BY <3>1, <4>1 DEF FilesInv
    <3>2. CASE Goes(p, "exited") /\ piping' = [piping EXCEPT ![p] = {}]
      <4>1. phase'[p] = "exited" /\ piping'[p] = {}
        BY <3>2 DEF Inv, TypeOK
      <4>2. QED
        BY <4>1 DEF FilesInv
    <3>3. QED
      BY <1>7, <3>1, <3>2 DEF createWebServer
  <2>5. \A q \in Processes : q # p => Same(q)
    BY <1>7 DEF createWebServer, Inv, TypeOK, Same
  <2>6. did # NoKey => did' # NoKey
    BY <1>7 DEF createWebServer
  <2>7. QED
    BY <2>1, <2>2, <2>3, <2>4, <2>5, <2>6, StepOfOne
<1>8. ASSUME NEW p \in Processes, exit(p) PROVE Inv'
  <2>1. TypeOK'
    <3>1. failures' \in Nat
      BY <1>8 DEF exit, Inv, TypeOK
    <3>2. piping' \in [Processes -> SUBSET Files] /\ phase' \in [Processes -> Phase]
      BY <1>8 DEF exit, Inv, TypeOK, Phase
    <3>3. cached' \in [Processes -> BOOLEAN]
      BY <1>8 DEF exit, Inv, TypeOK
    <3>4. verkey' \in [Processes -> Seeds \cup {NoKey}]
      BY <1>8 DEF exit, Inv, TypeOK
    <3>5. QED
      BY <1>8, <3>1, <3>2, <3>3, <3>4 DEF exit, Inv, TypeOK
  <2>2. OneIdentity'
    BY <1>8 DEF exit, Inv, TypeOK, OneIdentity
  <2>3. ProcessInv(p)'
    BY <1>8 DEF exit, Inv, TypeOK, ProcessInv, SetUp, Early, Fetching
  <2>4. FilesInv(p)'
    BY <1>8 DEF exit, Inv, TypeOK, FilesInv, SetUp, Fetching
  <2>5. \A q \in Processes : q # p => Same(q)
    BY <1>8 DEF exit, Inv, TypeOK, Same
  <2>6. did # NoKey => did' # NoKey
    BY <1>8 DEF exit
  <2>7. QED
    BY <2>1, <2>2, <2>3, <2>4, <2>5, <2>6, StepOfOne
<1>9. ASSUME NEW p \in Processes, indyAssureWallet(p) PROVE Inv'
  <2>1. TypeOK'
    BY <1>9 DEF indyAssureWallet, Continue, Inv, TypeOK, Phase, SetUp, Fetching
  <2>2. OneIdentity'
    BY <1>9 DEF indyAssureWallet, Continue, Inv, TypeOK, OneIdentity
  <2>3. ProcessInv(p)'
    BY <1>9 DEF indyAssureWallet, Continue, Inv, TypeOK, ProcessInv, SetUp, Early, Fetching
  <2>4. FilesInv(p)'
    BY <1>9 DEF indyAssureWallet, Continue, Inv, TypeOK, FilesInv, SetUp, Fetching
  <2>5. \A q \in Processes : q # p => Same(q)
    BY <1>9 DEF indyAssureWallet, Continue, Inv, TypeOK, Same
  <2>6. did # NoKey => did' # NoKey
    BY <1>9 DEF indyAssureWallet, Continue
  <2>7. QED
    BY <2>1, <2>2, <2>3, <2>4, <2>5, <2>6, StepOfOne
<1>10. ASSUME NEW p \in Processes, getWalletHandle(p) PROVE Inv'
  <2>1. TypeOK'
    BY <1>10 DEF getWalletHandle, Continue, Inv, TypeOK, Phase, SetUp, Fetching
  <2>2. OneIdentity'
    BY <1>10 DEF getWalletHandle, Continue, Inv, TypeOK, OneIdentity
  <2>3. ProcessInv(p)'
    BY <1>10 DEF getWalletHandle, Continue, Inv, TypeOK, ProcessInv, SetUp, Early, Fetching
  <2>4. FilesInv(p)'
    BY <1>10 DEF getWalletHandle, Continue, Inv, TypeOK, FilesInv, SetUp, Fetching
  <2>5. \A q \in Processes : q # p => Same(q)
    BY <1>10 DEF getWalletHandle, Continue, Inv, TypeOK, Same
  <2>6. did # NoKey => did' # NoKey
    BY <1>10 DEF getWalletHandle, Continue
  <2>7. QED
    BY <2>1, <2>2, <2>3, <2>4, <2>5, <2>6, StepOfOne
<1>11. ASSUME NEW p \in Processes, indyDidExists(p) PROVE Inv'
  <2>1. TypeOK'
    BY <1>11 DEF indyDidExists, Continue, Inv, TypeOK, Phase, SetUp, Fetching
  <2>2. OneIdentity'
    BY <1>11 DEF indyDidExists, Continue, Inv, TypeOK, OneIdentity
  <2>3. ProcessInv(p)'
    BY <1>11 DEF indyDidExists, Continue, Inv, TypeOK, ProcessInv, SetUp, Early, Fetching
  <2>4. FilesInv(p)'
    BY <1>11 DEF indyDidExists, Continue, Inv, TypeOK, FilesInv, SetUp, Fetching
  <2>5. \A q \in Processes : q # p => Same(q)
    BY <1>11 DEF indyDidExists, Continue, Inv, TypeOK, Same
  <2>6. did # NoKey => did' # NoKey
    BY <1>11 DEF indyDidExists, Continue
  <2>7. QED
    BY <2>1, <2>2, <2>3, <2>4, <2>5, <2>6, StepOfOne
<1>12. ASSUME NEW p \in Processes, indyKeyForLocalDid(p) PROVE Inv'
  <2>1. TypeOK'
    BY <1>12 DEF indyKeyForLocalDid, Continue, Inv, TypeOK, Phase, SetUp, Fetching, ProcessInv
  <2>2. OneIdentity'
    BY <1>12 DEF indyKeyForLocalDid, Continue, Inv, TypeOK, OneIdentity
  <2>3. ProcessInv(p)'
    BY <1>12 DEF indyKeyForLocalDid, Continue, Inv, TypeOK, ProcessInv, SetUp, Early, Fetching
  <2>4. FilesInv(p)'
    BY <1>12 DEF indyKeyForLocalDid, Continue, Inv, TypeOK, FilesInv, SetUp, Fetching
  <2>5. \A q \in Processes : q # p => Same(q)
    BY <1>12 DEF indyKeyForLocalDid, Continue, Inv, TypeOK, Same
  <2>6. did # NoKey => did' # NoKey
    BY <1>12 DEF indyKeyForLocalDid, Continue
  <2>7. QED
    BY <2>1, <2>2, <2>3, <2>4, <2>5, <2>6, StepOfOne
<1>13. ASSUME NEW p \in Processes, indyCreateAndStoreMyDid(p) PROVE Inv'
  <2>1. CASE buildForwardAgent(p) /\ UNCHANGED <<walletVars, failures>>
    <3>1. phase[p] \in SetUp /\ wallet' \in BOOLEAN /\ did' = did /\ failures' \in Nat
      BY <1>13, <2>1 DEF indyCreateAndStoreMyDid, SetUp, Inv, TypeOK
    <3>2. QED
      BY <2>1, <3>1, FailedAttempt
  <2>2. CASE did \in {NoKey, Seed[p]} /\ did' = Seed[p] /\ Continue(p, "keying")
             /\ UNCHANGED <<cached, verkey, wallet>>
    <3>1. Seed[p] \in Seeds /\ Seed[p] # NoKey
      OBVIOUS
    <3>2. TypeOK'
      BY <2>2, <3>1 DEF Continue, Inv, TypeOK, Phase, SetUp, Fetching
    <3>3. OneIdentity'
      BY <2>2, <3>1 DEF Continue, Inv, TypeOK, OneIdentity
    <3>4. ProcessInv(p)' /\ FilesInv(p)'
      BY <1>13, <2>2, <3>1
      DEF indyCreateAndStoreMyDid, Continue, Inv, TypeOK, ProcessInv, FilesInv, SetUp, Early, Fetching
    <3>5. \A q \in Processes : q # p => Same(q)
      BY <2>2 DEF Continue, Inv, TypeOK, Same
    <3>6. QED
      BY <2>2, <3>1, <3>2, <3>3, <3>4, <3>5, StepOfOne
  <2>3. QED
    BY <1>13, <2>1, <2>2 DEF indyCreateAndStoreMyDid
<1>14. ASSUME NEW p \in Processes, Unreachable(p) PROVE Inv'
  <2>1. wallet' \in BOOLEAN /\ did' = did /\ failures' \in Nat
    BY <1>14 DEF Unreachable, walletVars, Inv, TypeOK
  <2>2. QED
    BY <1>14, <2>1, FailedAttempt DEF Unreachable
<1>15. ASSUME NEW p \in Processes, StepFails(p) PROVE Inv'
  <2>1. wallet' \in BOOLEAN /\ (did' = did \/ (did = NoKey /\ did' \in Seeds))
    BY <1>15 DEF StepFails, walletVars, Inv, TypeOK
  <2>2. failures' \in Nat
    BY <1>15 DEF StepFails, Inv, TypeOK
  <2>3. QED
    BY <1>15, <2>1, <2>2, FailedAttempt DEF StepFails
<1>16. ASSUME NEW p \in Processes, getForwardAgentInfo(p) PROVE Inv'
  <2>1. TypeOK' /\ OneIdentity'
    BY <1>16 DEF getForwardAgentInfo, Inv, TypeOK, OneIdentity
  <2>2. ASSUME NEW q \in Processes PROVE ProcessInv(q)' /\ FilesInv(q)'
    BY <1>16 DEF getForwardAgentInfo, Inv, ProcessInv, FilesInv
  <2>3. QED
    BY <2>1, <2>2 DEF Inv
<1>17. CASE Outage
  <2>1. TypeOK' /\ OneIdentity'
    BY <1>17 DEF Outage, Inv, TypeOK, OneIdentity
  <2>2. ASSUME NEW q \in Processes PROVE ProcessInv(q)' /\ FilesInv(q)'
    BY <1>17 DEF Outage, Inv, ProcessInv, FilesInv
  <2>3. QED
    BY <2>1, <2>2 DEF Inv
<1>18. CASE UNCHANGED vars
  <2>1. TypeOK' /\ OneIdentity'
    BY <1>18 DEF vars, Inv, TypeOK, OneIdentity
  <2>2. ASSUME NEW q \in Processes PROVE ProcessInv(q)' /\ FilesInv(q)'
    BY <1>18 DEF vars, Inv, ProcessInv, FilesInv
  <2>3. QED
    BY <2>1, <2>2 DEF Inv
<1>19. QED
  BY <1>1, <1>2, <1>3, <1>4, <1>5, <1>6, <1>7, <1>8, <1>9, <1>10, <1>11, <1>12, <1>13, <1>14, <1>15, <1>16, <1>17, <1>18
  DEF Next, Step

\* The inductive invariant, from which what follows is read off.
THEOREM Invariance == Spec => []Inv
<1>1. Init => Inv
  BY InitInv
<1>2. Inv /\ [Next]_vars => Inv'
  BY NextInv
<1>3. QED
  BY <1>1, <1>2, PTL DEF Spec

\* The variables keep their types; in particular the attempts are bounded.
THEOREM TypeCorrect == Spec => []TypeOK
<1>1. Inv => TypeOK
  BY DEF Inv
<1>2. QED
  BY <1>1, Invariance, PTL

\* The agency has one verkey, in all processes and towards all clients
\* (entity-fwa.js:38-53).
THEOREM Identity == Spec => []OneIdentity
<1>1. Inv => OneIdentity
  BY DEF Inv
<1>2. QED
  BY <1>1, Invariance, PTL

\* What is under way for certificate and key of a process, seen from its phase.
LEMMA SpoiltStep == Inv /\ Inv' /\ [Next]_vars =>
  \A p \in Processes :
    Spoilt(p) => ~At(p, "listening")' /\ (Spoilt(p)' \/ file'[p] = NoFiles)
<1> SUFFICES ASSUME Inv, Inv', [Next]_vars, NEW p \in Processes, Spoilt(p)
             PROVE  ~At(p, "listening")' /\ (Spoilt(p)' \/ file'[p] = NoFiles)
  OBVIOUS
<1> USE DEF fileVars, processVars, walletVars, boundVars, Goes, At, Exists, Usable, Spoilt
<1> DEFINE Left == /\ UNCHANGED <<config, file>>
                   /\ piping' = piping \/ \E q \in Processes : piping' = [piping EXCEPT ![q] = {}]
                   /\ phase'[p] \notin {"listening", "fetchingKey"} \/ phase'[p] = phase[p]
<1>1. phase[p] # "listening"
  BY DEF Inv, FilesInv
<1>2. phase \in [Processes -> Phase] /\ piping \in [Processes -> SUBSET Files] /\ file \in [Processes -> [Files -> Content]]
  BY DEF Inv, TypeOK
<1>3. ASSUME Left PROVE ~At(p, "listening")' /\ Spoilt(p)'
  BY <1>1, <1>2, <1>3
<1>4. ASSUME NEW q \in Processes, run(q) PROVE ~At(p, "listening")' /\ (Spoilt(p)' \/ file'[p] = NoFiles)
  <2>1. phase'[p] \notin {"listening", "fetchingKey"} \/ (q # p /\ phase'[p] = phase[p])
    BY <1>1, <1>2, <1>4 DEF run
  <2>2. file'[p] = file[p] \/ file'[p] = NoFiles
    BY <1>2, <1>4 DEF run
  <2>3. UNCHANGED <<config, piping>>
    BY <1>4 DEF run
  <2>4. QED
    BY <1>1, <2>1, <2>2, <2>3
<1>5. ASSUME NEW q \in Processes,
             \/ fetchEcsTaskMetadata(q)
             \/ fetchServerCertsFromS3(q)
             \/ waitUntilConnectsToMysql(q)
      PROVE  Left
  BY <1>2, <1>5 DEF fetchEcsTaskMetadata, fetchServerCertsFromS3, fetchAwsAsset, waitUntilConnectsToMysql
<1>6. ASSUME NEW q \in Processes,
             \/ indyAssureWallet(q) \/ getWalletHandle(q) \/ indyDidExists(q)
             \/ indyCreateAndStoreMyDid(q) \/ indyKeyForLocalDid(q)
             \/ Unreachable(q) \/ StepFails(q)
      PROVE  Left
  <2>1. UNCHANGED <<config, file, piping>>
    BY <1>6 DEF indyAssureWallet, getWalletHandle, indyDidExists, indyCreateAndStoreMyDid,
                indyKeyForLocalDid, Unreachable, StepFails, Continue, buildForwardAgent
  <2>2. \E ph \in SetUp \cup {"building"} : Goes(q, ph)
    BY <1>6 DEF indyAssureWallet, getWalletHandle, indyDidExists, indyCreateAndStoreMyDid,
                indyKeyForLocalDid, Unreachable, StepFails, Continue, buildForwardAgent, SetUp
  <2>3. QED
    BY <1>2, <2>1, <2>2 DEF SetUp
<1>7. ASSUME NEW q \in Processes, exit(q) \/ getForwardAgentInfo(q) PROVE Left
  BY <1>2, <1>7 DEF exit, getForwardAgentInfo
<1>8. ASSUME NEW q \in Processes, createWebServer(q) PROVE Left
  BY <1>2, <1>8 DEF createWebServer
<1>9. ASSUME NEW q \in Processes, AssetSent(q) PROVE ~At(p, "listening")' /\ Spoilt(p)'
  <2>1. CASE q # p
    BY <1>1, <1>2, <1>9, <2>1 DEF AssetSent, fetchAwsAsset
  <2>2. CASE q = p
    <3>1. At(p, "fetchingCert") /\ Exists(p, "key")
      BY <1>9, <2>2 DEF AssetSent, Inv, FilesInv
    <3>2. Goes(p, "exited") /\ UNCHANGED <<config, piping>>
      BY <1>2, <1>9, <2>2, <3>1 DEF AssetSent, fetchAwsAsset
    <3>3. file' = file \/ file' = [file EXCEPT ![p]["cert"] = "partial"]
      BY <1>9, <2>2, <3>1 DEF AssetSent
    <3>4. file'[p] = file[p] \/ (file'[p]["cert"] = "partial" /\ file'[p]["key"] = file[p]["key"])
      <4>1. file[p] \in [Files -> Content] /\ "cert" \in Files /\ "key" \in Files
        BY <1>2 DEF Files
      <4>2. CASE file' = [file EXCEPT ![p]["cert"] = "partial"]
        <5>1. file'[p] = [file[p] EXCEPT !["cert"] = "partial"]
          BY <1>2, <4>2
        <5>2. QED
          BY <4>1, <5>1
      <4>3. QED
        BY <3>3, <4>2
    <3>5. QED
      <4>1. phase'[p] = "exited" /\ config'[p] = config[p] /\ piping'[p] = piping[p]
        BY <1>2, <3>2
      <4>2. file'[p]["key"] # "absent"
        BY <3>1, <3>4
      <4>3. \E f \in Files : file'[p][f] # "whole"
        <5>1. CASE file'[p] = file[p]
          <6>1. ~Usable(p)
            OBVIOUS
          <6>2. QED
            BY <5>1, <6>1
        <5>2. CASE file'[p]["cert"] = "partial"
          BY <5>2 DEF Files
        <5>3. QED
          BY <3>4, <5>1, <5>2
      <4>4. QED
        BY <4>1, <4>2, <4>3
  <2>3. QED
    BY <2>1, <2>2
<1>10. ASSUME NEW q \in Processes, NEW f \in Files, Piped(q, f)
       PROVE  ~At(p, "listening")' /\ Spoilt(p)'
  <2>1. q # p /\ UNCHANGED <<config, phase>>
    BY <1>10 DEF Piped
  <2>2. file'[p] = file[p] /\ piping'[p] = piping[p]
    BY <1>2, <1>10, <2>1 DEF Piped
  <2>3. QED
    BY <1>1, <2>1, <2>2
<1>11. CASE Outage \/ UNCHANGED vars
  BY <1>1, <1>11 DEF Outage, vars
<1>12. QED
  BY <1>3, <1>4, <1>5, <1>6, <1>7, <1>8, <1>9, <1>10, <1>11 DEF Next, Step

\* Half a download is never completed and never served (download-certs.js:25, :46,
\* server.js:41).
THEOREM SpoiltFinal == Spec => SpoiltIsFinal
<1>1. Inv /\ Inv' /\ [Next]_vars =>
        [\A p \in Processes :
           Spoilt(p) => ~At(p, "listening")' /\ (Spoilt(p)' \/ file'[p] = NoFiles)]_vars
  BY SpoiltStep
<1>2. QED
  BY <1>1, Invariance, PTL DEF Spec, SpoiltIsFinal

\* A verkey is only missing when every attempt has failed (entity-fwa.js:63-74).
THEOREM NoVerkey == Spec => []NoVerkeyOnlyAfterAllAttempts
<1>1. Inv => NoVerkeyOnlyAfterAllAttempts
  BY DEF Inv, ProcessInv, NoVerkeyOnlyAfterAllAttempts, At
<1>2. QED
  BY <1>1, Invariance, PTL
-----------------------------------------------------------------------------
(* A start ends after a bounded number of steps.                           *)

\* What the number of steps depends on.
SameCount(p) == phase'[p] = phase[p] /\ tries'[p] = tries[p] /\ attempt'[p] = attempt[p]

Going(p) == phase[p] \notin {"off", "listening", "exited"}

CountOK == \A p \in Processes : StepsLeft(p) \in Nat

\* The number never runs below zero, and there is a step left while the start goes on.
LEMMA Counted ==
  ASSUME Inv, NEW p \in Processes
  PROVE  StepsLeft(p) \in Nat /\ (Going(p) => StepsLeft(p) >= 1)
<1>1. /\ phase[p] \in Phase
      /\ tries[p] \in Nat /\ attempt[p] \in Nat
      /\ phase[p] \in Early => tries[p] <= AttemptsThreshold
      /\ phase[p] \in SetUp => attempt[p] < Attempts
  BY AttemptsAssumption DEF Inv, TypeOK, ProcessInv
<1>2. QED
  BY <1>1, AttemptsAssumption
  DEF StepsLeft, Going, Phase, SetUp, Early, Fetching, At

\* Only its own steps change what a start has left.
LEMMA OthersCount ==
  ASSUME TypeOK, NEW p \in Processes, NEW q \in Processes, q # p,
         \/ run(q) \/ Step(q) \/ StepFails(q) \/ exit(q) \/ getForwardAgentInfo(q)
         \/ \E f \in Files : Piped(q, f)
  PROVE  SameCount(p)
<1> USE DEF TypeOK, SameCount, Goes, Continue, buildForwardAgent, processVars
<1>1. CASE run(q)
  BY <1>1 DEF run
<1>2. CASE fetchEcsTaskMetadata(q) \/ fetchServerCertsFromS3(q) \/ AssetSent(q)
  BY <1>2 DEF fetchEcsTaskMetadata, fetchServerCertsFromS3, AssetSent, fetchAwsAsset
<1>3. CASE waitUntilConnectsToMysql(q) \/ createWebServer(q) \/ exit(q)
  BY <1>3 DEF waitUntilConnectsToMysql, createWebServer, exit
<1>4. CASE indyAssureWallet(q) \/ getWalletHandle(q) \/ indyDidExists(q)
             \/ indyCreateAndStoreMyDid(q) \/ indyKeyForLocalDid(q)
  BY <1>4 DEF indyAssureWallet, getWalletHandle, indyDidExists, indyCreateAndStoreMyDid,
              indyKeyForLocalDid
<1>5. CASE Unreachable(q) \/ StepFails(q)
  BY <1>5 DEF Unreachable, StepFails
<1>6. CASE getForwardAgentInfo(q) \/ \E f \in Files : Piped(q, f)
  BY <1>6 DEF getForwardAgentInfo, Piped
<1>7. QED
  BY <1>1, <1>2, <1>3, <1>4, <1>5, <1>6 DEF Step

\* A failed attempt costs more steps than it gives back.
LEMMA AttemptCounts ==
  ASSUME Inv, NEW p \in Processes, phase[p] \in SetUp, buildForwardAgent(p)
  PROVE  StepsLeft(p)' < StepsLeft(p)
<1>1. attempt[p] \in Nat /\ attempt[p] < Attempts /\ attempt'[p] = attempt[p] + 1
  BY AttemptsAssumption DEF Inv, TypeOK, ProcessInv, buildForwardAgent
<1>2. \/ phase'[p] = "assuring" /\ attempt'[p] < Attempts
      \/ phase'[p] = "building" /\ attempt'[p] = Attempts
  BY <1>1, AttemptFails DEF Inv
<1>3. StepsLeft(p) >= 5 * (Attempts - attempt[p]) - 3
  BY <1>1, AttemptsAssumption DEF StepsLeft, SetUp, At
<1>4. CASE phase'[p] = "assuring"
  <2>1. StepsLeft(p)' = 5 * (Attempts - (attempt[p] + 1)) + 1
    BY <1>1, <1>4, AttemptsAssumption DEF StepsLeft, At
  <2>2. StepsLeft(p) \in Nat
    BY Counted
  <2>3. QED
    BY <1>1, <1>3, <2>1, <2>2, AttemptsAssumption
<1>5. CASE phase'[p] = "building"
  <2>1. StepsLeft(p)' = 1
    BY <1>5 DEF StepsLeft, At
  <2>2. StepsLeft(p) \in Nat
    BY Counted
  <2>3. QED
    BY <1>1, <1>3, <2>1, <2>2, AttemptsAssumption
<1>6. QED
  BY <1>2, <1>4, <1>5

\* Every step of a start counts.
LEMMA StepCounts ==
  ASSUME Inv, NEW p \in Processes, Step(p)
  PROVE  StepsLeft(p)' < StepsLeft(p)
<1>1. /\ phase \in [Processes -> Phase] /\ tries \in [Processes -> 0..AttemptsThreshold + 1]
      /\ attempt[p] \in Nat /\ tries[p] \in Nat
      /\ phase[p] \in Early => tries[p] <= AttemptsThreshold
      /\ phase[p] \in Early \cup SetUp => attempt[p] < Attempts
      /\ StepsLeft(p) \in Nat
  BY AttemptsAssumption, Counted DEF Inv, TypeOK, ProcessInv
<1> USE <1>1, AttemptsAssumption DEF Early, SetUp, Fetching
<1> DEFINE Kept == tries'[p] = tries[p] /\ attempt'[p] = attempt[p]
<1>2. ASSUME NEW ph, Goes(p, ph) PROVE phase'[p] = ph
  BY <1>2 DEF Goes
<1>3. CASE fetchEcsTaskMetadata(p)
  <2>1. phase[p] = "describing" /\ phase'[p] = "certifying" /\ Kept
    BY <1>2, <1>3 DEF fetchEcsTaskMetadata, At
  <2>2. QED
    BY <2>1 DEF StepsLeft, At
<1>4. CASE fetchServerCertsFromS3(p)
  <2>1. phase[p] = "certifying" /\ phase'[p] \in {"connecting", "fetchingCert", "exited"} /\ Kept
    BY <1>2, <1>4 DEF fetchServerCertsFromS3, fetchAwsAsset, At
  <2>2. QED
    BY <2>1 DEF StepsLeft, At
<1>5. CASE AssetSent(p)
  <2>1. /\ \/ phase[p] = "fetchingCert" /\ phase'[p] \in {"fetchingKey", "exited"}
           \/ phase[p] = "fetchingKey" /\ phase'[p] = "connecting"
        /\ Kept
    BY <1>2, <1>5 DEF AssetSent, fetchAwsAsset, At
  <2>2. QED
    BY <2>1 DEF StepsLeft, At
<1>6. CASE waitUntilConnectsToMysql(p)
  <2>1. phase[p] = "connecting" /\ attempt'[p] = attempt[p]
    BY <1>6 DEF waitUntilConnectsToMysql, At
  <2>2. \/ phase'[p] = "assuring" /\ tries'[p] = tries[p]
        \/ phase'[p] = "connecting" /\ tries'[p] = tries[p] + 1 /\ tries'[p] <= AttemptsThreshold
        \/ phase'[p] = "exited"
    BY <1>2, <1>6, <2>1 DEF waitUntilConnectsToMysql
  <2>3. QED
    BY <2>1, <2>2 DEF StepsLeft, At
<1>7. CASE createWebServer(p)
  <2>1. phase[p] = "building" /\ phase'[p] \in {"listening", "exited"}
    BY <1>2, <1>7 DEF createWebServer, At
  <2>2. QED
    BY <2>1 DEF StepsLeft, At
<1>8. CASE indyAssureWallet(p) \/ getWalletHandle(p) \/ indyDidExists(p) \/ indyKeyForLocalDid(p)
  <2>1. /\ \/ phase[p] = "assuring" /\ phase'[p] = "opening"
           \/ phase[p] = "opening" /\ phase'[p] = "looking"
           \/ phase[p] = "looking" /\ phase'[p] \in {"creating", "keying"}
           \/ phase[p] = "keying" /\ phase'[p] = "building"
        /\ Kept
    BY <1>2, <1>8
    DEF indyAssureWallet, getWalletHandle, indyDidExists, indyKeyForLocalDid, Continue, At
  <2>2. QED
    BY <2>1 DEF StepsLeft, At
<1>9. CASE indyCreateAndStoreMyDid(p)
  <2>1. CASE Continue(p, "keying")
    <3>1. phase[p] = "creating" /\ phase'[p] = "keying" /\ Kept
      BY <1>2, <1>9, <2>1 DEF indyCreateAndStoreMyDid, Continue, At
    <3>2. QED
      BY <3>1 DEF StepsLeft, At
  <2>2. CASE buildForwardAgent(p)
    BY <1>9, <2>2, AttemptCounts DEF indyCreateAndStoreMyDid, At
  <2>3. QED
    BY <1>9, <2>1, <2>2 DEF indyCreateAndStoreMyDid
<1>10. CASE Unreachable(p)
  BY <1>10, AttemptCounts DEF Unreachable
<1>11. QED
  BY <1>3, <1>4, <1>5, <1>6, <1>7, <1>8, <1>9, <1>10 DEF Step

\* What is no step of the start leaves it no more steps than it had.
LEMMA OtherStepsCount ==
  ASSUME Inv, [Next]_vars, NEW p \in Processes, Going(p), ~Step(p)
  PROVE  SameCount(p) \/ StepsLeft(p)' < StepsLeft(p)
<1>1. phase \in [Processes -> Phase]
  BY DEF Inv, TypeOK
<1>2. CASE StepFails(p)
  BY <1>2, AttemptCounts DEF StepFails
<1>3. CASE exit(p)
  <2>1. phase'[p] = "exited"
    BY <1>1, <1>3 DEF exit, Goes
  <2>2. StepsLeft(p)' = 0
    BY <2>1 DEF StepsLeft, At
  <2>3. QED
    BY <2>2, Counted
<1>4. CASE getForwardAgentInfo(p) \/ \E f \in Files : Piped(p, f)
  BY <1>4 DEF getForwardAgentInfo, Piped, SameCount, processVars
<1>5. ~run(p)
  BY DEF run, Going
<1>6. ASSUME NEW q \in Processes, q # p,
             \/ run(q) \/ Step(q) \/ StepFails(q) \/ exit(q) \/ getForwardAgentInfo(q)
             \/ \E f \in Files : Piped(q, f)
      PROVE  SameCount(p)
  BY <1>6, OthersCount DEF Inv
<1>7. CASE Outage \/ UNCHANGED vars
  BY <1>7 DEF Outage, vars, processVars, SameCount
<1>8. QED
  BY <1>2, <1>3, <1>4, <1>5, <1>6, <1>7 DEF Next

\* No start goes in circles: with each step it has fewer left
\* (storage.js:27-40, entity-fwa.js:66-74).
THEOREM StepsRunOut == Spec => EveryStepCounts
<1>1. Inv => CountOK
  BY Counted DEF CountOK
<1>2. Inv /\ CountOK /\ CountOK' /\ [Next]_vars =>
        [\A p \in Processes :
           phase[p] \notin {"off", "listening", "exited"} =>
             /\ StepsLeft(p)' \in 0..StepsLeft(p)
             /\ Step(p) => StepsLeft(p)' # StepsLeft(p)]_vars
  <2> SUFFICES ASSUME Inv, CountOK, CountOK', [Next]_vars, NEW p \in Processes, Going(p)
               PROVE  /\ StepsLeft(p)' \in 0..StepsLeft(p)
                      /\ Step(p) => StepsLeft(p)' # StepsLeft(p)
    BY DEF Going
  <2>1. StepsLeft(p) \in Nat
    BY DEF CountOK
  <2>2. StepsLeft(p)' \in Nat
    BY DEF CountOK
  <2>3. CASE Step(p)
    BY <2>1, <2>2, <2>3, StepCounts
  <2>4. CASE ~Step(p)
    <3>1. SameCount(p) => StepsLeft(p)' = StepsLeft(p)
      BY DEF SameCount, StepsLeft, At
    <3>2. QED
      BY <2>1, <2>2, <2>4, <3>1, OtherStepsCount
  <2>5. QED
    BY <2>3, <2>4
<1>3. QED
  BY <1>1, <1>2, Invariance, PTL DEF Spec, EveryStepCounts
=============================================================================
