-------------------------- MODULE Onboarding_proofs -------------------------
(***************************************************************************)
(* Proofs about Onboarding, for any number of processes, requests, crashes *)
(* and failures, whether or not the storage keeps wallet names apart.  The *)
(* inductive invariant says what each phase of a request has left behind.  *)
(***************************************************************************)
EXTENDS Onboarding, TLAPS

USE DEF namesUnique

\* Where the wallet of the request exists, holding its key.
HasWallet(r) ==
  \/ phase[r] \in {"did", "pairwise", "save", "register", "resolve", "answered"}
  \/ phase[r] \in {"open", "opened"} /\ opening[r] = WalletOf[r]

RequestInv(r) ==
  /\ HasWallet(r) \/ r \in records => r \in wallets[WalletOf[r]]
  /\ phase[r] \in {"pairwise", "save", "register", "resolve", "answered"} \/ r \in records =>
       (namesUnique => didIn[r] = r)
  /\ phase[r] \in {"register", "resolve", "answered"} => r \in records
  /\ phase[r] \in {"resolve", "answered"} => r \in rows

\* A CreateKey under way was sent to an agent that is complete.
TargetInv(k) ==
  phase[k] \notin {"idle", "failed"} => TargetOf[k] \in records /\ TargetOf[k] \in rows

\* A name has one wallet at most, if the storage keeps names apart.
WalletsApart == namesUnique => \A w \in Wallets : \A r, s \in wallets[w] : r = s

\* A handle is of a wallet of its name.
HandlesInv == \A p \in Procs, w \in Wallets : IsOpen(p, w) => openWallets[p][w] \in wallets[w]

Inv ==
  /\ TypeOK
  /\ WalletsApart
  /\ HandlesInv
  /\ \A r \in Requests : RequestInv(r)
  /\ \A k \in CreateKeys : TargetInv(k)
  /\ OpenWalletsAreCached

LEMMA Places ==
  /\ \A r \in Requests : ReqProc[r] \in Procs /\ WalletOf[r] \in Wallets /\ r # NoKey
  /\ \A k \in CreateKeys : k \in Requests /\ k \notin Connects /\ TargetOf[k] \in Connects
                           /\ TargetOf[k] \in Requests /\ WalletOf[k] # WalletOf[TargetOf[k]]
  /\ \A r \in Connects : r \in Requests /\ r \notin CreateKeys
BY RequestsAssumption, WalletNamesDiffer DEF Requests

LEMMA InitInv == Init => Inv
BY Places, BoundAssumption
DEF Init, Inv, TypeOK, Phase, Waiting, RequestInv, HasWallet, TargetInv, OpenWalletsAreCached,
    WalletsApart, HandlesInv, IsOpen

\* Type correctness of one step.
LEMMA NextTyped == TypeOK /\ [Next]_vars => TypeOK'
<1> SUFFICES ASSUME TypeOK, [Next]_vars PROVE TypeOK'
  OBVIOUS
<1> USE Places DEF TypeOK, Phase, Waiting
<1>1. ASSUME NEW r \in Requests, EntityStep(r) \/ StepFails(r) PROVE TypeOK'
  <2>1. CASE createNewRawWalletForEntity(r)
    <3>1. wallets' \in [Wallets -> SUBSET Requests]
      <4>1. wallets[WalletOf[r]] \cup {r} \in SUBSET Requests
        OBVIOUS
      <4>2. wallets' \in {wallets, [wallets EXCEPT ![WalletOf[r]] = wallets[WalletOf[r]] \cup {r}]}
        BY <2>1 DEF createNewRawWalletForEntity
      <4>3. QED
        BY <4>1, <4>2
    <3>2. phase' \in [Requests -> Phase] /\ opening' \in [Requests -> Wallets]
      <4>1. /\ opening' = opening \/ opening' = [opening EXCEPT ![r] = WalletOf[r]]
            /\ Goes(r, "did") \/ Goes(r, "open") \/ Goes(r, "failed")
        BY <2>1 DEF createNewRawWalletForEntity, getWalletHandle
      <4>2. QED
        BY <4>1 DEF Goes
    <3>3. UNCHANGED <<naming, didIn, records, rows, openWallets, openWalletHandlesCache,
                      crashes, failures>>
      BY <2>1 DEF createNewRawWalletForEntity
    <3>4. QED
      BY <3>1, <3>2, <3>3
  <2>2. CASE WalletOpened(r)
    <3>1. openWallets' \in [Procs -> [Wallets -> Requests \cup {NoKey}]]
      <4>1. CASE openWallets' = openWallets
        BY <4>1
      <4>2. ASSUME NEW found \in wallets[opening[r]],
                   openWallets' = [openWallets EXCEPT ![ReqProc[r]][opening[r]] = found]
            PROVE  openWallets' \in [Procs -> [Wallets -> Requests \cup {NoKey}]]
        <5>1. found \in Requests
          OBVIOUS
        <5>2. [openWallets[ReqProc[r]] EXCEPT ![opening[r]] = found]
                \in [Wallets -> Requests \cup {NoKey}]
          BY <5>1
        <5>3. openWallets' = [openWallets EXCEPT
                ![ReqProc[r]] = [openWallets[ReqProc[r]] EXCEPT ![opening[r]] = found]]
          BY <4>2
        <5>4. QED
          BY <5>2, <5>3
      <4>3. QED
        BY <2>2, <4>1, <4>2 DEF WalletOpened
    <3>2. phase' \in [Requests -> Phase]
      BY <2>2 DEF WalletOpened, Goes
    <3>3. QED
      BY <2>2, <3>1, <3>2 DEF WalletOpened, dbVars
  <2>3. CASE HandleCached(r)
    BY <2>3 DEF HandleCached, afterOpening, dbVars, Goes
  <2>4. CASE DidStored(r) \/ saveEntityRecord(r)
    <3>1. openWallets[ReqProc[r]][WalletOf[r]] \in Requests \cup {NoKey}
      <4>1. ReqProc[r] \in Procs /\ WalletOf[r] \in Wallets
        OBVIOUS
      <4>2. openWallets[ReqProc[r]] \in [Wallets -> Requests \cup {NoKey}]
        BY <4>1
      <4>3. QED
        BY <4>1, <4>2
    <3>2. didIn' \in [Requests -> Requests \cup {NoKey}]
      BY <2>4, <3>1 DEF DidStored, saveEntityRecord
    <3>3. phase' \in [Requests -> Phase]
      BY <2>4 DEF DidStored, saveEntityRecord, Goes
    <3>4. QED
      BY <2>4, <3>2, <3>3 DEF DidStored, saveEntityRecord, walletVars
  <2>5. CASE StepFails(r)
    BY <2>5 DEF StepFails, dbVars, walletVars, Goes
  <2>6. QED
    BY <1>1, <2>1, <2>2, <2>3, <2>4, <2>5 DEF EntityStep
<1>2. ASSUME NEW r \in Connects,
             handleMsgVcxV2Connect(r) \/ createAgentRecord(r) \/ resolveEntityAO(r)
      PROVE  TypeOK'
  BY <1>2 DEF handleMsgVcxV2Connect, createAgentRecord, resolveEntityAO, dbVars, walletVars, Goes
<1>3. ASSUME NEW k \in CreateKeys,
             \/ handleCreateKey(k) \/ MessageDecrypted(k)
             \/ savePairwiseData(k) \/ linkAgentToItsConnection(k)
      PROVE  TypeOK'
  BY <1>3 DEF handleCreateKey, getWalletHandle, MessageDecrypted, savePairwiseData,
              linkAgentToItsConnection, dbVars, walletVars, Goes
<1>4. ASSUME NEW p \in Procs, Crash(p) PROVE TypeOK'
  BY <1>4 DEF Crash, dbVars
<1>5. CASE UNCHANGED vars
  BY <1>5 DEF vars, dbVars, walletVars
<1>6. QED
  BY <1>1, <1>2, <1>3, <1>4, <1>5 DEF Next

-----------------------------------------------------------------------------
(* Handles.                                                                *)

\* Whoever works on an entity, or decrypts a message to its agent, has the handle of its
\* wallet, and a request opens its own wallet or the one of its agent.
AtHand(r) ==
  /\ phase[r] \in {"did", "pairwise", "save", "register", "resolve"} =>
       WalletOf[r] \in openWalletHandlesCache[ReqProc[r]]
  /\ phase[r] = "message" =>
       r \in CreateKeys /\ WalletOf[TargetOf[r]] \in openWalletHandlesCache[ReqProc[r]]
  /\ phase[r] = "opened" => IsOpen(ReqProc[r], opening[r])
  /\ phase[r] \in {"open", "opened"} /\ opening[r] # WalletOf[r] =>
       r \in CreateKeys /\ opening[r] = WalletOf[TargetOf[r]]
  /\ phase[r] = "resolve" => r \in Connects
  /\ phase[r] = "pairwise" => r \in CreateKeys

\* A handle is cached for an open wallet only.
HandleInv ==
  /\ \A p \in Procs : \A w \in openWalletHandlesCache[p] : IsOpen(p, w)
  /\ \A r \in Requests : AtHand(r)

\* A step of one request closes no wallet: it has to look to itself alone.
LEMMA OthersAtHand ==
  ASSUME TypeOK, HandleInv, NEW r \in Requests,
         \A s \in Requests : s # r => phase'[s] = phase[s] /\ opening'[s] = opening[s],
         \A p \in Procs : /\ \A w \in Wallets : IsOpen(p, w) => IsOpen(p, w)'
                          /\ openWalletHandlesCache[p] \subseteq openWalletHandlesCache'[p]
  PROVE  \A s \in Requests : s # r => AtHand(s)'
<1> SUFFICES ASSUME NEW s \in Requests, s # r PROVE AtHand(s)'
  OBVIOUS
<1>1. AtHand(s) /\ ReqProc[s] \in Procs /\ opening[s] \in Wallets
  BY Places DEF HandleInv, TypeOK
<1>2. phase'[s] = phase[s] /\ opening'[s] = opening[s]
  OBVIOUS
<1>3. /\ IsOpen(ReqProc[s], opening[s]) => IsOpen(ReqProc[s], opening[s])'
      /\ openWalletHandlesCache[ReqProc[s]] \subseteq openWalletHandlesCache'[ReqProc[s]]
  BY <1>1, <1>2 DEF IsOpen
<1>4. QED
  BY <1>1, <1>2, <1>3 DEF AtHand

\* Steps of one request that open nothing.
LEMMA RequestStepAtHand ==
  ASSUME TypeOK, HandleInv, NEW r \in Requests,
         \/ createNewRawWalletForEntity(r) \/ DidStored(r) \/ saveEntityRecord(r) \/ StepFails(r)
         \/ r \in Connects /\ (handleMsgVcxV2Connect(r) \/ createAgentRecord(r) \/ resolveEntityAO(r))
         \/ r \in CreateKeys /\ (\/ handleCreateKey(r) \/ MessageDecrypted(r)
                                 \/ savePairwiseData(r) \/ linkAgentToItsConnection(r))
  PROVE  HandleInv'
<1> USE Places DEF TypeOK, At, Goes
<1>1. /\ \A s \in Requests : s # r => phase'[s] = phase[s] /\ opening'[s] = opening[s]
      /\ UNCHANGED <<openWallets, openWalletHandlesCache>>
  BY DEF createNewRawWalletForEntity, getWalletHandle, DidStored, saveEntityRecord, StepFails,
     handleMsgVcxV2Connect, createAgentRecord, resolveEntityAO, handleCreateKey,
     MessageDecrypted, savePairwiseData, linkAgentToItsConnection, dbVars, walletVars
<1>2. AtHand(r)'
  <2>1. AtHand(r)
    BY DEF HandleInv
  <2>2. CASE createNewRawWalletForEntity(r)
    BY <2>2 DEF AtHand, createNewRawWalletForEntity, getWalletHandle
  <2>3. CASE DidStored(r) \/ saveEntityRecord(r)
    BY <2>1, <2>3, <1>1 DEF AtHand, DidStored, saveEntityRecord, Requests
  <2>4. CASE StepFails(r)
    BY <2>4 DEF AtHand, StepFails
  <2>5. CASE r \in Connects /\ (handleMsgVcxV2Connect(r) \/ createAgentRecord(r)
                                  \/ resolveEntityAO(r))
    BY <2>1, <2>5, <1>1 DEF AtHand, handleMsgVcxV2Connect, createAgentRecord, resolveEntityAO
  <2>6. CASE r \in CreateKeys /\ handleCreateKey(r)
    BY <2>6 DEF AtHand, handleCreateKey, getWalletHandle
  <2>7. CASE r \in CreateKeys /\ (MessageDecrypted(r) \/ savePairwiseData(r)
                                    \/ linkAgentToItsConnection(r))
    BY <2>1, <2>7, <1>1 DEF AtHand, MessageDecrypted, savePairwiseData, linkAgentToItsConnection
  <2>8. QED
    BY <2>2, <2>3, <2>4, <2>5, <2>6, <2>7
<1>3. \A s \in Requests : s # r => AtHand(s)'
  BY <1>1, OthersAtHand DEF IsOpen
<1>4. QED
  BY <1>1, <1>2, <1>3 DEF HandleInv, IsOpen

\* A wallet is opened before its handle is cached, and cached before it is used.
LEMMA OpeningAtHand ==
  ASSUME TypeOK, HandleInv, NEW r \in Requests, WalletOpened(r) \/ HandleCached(r)
  PROVE  HandleInv'
<1> USE Places DEF TypeOK, At, Goes
<1>1. AtHand(r) /\ \A p \in Procs : \A w \in openWalletHandlesCache[p] : IsOpen(p, w)
  BY DEF HandleInv
<1>2. CASE WalletOpened(r)
  <2>1. /\ \A s \in Requests : s # r => phase'[s] = phase[s] /\ opening'[s] = opening[s]
        /\ UNCHANGED openWalletHandlesCache
    BY <1>2 DEF WalletOpened
  <2>2. \A p \in Procs, w \in Wallets : IsOpen(p, w) => IsOpen(p, w)'
    BY <1>2 DEF WalletOpened, IsOpen
  <2>3. AtHand(r)'
    <3>1. phase'[r] = "opened" => IsOpen(ReqProc[r], opening[r])'
      BY <1>2, RequestsAssumption DEF WalletOpened, IsOpen
    <3>2. opening'[r] = opening[r] /\ phase[r] = "open" /\ phase'[r] \in {"opened", "failed"}
      BY <1>2 DEF WalletOpened
    <3>3. QED
      BY <1>1, <3>1, <3>2 DEF AtHand
  <2>4. \A s \in Requests : s # r => AtHand(s)'
    BY <2>1, <2>2, OthersAtHand
  <2>5. QED
    BY <1>1, <2>1, <2>2, <2>3, <2>4 DEF HandleInv
<1>3. CASE HandleCached(r)
  <2>1. /\ \A s \in Requests : s # r => phase'[s] = phase[s] /\ opening'[s] = opening[s]
        /\ \A p \in Procs : openWalletHandlesCache[p] \subseteq openWalletHandlesCache'[p]
        /\ UNCHANGED openWallets
    BY <1>3 DEF HandleCached
  <2>2. IsOpen(ReqProc[r], opening[r])
    BY <1>1, <1>3 DEF HandleCached, AtHand
  <2>3. AtHand(r)'
    BY <1>1, <1>3 DEF HandleCached, afterOpening, AtHand
  <2>4. \A p \in Procs : \A w \in openWalletHandlesCache'[p] : IsOpen(p, w)'
    BY <1>1, <1>3, <2>1, <2>2 DEF HandleCached, IsOpen
  <2>5. \A s \in Requests : s # r => AtHand(s)'
    BY <2>1, OthersAtHand DEF IsOpen
  <2>6. QED
    BY <2>3, <2>4, <2>5 DEF HandleInv
<1>4. QED
  BY <1>2, <1>3

\* Handles are where they are needed in every state the agency reaches.
LEMMA HandlesAtHand == Spec => [](TypeOK /\ HandleInv)
<1>1. Init => TypeOK /\ HandleInv
  BY InitInv, Places DEF Inv, Init, HandleInv, AtHand
<1>2. TypeOK /\ HandleInv /\ [Next]_vars => TypeOK' /\ HandleInv'
  <2> SUFFICES ASSUME TypeOK, HandleInv, [Next]_vars PROVE HandleInv'
    BY NextTyped
  <2>1. ASSUME NEW p \in Procs, Crash(p) PROVE HandleInv'
    <3>1. \A q \in Procs : q # p => /\ openWallets'[q] = openWallets[q]
                                    /\ openWalletHandlesCache'[q] = openWalletHandlesCache[q]
      BY <2>1 DEF Crash, TypeOK
    <3>2. openWalletHandlesCache'[p] = {}
      BY <2>1 DEF Crash, TypeOK
    <3>3. ASSUME NEW s \in Requests PROVE AtHand(s)'
      <4>1. AtHand(s) /\ opening'[s] = opening[s] /\ ReqProc[s] \in Procs
        BY <2>1, Places DEF HandleInv, Crash
      <4>2. phase'[s] = IF ReqProc[s] = p /\ phase[s] \in Waiting THEN "failed" ELSE phase[s]
        BY <2>1 DEF Crash
      <4>3. phase'[s] # "failed" => phase'[s] = phase[s] /\ (ReqProc[s] # p \/ phase[s] \notin Waiting)
        BY <4>2
      <4>4. CASE phase'[s] = "failed" \/ phase[s] \notin Waiting
        BY <4>3, <4>4 DEF AtHand, Waiting
      <4>5. CASE phase'[s] = phase[s] /\ ReqProc[s] # p
        BY <3>1, <4>1, <4>5 DEF AtHand, IsOpen
      <4>6. QED
        BY <4>3, <4>4, <4>5
    <3>4. QED
      BY <3>1, <3>2, <3>3 DEF HandleInv, IsOpen
  <2>2. CASE UNCHANGED vars
    BY <2>2 DEF vars, walletVars, HandleInv, AtHand, IsOpen
  <2>3. QED
    BY <2>1, <2>2, RequestStepAtHand, OpeningAtHand, Places DEF Next, EntityStep
<1>3. QED
  BY <1>1, <1>2, PTL DEF Spec

-----------------------------------------------------------------------------
(* What the phases of a request have left behind.                          *)

\* A step of one request leaves the others as they are, as long as it removes nothing.
LEMMA OthersKept ==
  ASSUME Inv, TypeOK', NEW r \in Requests,
         \A s \in Requests : s # r => /\ phase'[s] = phase[s] /\ opening'[s] = opening[s]
                                      /\ didIn'[s] = didIn[s],
         \A w \in Wallets : wallets[w] \subseteq wallets'[w],
         naming' = naming,
         records \subseteq records', rows \subseteq rows',
         \A s \in Requests : s # r /\ s \in records' => s \in records
  PROVE  /\ \A s \in Requests : s # r => RequestInv(s)'
         /\ \A k \in CreateKeys : k # r => TargetInv(k)'
         /\ \A k \in CreateKeys : phase[k] \notin {"idle", "failed"} => TargetInv(k)'
<1>1. ASSUME NEW s \in Requests, s # r PROVE RequestInv(s)'
  <2>1. RequestInv(s)
    BY DEF Inv
  <2>2. s \in wallets[WalletOf[s]] => s \in wallets'[WalletOf[s]]
    BY Places
  <2>3. HasWallet(s)' <=> HasWallet(s)
    BY <1>1 DEF HasWallet
  <2>4. QED
    BY <1>1, <2>1, <2>2, <2>3 DEF RequestInv
<1>2. ASSUME NEW k \in CreateKeys, k # r PROVE TargetInv(k)'
  BY <1>2, Places DEF Inv, TargetInv
<1>3. ASSUME NEW k \in CreateKeys, phase[k] \notin {"idle", "failed"} PROVE TargetInv(k)'
  BY <1>3 DEF Inv, TargetInv
<1>4. QED
  BY <1>1, <1>2, <1>3

\* Nothing is opened, and no request leaves the phase in which it caches a handle.
LEMMA CacheKept ==
  ASSUME Inv, openWallets' = openWallets, openWalletHandlesCache' = openWalletHandlesCache,
         \A s \in Requests : phase[s] = "opened" => phase'[s] = "opened" /\ opening'[s] = opening[s]
  PROVE  OpenWalletsAreCached'
BY DEF Inv, OpenWalletsAreCached, At, IsOpen

\* Steps of one request that open nothing.
LEMMA RequestStepInv ==
  ASSUME Inv, HandleInv, NEW r \in Requests,
         \/ createNewRawWalletForEntity(r) \/ DidStored(r) \/ saveEntityRecord(r) \/ StepFails(r)
         \/ r \in Connects /\ (handleMsgVcxV2Connect(r) \/ createAgentRecord(r) \/ resolveEntityAO(r))
         \/ r \in CreateKeys /\ (\/ handleCreateKey(r) \/ MessageDecrypted(r)
                                 \/ savePairwiseData(r) \/ linkAgentToItsConnection(r)),
         TypeOK'
  PROVE  Inv'
<1>1. TypeOK /\ RequestInv(r) /\ (r \in CreateKeys => TargetInv(r))
  BY DEF Inv
<1> USE <1>1, Places DEF TypeOK, At, Goes
<1>2. /\ \A s \in Requests : s # r => /\ phase'[s] = phase[s] /\ opening'[s] = opening[s]
                                      /\ didIn'[s] = didIn[s]
      /\ \A w \in Wallets : wallets[w] \subseteq wallets'[w]
      /\ records \subseteq records' /\ rows \subseteq rows' /\ naming' = naming
      /\ \A s \in Requests : s # r /\ s \in records' => s \in records
      /\ openWallets' = openWallets /\ openWalletHandlesCache' = openWalletHandlesCache
      /\ phase[r] # "opened"
  <2>1. CASE createNewRawWalletForEntity(r)
    BY <2>1 DEF createNewRawWalletForEntity, getWalletHandle
  <2>2. CASE DidStored(r) \/ saveEntityRecord(r)
    BY <2>2 DEF DidStored, saveEntityRecord, walletVars
  <2>3. CASE StepFails(r)
    BY <2>3 DEF StepFails, dbVars, walletVars
  <2>4. CASE handleMsgVcxV2Connect(r) \/ createAgentRecord(r) \/ resolveEntityAO(r)
    BY <2>4 DEF handleMsgVcxV2Connect, createAgentRecord, resolveEntityAO, dbVars, walletVars
  <2>5. CASE \/ handleCreateKey(r) \/ MessageDecrypted(r)
             \/ savePairwiseData(r) \/ linkAgentToItsConnection(r)
    BY <2>5 DEF handleCreateKey, getWalletHandle, MessageDecrypted, savePairwiseData,
                linkAgentToItsConnection, dbVars, walletVars
  <2>6. QED
    BY <2>1, <2>2, <2>3, <2>4, <2>5
<1>3. RequestInv(r)'
  <2> USE DEF RequestInv, HasWallet
  <2>1. CASE createNewRawWalletForEntity(r)
    BY <2>1 DEF createNewRawWalletForEntity, getWalletHandle
  <2>2. CASE DidStored(r)
    <3>1. /\ phase[r] = "did" /\ didIn'[r] = openWallets[ReqProc[r]][WalletOf[r]]
          /\ phase'[r] \in {"save", "pairwise"}
          /\ UNCHANGED <<naming, wallets, records, rows>>
      BY <2>2 DEF DidStored
    <3>2. IsOpen(ReqProc[r], WalletOf[r])
      BY <3>1 DEF HandleInv, AtHand
    <3>3. openWallets[ReqProc[r]][WalletOf[r]] \in wallets[WalletOf[r]] /\ r \in wallets[WalletOf[r]]
      BY <3>1, <3>2 DEF Inv, HandlesInv
    <3>4. namesUnique => openWallets[ReqProc[r]][WalletOf[r]] = r
      BY <3>3 DEF Inv, WalletsApart
    <3>5. QED
      BY <3>1, <3>3, <3>4
  <2>3. CASE saveEntityRecord(r)
    BY <2>3 DEF saveEntityRecord, walletVars
  <2>4. CASE StepFails(r)
    BY <2>4 DEF StepFails, dbVars, walletVars
  <2>5. CASE handleMsgVcxV2Connect(r) \/ createAgentRecord(r) \/ resolveEntityAO(r)
    BY <2>5 DEF handleMsgVcxV2Connect, createAgentRecord, resolveEntityAO, dbVars, walletVars
  <2>6. CASE r \in CreateKeys /\ handleCreateKey(r)
    BY <2>6 DEF handleCreateKey, getWalletHandle, dbVars
  <2>7. CASE MessageDecrypted(r) \/ savePairwiseData(r) \/ linkAgentToItsConnection(r)
    BY <2>7 DEF MessageDecrypted, savePairwiseData, linkAgentToItsConnection, dbVars, walletVars
  <2>8. QED
    BY <2>1, <2>2, <2>3, <2>4, <2>5, <2>6, <2>7
<1>4. ASSUME r \in CreateKeys PROVE TargetInv(r)'
  <2>1. CASE handleCreateKey(r)
    <3>1. RequestInv(TargetOf[r]) /\ phase[TargetOf[r]] = "answered" /\ TargetOf[r] # r
      BY <1>4, <2>1 DEF handleCreateKey, Inv
    <3>2. QED
      BY <1>2, <3>1 DEF TargetInv, RequestInv
  <2>2. CASE ~handleCreateKey(r)
    <3>1. phase[r] \notin {"idle", "failed"}
      BY <1>4, <2>2
      DEF createNewRawWalletForEntity, DidStored, saveEntityRecord, StepFails, Waiting,
          MessageDecrypted, savePairwiseData, linkAgentToItsConnection
    <3>2. QED
      BY <1>2, <1>4, <3>1 DEF TargetInv
  <2>3. QED
    BY <2>1, <2>2
<1>5. /\ \A s \in Requests : RequestInv(s)'
      /\ \A k \in CreateKeys : TargetInv(k)'
  BY <1>2, <1>3, <1>4, OthersKept
<1>6. OpenWalletsAreCached'
  BY <1>2, CacheKept
<1>7. WalletsApart'
  <2>1. CASE createNewRawWalletForEntity(r)
    <3>1. /\ naming' = naming
          /\ \/ wallets' = wallets
             \/ /\ namesUnique => wallets[WalletOf[r]] = {}
                /\ wallets' = [wallets EXCEPT ![WalletOf[r]] = @ \cup {r}]
      BY <2>1 DEF createNewRawWalletForEntity
    <3>2. ASSUME namesUnique', NEW w \in Wallets, NEW s \in wallets'[w], NEW t \in wallets'[w]
          PROVE  s = t
      <4>1. \A u \in wallets'[w] : u \in wallets[w] \/ (w = WalletOf[r] /\ u = r
                                                      /\ (namesUnique => wallets[w] = {}))
        BY <3>1
      <4>2. QED
        BY <3>1, <3>2, <4>1 DEF Inv, WalletsApart
    <3>3. QED
      BY <3>2 DEF WalletsApart
  <2>2. CASE ~createNewRawWalletForEntity(r)
    <3>1. UNCHANGED <<naming, wallets>>
      BY <2>2 DEF DidStored, saveEntityRecord, StepFails, handleMsgVcxV2Connect, createAgentRecord,
         resolveEntityAO, handleCreateKey, MessageDecrypted, savePairwiseData,
         linkAgentToItsConnection, dbVars
    <3>2. QED
      BY <3>1 DEF Inv, WalletsApart
  <2>3. QED
    BY <2>1, <2>2
<1>8. HandlesInv'
  BY <1>2 DEF Inv, HandlesInv, IsOpen
<1>9. QED
  BY <1>5, <1>6, <1>7, <1>8 DEF Inv

\* Opening a wallet and caching its handle.
LEMMA OpeningInv ==
  ASSUME Inv, NEW r \in Requests, WalletOpened(r) \/ HandleCached(r), TypeOK'
  PROVE  Inv'
<1>1. TypeOK /\ RequestInv(r) /\ (r \in CreateKeys => TargetInv(r))
  BY DEF Inv
<1> USE <1>1, Places DEF TypeOK, At, Goes
<1>2. /\ \A s \in Requests : s # r => phase'[s] = phase[s]
      /\ UNCHANGED <<naming, wallets, didIn, records, rows, opening>>
      /\ phase[r] \notin {"idle", "failed"}
  BY DEF WalletOpened, HandleCached, dbVars
<1>3. RequestInv(r)'
  <2> USE DEF RequestInv, HasWallet
  <2>1. CASE WalletOpened(r)
    BY <1>2, <2>1 DEF WalletOpened
  <2>2. CASE HandleCached(r)
    BY <1>2, <2>2 DEF HandleCached, afterOpening
  <2>3. QED
    BY <2>1, <2>2
<1>4. /\ \A s \in Requests : RequestInv(s)'
      /\ \A k \in CreateKeys : TargetInv(k)'
  <2>1. /\ \A s \in Requests : s # r => RequestInv(s)'
        /\ \A k \in CreateKeys : k # r => TargetInv(k)'
        /\ \A k \in CreateKeys : phase[k] \notin {"idle", "failed"} => TargetInv(k)'
    BY <1>2, OthersKept
  <2>2. QED
    BY <1>2, <1>3, <2>1
<1>5. OpenWalletsAreCached'
  <2> SUFFICES ASSUME NEW p \in Procs, NEW w \in Wallets, openWallets'[p][w] # NoKey
               PROVE  \/ w \in openWalletHandlesCache'[p]
                      \/ \E s \in Requests : /\ ReqProc[s] = p /\ phase'[s] = "opened"
                                             /\ opening'[s] = w
    BY DEF OpenWalletsAreCached, IsOpen
  <2>1. openWallets[p][w] # NoKey =>
          \/ w \in openWalletHandlesCache[p]
          \/ \E s \in Requests : ReqProc[s] = p /\ phase[s] = "opened" /\ opening[s] = w
    BY DEF Inv, OpenWalletsAreCached, IsOpen
  <2>2. CASE WalletOpened(r)
    <3>1. openWalletHandlesCache' = openWalletHandlesCache /\ phase[r] = "open"
      BY <2>2 DEF WalletOpened
    <3>2. CASE openWallets[p][w] # NoKey
      BY <1>2, <2>1, <3>1, <3>2
    <3>3. CASE openWallets[p][w] = NoKey
      <4>1. p = ReqProc[r] /\ w = opening[r] /\ phase'[r] = "opened"
        BY <2>2, <3>3 DEF WalletOpened
      <4>2. QED
        BY <1>2, <4>1
    <3>4. QED
      BY <3>2, <3>3
  <2>3. CASE HandleCached(r)
    <3>1. /\ openWallets' = openWallets
          /\ opening[r] \in openWalletHandlesCache'[ReqProc[r]]
          /\ openWalletHandlesCache[p] \subseteq openWalletHandlesCache'[p]
      BY <2>3 DEF HandleCached
    <3>2. QED
      BY <1>2, <2>1, <3>1
  <2>4. QED
    BY <2>2, <2>3
<1>6. WalletsApart'
  BY <1>2 DEF Inv, WalletsApart
<1>7. HandlesInv'
  <2>1. CASE WalletOpened(r)
    <3>1. \/ openWallets' = openWallets
          \/ \E found \in wallets[opening[r]] :
               openWallets' = [openWallets EXCEPT ![ReqProc[r]][opening[r]] = found]
      BY <2>1 DEF WalletOpened
    <3>2. ASSUME NEW p \in Procs, NEW w \in Wallets
          PROVE  \/ openWallets'[p][w] = openWallets[p][w]
                 \/ openWallets'[p][w] \in wallets[w]
      <4>1. CASE openWallets' = openWallets
        BY <4>1
      <4>2. ASSUME NEW found \in wallets[opening[r]],
                   openWallets' = [openWallets EXCEPT ![ReqProc[r]][opening[r]] = found]
            PROVE  \/ openWallets'[p][w] = openWallets[p][w]
                   \/ openWallets'[p][w] \in wallets[w]
        <5>1. openWallets[p] \in [Wallets -> Requests \cup {NoKey}]
          OBVIOUS
        <5>2. openWallets'[p] = IF p = ReqProc[r]
                                THEN [openWallets[p] EXCEPT ![opening[r]] = found]
                                ELSE openWallets[p]
          BY <4>2
        <5>3. QED
          BY <5>1, <5>2
      <4>3. QED
        BY <3>1, <4>1, <4>2
    <3>3. QED
      BY <1>2, <3>2 DEF Inv, HandlesInv, IsOpen
  <2>2. CASE HandleCached(r)
    BY <1>2, <2>2 DEF HandleCached, Inv, HandlesInv, IsOpen
  <2>3. QED
    BY <2>1, <2>2
<1>8. QED
  BY <1>4, <1>5, <1>6, <1>7 DEF Inv

\* A crash ends requests and forgets the handles of its process; the tables stay.
LEMMA CrashInv ==
  ASSUME Inv, NEW p \in Procs, Crash(p), TypeOK'
  PROVE  Inv'
<1> USE Places DEF Crash, dbVars
<1>1. \A s \in Requests : /\ phase'[s] = "failed" \/ phase'[s] = phase[s]
                          /\ ReqProc[s] # p => phase'[s] = phase[s]
  BY DEF Inv, TypeOK
<1>2. ASSUME NEW s \in Requests PROVE RequestInv(s)'
  BY <1>1 DEF Inv, RequestInv, HasWallet
<1>3. ASSUME NEW k \in CreateKeys PROVE TargetInv(k)'
  BY <1>1 DEF Inv, TargetInv
<1>4. \A q \in Procs, w \in Wallets : IsOpen(q, w)' =>
        /\ q # p /\ IsOpen(q, w) /\ openWallets'[q] = openWallets[q]
        /\ openWalletHandlesCache'[q] = openWalletHandlesCache[q]
  BY DEF Inv, TypeOK, IsOpen
<1>5. OpenWalletsAreCached'
  BY <1>1, <1>4 DEF Inv, OpenWalletsAreCached, At
<1>6. WalletsApart' /\ HandlesInv'
  BY <1>4 DEF Inv, WalletsApart, HandlesInv
<1>7. QED
  BY <1>2, <1>3, <1>5, <1>6 DEF Inv

\* The inductive invariant holds in every state the agency reaches.
THEOREM Invariance == Spec => []Inv
<1>1. Inv /\ TypeOK /\ HandleInv /\ [Next]_vars => Inv'
  <2> SUFFICES ASSUME Inv, HandleInv, [Next]_vars PROVE Inv'
    OBVIOUS
  <2>1. TypeOK'
    BY NextTyped DEF Inv
  <2>2. CASE Next
    BY <2>1, <2>2, RequestStepInv, OpeningInv, CrashInv, Places DEF Next, EntityStep
  <2>3. CASE UNCHANGED vars
    BY <2>1, <2>3
    DEF vars, dbVars, walletVars, Inv, RequestInv, HasWallet, TargetInv, OpenWalletsAreCached, At,
        WalletsApart, HandlesInv, IsOpen
  <2>4. QED
    BY <2>2, <2>3
<1>2. QED
  BY InitInv, HandlesAtHand, <1>1, PTL DEF Spec

\* The variables keep their types: in particular every wallet keeps the key of a request, and
\* a process opens and caches only wallets that have a name (service-indy-wallets.js:39-61).
THEOREM TypeCorrect == Spec => []TypeOK
<1>1. Inv => TypeOK
  BY DEF Inv
<1>2. QED
  BY Invariance, <1>1, PTL

\* Where the storage keeps wallet names apart, at most one agent is recorded per owner and
\* one connection per pairwise DID, for any number of concurrent and repeated requests
\* (agent-internal.js:23-28).
THEOREM OneEntity == Spec => []OneEntityPerWallet
<1>1. Inv => OneEntityPerWallet
  <2> SUFFICES ASSUME Inv, namesUnique, NEW r \in records, NEW s \in records,
                      WalletOf[r] = WalletOf[s]
               PROVE  r = s
    BY DEF OneEntityPerWallet
  <2>1. r \in wallets[WalletOf[r]] /\ s \in wallets[WalletOf[r]] /\ WalletOf[r] \in Wallets
    BY Places DEF Inv, TypeOK, RequestInv
  <2>2. QED
    BY <2>1 DEF Inv, WalletsApart
<1>2. QED
  BY Invariance, <1>1, PTL

\* A recorded entity has a wallet with its key; where the storage keeps wallet names apart
\* its DID is in that one (agent.js:49-65, service-indy-wallets.js:39-61).
THEOREM RecordsUsable == Spec => []RecordsOpenTheirWallet
<1>1. Inv => RecordsOpenTheirWallet
  BY DEF Inv, TypeOK, RequestInv, RecordsOpenTheirWallet
<1>2. QED
  BY Invariance, <1>1, PTL

\* What was answered is complete, whatever failed in between
\* (entity-fwa.js:110-128, agent.js:235-240).
THEOREM AnswersComplete == Spec => []AnsweredIsComplete
<1>1. Inv => AnsweredIsComplete
  BY DEF Inv, RequestInv, TargetInv, AnsweredIsComplete, At
<1>2. QED
  BY Invariance, <1>1, PTL

\* A wallet open in the library is cached, or about to be
\* (service-indy-wallets.js:39-51).
THEOREM OpenIsCached == Spec => []OpenWalletsAreCached
<1>1. Inv => OpenWalletsAreCached
  BY DEF Inv
<1>2. QED
  BY Invariance, <1>1, PTL

\* No request waits for a step that cannot be taken: whoever works on an entity has its
\* wallet at hand, and the look-up that ends a Connect finds the record
\* (service-indy-wallets.js:39-51, entity-fwa.js:110-128).
THEOREM NoneStuck == Spec => []NoRequestIsStuck
<1>1. Inv /\ HandleInv => NoRequestIsStuck
  BY Places DEF Inv, RequestInv, HandleInv, AtHand, NoRequestIsStuck, At
<1>2. QED
  BY Invariance, HandlesAtHand, <1>1, PTL

\* No step brings a failed request back, removes a wallet, or records an entity which is
\* not about to be saved.
LEMMA FailedStays ==
  ASSUME Inv, Next, NEW r \in Requests, phase[r] = "failed"
  PROVE  /\ phase'[r] = "failed"
         /\ r \in records' => r \in records
         /\ \A w \in Wallets : wallets[w] \subseteq wallets'[w]
         /\ naming' = naming
<1>1. TypeOK
  BY DEF Inv
<1> USE <1>1, Places DEF TypeOK, At, Goes, Waiting
<1>2. ASSUME NEW s \in Requests, EntityStep(s) \/ StepFails(s)
      PROVE  /\ phase'[r] = "failed"
             /\ r \in records' => r \in records
             /\ \A w \in Wallets : wallets[w] \subseteq wallets'[w]
             /\ naming' = naming
  <2>1. CASE createNewRawWalletForEntity(s)
    BY <2>1 DEF createNewRawWalletForEntity, getWalletHandle
  <2>2. CASE ~createNewRawWalletForEntity(s)
    <3>1. phase'[r] = "failed" /\ UNCHANGED <<wallets, naming>>
      BY <1>2, <2>2 DEF EntityStep, WalletOpened, HandleCached, DidStored, saveEntityRecord,
         StepFails, dbVars, walletVars
    <3>2. r \in records' => r \in records
      BY <1>2, <2>2 DEF EntityStep, WalletOpened, HandleCached, DidStored, saveEntityRecord,
         StepFails, dbVars
    <3>3. QED
      BY <3>1, <3>2
  <2>3. QED
    BY <2>1, <2>2
<1>3. ASSUME NEW s \in Connects,
             handleMsgVcxV2Connect(s) \/ createAgentRecord(s) \/ resolveEntityAO(s)
      PROVE  phase'[r] = "failed" /\ UNCHANGED <<records, wallets, naming>>
  BY <1>3 DEF handleMsgVcxV2Connect, createAgentRecord, resolveEntityAO, dbVars
<1>4. ASSUME NEW k \in CreateKeys,
             \/ handleCreateKey(k) \/ MessageDecrypted(k)
             \/ savePairwiseData(k) \/ linkAgentToItsConnection(k)
      PROVE  phase'[r] = "failed" /\ UNCHANGED <<records, wallets, naming>>
  BY <1>4 DEF handleCreateKey, getWalletHandle, MessageDecrypted, savePairwiseData,
              linkAgentToItsConnection, dbVars
<1>5. ASSUME NEW p \in Procs, Crash(p)
      PROVE  phase'[r] = "failed" /\ UNCHANGED <<records, wallets, naming>>
  BY <1>5 DEF Crash, dbVars
<1>6. QED
  BY <1>2, <1>3, <1>4, <1>5 DEF Next

\* Where the storage keeps wallet names apart, a creation that failed half-way blocks its
\* wallet name for good (service-indy-wallets.js:53-61).
THEOREM OrphansAreForever == Spec => OrphansStay
<1> DEFINE A == \A r \in Requests : namesUnique /\ Orphan(r) =>
                  /\ Orphan(r)'
                  /\ \A s \in Requests : WalletOf[s] = WalletOf[r] => s \notin records'
<1>1. Inv /\ Inv' /\ [Next]_vars => [A]_vars
  <2> SUFFICES ASSUME Inv, Inv', Next, NEW r \in Requests, namesUnique, Orphan(r)
               PROVE  /\ Orphan(r)'
                      /\ \A s \in Requests : WalletOf[s] = WalletOf[r] => s \notin records'
    BY DEF A
  <2>1. Orphan(r)' /\ namesUnique' /\ naming' = naming
    BY FailedStays, Places DEF Orphan, At
  <2>2. ASSUME NEW s \in Requests, WalletOf[s] = WalletOf[r], s \in records' PROVE FALSE
    <3>1. /\ s \in wallets'[WalletOf[r]] /\ r \in wallets'[WalletOf[r]]
          /\ WalletOf[r] \in Wallets /\ r \notin records'
      BY <2>1, <2>2, Places DEF Inv, RequestInv, Orphan
    <3>2. s = r
      BY <2>1, <3>1 DEF Inv, WalletsApart
    <3>3. QED
      BY <2>2, <3>1, <3>2
  <2>3. QED
    BY <2>1, <2>2
<1>2. QED
  BY Invariance, <1>1, PTL DEF Spec, OrphansStay

-----------------------------------------------------------------------------
(* The handlers implement Registry.  What a request waits for is none of   *)
(* its callers' business, only whether it waits.                           *)

Registered == [RG!Next]_(RG!vars)

\* A request moves on, and the state that its callers see with it.
LEMMA StateMoves ==
  ASSUME TypeOK, NEW r \in Requests, NEW ph, Goes(r, ph)
  PROVE  /\ phase[r] \in Waiting /\ ph \in Waiting => UNCHANGED States
         /\ phase[r] = "idle" /\ ph \in Waiting =>
              States[r] = "idle" /\ States' = [States EXCEPT ![r] = "pending"]
         /\ phase[r] \in Waiting /\ ph = "answered" =>
              States[r] = "pending" /\ States' = [States EXCEPT ![r] = "answered"]
         /\ phase[r] \in Waiting /\ ph = "failed" =>
              /\ States[r] = "pending"
              /\ States' = [s \in Requests |-> IF s \in {r} THEN "failed" ELSE States[s]]
<1>1. phase'[r] = ph /\ \A s \in Requests : s # r => phase'[s] = phase[s]
  BY DEF TypeOK, Goes
<1>2. "idle" \notin Waiting /\ "answered" \notin Waiting /\ "failed" \notin Waiting
  BY DEF Waiting
<1>3. QED
  BY <1>1, <1>2 DEF States

\* Nothing that the callers see happens.
LEMMA Unseen == ASSUME UNCHANGED <<naming, wallets, records, rows, States>> PROVE Registered
  BY DEF Registered, RG!vars

\* Requests that wait are refused or fail.
LEMMA Refused ==
  ASSUME NEW failing \in SUBSET Requests, \A r \in failing : States[r] = "pending",
         States' = [s \in Requests |-> IF s \in failing THEN "failed" ELSE States[s]],
         UNCHANGED <<naming, wallets, records, rows>>
  PROVE  Registered
<1>1. RG!Fail(failing)
  BY DEF RG!Fail
<1>2. QED
  BY <1>1 DEF Registered, RG!Next

\* The steps of the wallet service and the record, which all entities have in common.
LEMMA EntityStepImplements ==
  ASSUME Inv, NEW r \in Requests, EntityStep(r) \/ StepFails(r)
  PROVE  Registered
<1>1. TypeOK /\ RequestInv(r) /\ WalletOf[r] \in Wallets
  BY Places DEF Inv
<1>2. "failed" \notin Waiting /\ {"open", "opened", "did", "wallet", "message", "pairwise", "save", "register"}
                                    \subseteq Waiting
  BY DEF Waiting
<1>3. ASSUME phase[r] \in Waiting, Goes(r, "failed"), UNCHANGED <<naming, wallets, records, rows>>
      PROVE  Registered
  <2>1. /\ States[r] = "pending"
        /\ States' = [s \in Requests |-> IF s \in {r} THEN "failed" ELSE States[s]]
    BY <1>1, <1>3, StateMoves
  <2>2. {r} \in SUBSET Requests /\ \A s \in {r} : States[s] = "pending"
    BY <2>1
  <2>3. QED
    BY <1>3, <2>1, <2>2, Refused
<1>4. CASE createNewRawWalletForEntity(r)
  <2>1. CASE ~(namesUnique /\ wallets[WalletOf[r]] # {})
    <3>1. /\ wallets' = [wallets EXCEPT ![WalletOf[r]] = @ \cup {r}]
          /\ UNCHANGED <<naming, records, rows>>
          /\ Goes(r, "did") \/ Goes(r, "open")
          /\ phase[r] = "wallet"
      BY <1>4, <2>1 DEF createNewRawWalletForEntity, getWalletHandle, At
    <3>2. UNCHANGED States /\ States[r] = "pending"
      BY <1>1, <1>2, <3>1, StateMoves DEF States
    <3>3. RG!Claim(r)
      BY <2>1, <3>1, <3>2 DEF RG!Claim
    <3>4. QED
      BY <3>3 DEF Registered, RG!Next
  <2>2. CASE namesUnique /\ wallets[WalletOf[r]] # {}
    BY <1>2, <1>3, <1>4, <2>2 DEF createNewRawWalletForEntity, At
  <2>3. QED
    BY <2>1, <2>2
<1>5. CASE WalletOpened(r)
  <2>1. /\ UNCHANGED <<naming, wallets, records, rows>>
        /\ Goes(r, "opened") \/ Goes(r, "failed")
        /\ phase[r] = "open"
    BY <1>5 DEF WalletOpened, At, dbVars
  <2>2. CASE Goes(r, "failed")
    BY <1>2, <1>3, <2>1, <2>2
  <2>3. CASE Goes(r, "opened")
    BY <1>1, <1>2, <2>1, <2>3, StateMoves, Unseen
  <2>4. QED
    BY <2>1, <2>2, <2>3
<1>6. CASE HandleCached(r) \/ DidStored(r)
  <2>1. /\ UNCHANGED <<naming, wallets, records, rows>>
        /\ \E ph \in {"did", "message", "save", "pairwise"} : Goes(r, ph)
        /\ phase[r] \in {"opened", "did"}
    BY <1>6 DEF HandleCached, afterOpening, DidStored, At, dbVars
  <2>2. UNCHANGED States
    BY <1>1, <1>2, <2>1, StateMoves
  <2>3. QED
    BY <2>1, <2>2, Unseen
<1>7. CASE saveEntityRecord(r)
  <2>1. /\ records' = records \cup {r} /\ UNCHANGED <<naming, wallets, rows>>
        /\ Goes(r, "register") /\ phase[r] = "save"
    BY <1>7 DEF saveEntityRecord, At
  <2>2. UNCHANGED States /\ States[r] = "pending"
    BY <1>1, <1>2, <2>1, StateMoves DEF States
  <2>3. r \in wallets[WalletOf[r]]
    BY <1>1, <2>1 DEF RequestInv, HasWallet
  <2>4. RG!Record(r)
    BY <2>1, <2>2, <2>3 DEF RG!Record
  <2>5. QED
    BY <2>4 DEF Registered, RG!Next
<1>8. CASE StepFails(r)
  BY <1>2, <1>3, <1>8 DEF StepFails, dbVars
<1>9. QED
  BY <1>4, <1>5, <1>6, <1>7, <1>8 DEF EntityStep

\* A request that has its record completes its entity.
LEMMA Completes ==
  ASSUME NEW r \in Requests, States[r] = "pending", r \in records, rows' = rows \cup {r},
         UNCHANGED States \/ States' = [States EXCEPT ![r] = "answered"],
         UNCHANGED <<naming, wallets, records>>
  PROVE  Registered
<1>1. RG!Complete(r) \/ RG!Answer(r)
  BY DEF RG!Complete, RG!Answer
<1>2. QED
  BY <1>1 DEF Registered, RG!Next

\* The steps of Connect.
LEMMA ConnectImplements ==
  ASSUME Inv, NEW r \in Connects,
         handleMsgVcxV2Connect(r) \/ createAgentRecord(r) \/ resolveEntityAO(r)
  PROVE  Registered
<1>1. TypeOK /\ r \in Requests /\ r \notin CreateKeys /\ RequestInv(r)
  BY Places DEF Inv
<1>2. {"wallet", "register", "resolve"} \subseteq Waiting
  BY DEF Waiting
<1>3. CASE handleMsgVcxV2Connect(r)
  <2>1. /\ UNCHANGED <<naming, wallets, records, rows>> /\ Goes(r, "wallet") /\ phase[r] = "idle"
    BY <1>3 DEF handleMsgVcxV2Connect, At, dbVars
  <2>2. States[r] = "idle" /\ States' = [States EXCEPT ![r] = "pending"]
    BY <1>1, <1>2, <2>1, StateMoves
  <2>3. RG!Start(r)
    BY <1>1, <2>1, <2>2 DEF RG!Start
  <2>4. QED
    BY <1>1, <2>3 DEF Registered, RG!Next
<1>4. CASE createAgentRecord(r)
  <2>1. /\ UNCHANGED <<naming, wallets, records>> /\ rows' = rows \cup {r}
        /\ Goes(r, "resolve") /\ phase[r] = "register"
    BY <1>4 DEF createAgentRecord, At
  <2>2. UNCHANGED States /\ States[r] = "pending" /\ r \in records
    BY <1>1, <1>2, <2>1, StateMoves DEF States, RequestInv
  <2>3. QED
    BY <1>1, <2>1, <2>2, Completes
<1>5. CASE resolveEntityAO(r)
  <2>1. /\ UNCHANGED <<naming, wallets, records, rows>> /\ Goes(r, "answered") /\ phase[r] = "resolve"
    BY <1>5 DEF resolveEntityAO, At, dbVars
  <2>2. /\ States[r] = "pending" /\ States' = [States EXCEPT ![r] = "answered"]
        /\ r \in records /\ rows' = rows \cup {r}
    BY <1>1, <1>2, <2>1, StateMoves DEF RequestInv
  <2>3. QED
    BY <1>1, <2>1, <2>2, Completes
<1>6. QED
  BY <1>3, <1>4, <1>5

\* The steps of CreateKey: it starts once the agent it is sent to was answered.
LEMMA CreateKeyImplements ==
  ASSUME Inv, NEW k \in CreateKeys,
         \/ handleCreateKey(k) \/ MessageDecrypted(k)
         \/ savePairwiseData(k) \/ linkAgentToItsConnection(k)
  PROVE  Registered
<1>1. TypeOK /\ k \in Requests /\ RequestInv(k) /\ TargetOf[k] \in Requests
  BY Places DEF Inv
<1>2. /\ {"wallet", "message", "open", "pairwise", "save", "register"} \subseteq Waiting
      /\ "answered" \notin Waiting /\ "failed" \notin Waiting
  BY DEF Waiting
<1>3. CASE handleCreateKey(k)
  <2>1. /\ UNCHANGED <<naming, wallets, records, rows>>
        /\ Goes(k, "message") \/ Goes(k, "open")
        /\ phase[k] = "idle" /\ phase[TargetOf[k]] = "answered"
    BY <1>3 DEF handleCreateKey, getWalletHandle, At, dbVars
  <2>2. /\ States[k] = "idle" /\ States' = [States EXCEPT ![k] = "pending"]
        /\ States[TargetOf[k]] = "answered"
    BY <1>1, <1>2, <2>1, StateMoves DEF States
  <2>3. RG!Start(k)
    BY <1>1, <2>1, <2>2 DEF RG!Start
  <2>4. QED
    BY <1>1, <2>3 DEF Registered, RG!Next
<1>4. CASE savePairwiseData(k)
  BY <1>1, <1>2, <1>4, StateMoves, Unseen DEF savePairwiseData, At, dbVars
<1>5. CASE linkAgentToItsConnection(k)
  <2>1. /\ UNCHANGED <<naming, wallets, records>> /\ rows' = rows \cup {k}
        /\ Goes(k, "answered") /\ phase[k] = "register"
    BY <1>5 DEF linkAgentToItsConnection, At
  <2>2. /\ States[k] = "pending" /\ States' = [States EXCEPT ![k] = "answered"]
        /\ k \in records
    BY <1>1, <1>2, <2>1, StateMoves DEF RequestInv
  <2>3. QED
    BY <1>1, <2>1, <2>2, Completes
<1>6. CASE MessageDecrypted(k)
  <2>1. /\ UNCHANGED <<naming, wallets, records, rows>> /\ phase[k] = "message"
        /\ Goes(k, "wallet") \/ Goes(k, "failed")
    BY <1>6 DEF MessageDecrypted, At, dbVars
  <2>2. CASE Goes(k, "wallet")
    BY <1>1, <1>2, <2>1, <2>2, StateMoves, Unseen
  <2>3. CASE Goes(k, "failed")
    <3>1. /\ States[k] = "pending"
          /\ States' = [s \in Requests |-> IF s \in {k} THEN "failed" ELSE States[s]]
      BY <1>1, <1>2, <2>1, <2>3, StateMoves
    <3>2. {k} \in SUBSET Requests /\ \A s \in {k} : States[s] = "pending"
      BY <1>1, <3>1
    <3>3. QED
      BY <2>1, <3>1, <3>2, Refused
  <2>4. QED
    BY <2>1, <2>2, <2>3
<1>7. QED
  BY <1>3, <1>4, <1>5, <1>6

\* A crash fails all requests that its process was serving.
LEMMA CrashImplements ==
  ASSUME Inv, NEW p \in Procs, Crash(p)
  PROVE  Registered
<1> DEFINE failing == {r \in Requests : ReqProc[r] = p /\ phase[r] \in Waiting}
<1>1. /\ failing \in SUBSET Requests /\ \A r \in failing : States[r] = "pending"
      /\ UNCHANGED <<naming, wallets, records, rows>>
  BY DEF States, Crash, dbVars
<1>2. \A r \in Requests : phase'[r] = IF r \in failing THEN "failed" ELSE phase[r]
  BY DEF Crash
<1>3. "failed" \notin Waiting
  BY DEF Waiting
<1> HIDE DEF failing
<1>4. States' = [r \in Requests |-> IF r \in failing THEN "failed" ELSE States[r]]
  BY <1>2, <1>3 DEF States
<1>5. QED
  BY <1>1, <1>4, Refused

\* Nobody has asked for anything at first.
LEMMA InitRegistered == Init => RG!Init
<1> SUFFICES ASSUME Init PROVE RG!Init
  OBVIOUS
<1>1. States = [r \in Requests |-> "idle"]
  BY DEF Init, States, Waiting
<1>2. QED
  BY <1>1 DEF Init, RG!Init

\* Whatever competes, fails or dies, only who claimed a name is recorded and answered, and
\* where the storage keeps wallet names apart a name is claimed once (service-indy-wallets.js:53-61, entity-fwa.js:110-128,
\* agent.js:195-240).
THEOREM Implementation == Spec => ImplementsRegistry
<1>1. Inv /\ [Next]_vars => [RG!Next]_(RG!vars)
  <2> SUFFICES ASSUME Inv, [Next]_vars PROVE Registered
    BY DEF Registered
  <2>1. CASE Next
    BY <2>1, EntityStepImplements, ConnectImplements, CreateKeyImplements, CrashImplements DEF Next
  <2>2. CASE UNCHANGED vars
    BY <2>2, Unseen DEF vars, dbVars, States
  <2>3. QED
    BY <2>1, <2>2
<1>2. QED
  BY InitRegistered, Invariance, <1>1, PTL DEF Spec, ImplementsRegistry, RG!Spec
=============================================================================
