-------------------------- MODULE MailboxV2_proofs --------------------------
(***************************************************************************)
(* Proofs about MailboxV2, for any number of processes, messages and       *)
(* faults, and any time and skew of the clocks.                            *)
(***************************************************************************)
EXTENDS MailboxV2, TLAPS

\* What is on the way to redis: a process's own SETs, and the one request of the ack.
Queue ==
  \A p \in Procs : \A i \in DOMAIN rw[p] :
    /\ rw[p][i] \in Deliveries => DeliveryProc[rw[p][i]] = p /\ stage[rw[p][i]] = "accepted"
    /\ rw[p][i] = "GET" => client = "reading" /\ server = p
    /\ rw[p][i] = "DEL" => client = "deleting" /\ server = p
    /\ rw[p][i] \notin Deliveries => \A j \in DOMAIN rw[p] : rw[p][i] = rw[p][j] => i = j

\* An ack is served by a process from its GET to its end.
Serving == server \in Procs <=> client \in {"reading", "read", "deleting"}

\* A process flags messages with times of its clock...
Stamped ==
  \A d \in Deliveries : stage[d] = "accepted" => utime[d] \in 1..now(DeliveryProc[d])

\* ... and in their order, in which the SETs are sent and executed.
InOrder ==
  \A p \in Procs : \A j \in DOMAIN rw[p] : rw[p][j] \in Deliveries =>
    /\ \A i \in 1..j : rw[p][i] \in Deliveries => utime[rw[p][i]] <= utime[rw[p][j]]
    /\ \A d \in Flagged : DeliveryProc[d] = p => utime[d] <= utime[rw[p][j]]

\* If clocks agree, no time is one of the future.
Clocked ==
  InStep => \A p \in Procs :
    flag <= now(p) /\ told <= now(p) /\ \A t \in during : t <= now(p)

\* If clocks agree, what came after the download is not flagged with an earlier time than
\* the one acked.
Late ==
  InStep /\ client \in {"acking", "reading", "read", "deleting"} =>
    \A d \in Deliveries \ seen : stage[d] = "accepted" => told <= utime[d]

\* The flag is not older than what it announces.
Newest == flag # None => \A d \in Flagged \ overtaken : utime[d] <= flag

\* An ack about to delete the flag covers what it has compared.
Covered == AckErasing => \A d \in Flagged \ (raced \cup overtaken) : utime[d] <= told

\* A handler that died is not expected to announce.
Dead == \A d \in Deliveries : stage[d] = "failed" => d \in lost

\* A SET that may come late is of a message whose announcement counts as lost.
LateSets == \A d \in lateSets : stage[d] = "accepted" /\ d \in lost

\* The inductive invariant.
Inv ==
  /\ TypeOK
  /\ Queue /\ Serving /\ Stamped /\ InOrder /\ Clocked /\ Late /\ Newest /\ Covered /\ Dead
  /\ LateSets /\ StoredIsAnnounced

LEMMA Names == "GET" \notin Deliveries /\ "DEL" \notin Deliveries
  BY RequestAssumption

LEMMA InitInv == Init => Inv
<1> SUFFICES ASSUME Init PROVE Inv
  OBVIOUS
<1> USE DeliveryAssumption, BoundAssumption DEF Init, None
<1>1. TypeOK
  <2>1. /\ time \in 1..MaxTime /\ skew \in [Procs -> 0..MaxSkew]
        /\ stage \in [Deliveries -> Stage] /\ utime \in [Deliveries -> Time \cup {None}]
        /\ flag \in Time \cup {None} /\ faults \in Nat
        /\ lateSets \in SUBSET Deliveries /\ lateDels \in [Time -> Nat]
    BY DEF Time, Stage
  <2>2. rw \in [Procs -> Seq(Request)]
    OBVIOUS
  <2>3. client \in Client /\ during \in SUBSET Time /\ told \in Time \cup {None}
        /\ server \in Procs \cup {Nobody} /\ saw \in Time \cup {None}
    BY DEF Client
  <2> QED
    BY <2>1, <2>2, <2>3 DEF TypeOK
<1>2. \A p \in Procs : DOMAIN rw[p] = {}
  <2>1. \A p \in Procs : rw[p] = <<>>
    OBVIOUS
  <2>2. DOMAIN <<>> = {}
    OBVIOUS
  <2> QED
    BY <2>1, <2>2
<1>3. Queue /\ InOrder
  BY <1>2 DEF Queue, InOrder
<1>4. Serving /\ Stamped /\ Late /\ Newest /\ Covered /\ Dead /\ LateSets /\ StoredIsAnnounced
  BY DEF Serving, Stamped, Late, Newest, Covered, AckErasing, Flagged, Dead, LateSets,
         StoredIsAnnounced
<1>5. Clocked
  <2>1. ASSUME NEW p \in Procs PROVE flag <= now(p) /\ told <= now(p) /\ during = {}
    BY DEF now
  <2> QED
    BY <2>1 DEF Clocked
<1> QED
  BY <1>1, <1>3, <1>4, <1>5 DEF Inv

-----------------------------------------------------------------------------
(* The requests on the way to redis                                        *)

\* What is sent comes last.
LEMMA Pushed ==
  ASSUME TypeOK, NEW p \in Procs, NEW r \in Request, Send(p, r)
  PROVE  /\ rw' \in [Procs -> Seq(Request)]
         /\ \A q \in Procs \ {p} : rw'[q] = rw[q]
         /\ Len(rw[p]) \in Nat /\ DOMAIN rw[p] = 1..Len(rw[p])
         /\ DOMAIN rw'[p] = 1..Len(rw[p]) + 1
         /\ \A i \in 1..Len(rw[p]) : rw'[p][i] = rw[p][i]
         /\ rw'[p][Len(rw[p]) + 1] = r
<1>1. rw[p] \in Seq(Request)
  BY DEF TypeOK
<1>2. rw'[p] = Append(rw[p], r) /\ Append(rw[p], r) \in Seq(Request)
  BY <1>1 DEF TypeOK, Send
<1>3. rw' \in [Procs -> Seq(Request)] /\ \A q \in Procs \ {p} : rw'[q] = rw[q]
  BY <1>2 DEF TypeOK, Send
<1> QED
  BY <1>1, <1>2, <1>3

\* What is executed was the first.
LEMMA Popped ==
  ASSUME TypeOK, NEW p \in Procs, rw[p] # <<>>, Executed(p)
  PROVE  /\ rw' \in [Procs -> Seq(Request)]
         /\ \A q \in Procs \ {p} : rw'[q] = rw[q]
         /\ Len(rw[p]) \in Nat \ {0} /\ DOMAIN rw[p] = 1..Len(rw[p])
         /\ DOMAIN rw'[p] = 1..Len(rw[p]) - 1
         /\ \A i \in 1..Len(rw[p]) - 1 : rw'[p][i] = rw[p][i + 1]
         /\ Head(rw[p]) = rw[p][1] /\ Head(rw[p]) \in Request
<1>1. rw[p] \in Seq(Request)
  BY DEF TypeOK
<1>2. Len(rw[p]) \in Nat \ {0} /\ DOMAIN rw[p] = 1..Len(rw[p])
  BY <1>1
<1>3. rw'[p] = Tail(rw[p]) /\ Tail(rw[p]) \in Seq(Request)
  BY <1>1 DEF TypeOK, Executed
<1>4. rw' \in [Procs -> Seq(Request)] /\ \A q \in Procs \ {p} : rw'[q] = rw[q]
  BY <1>3 DEF TypeOK, Executed
<1>5. DOMAIN rw'[p] = 1..Len(rw[p]) - 1 /\ \A i \in 1..Len(rw[p]) - 1 : rw'[p][i] = rw[p][i + 1]
  BY <1>1, <1>2, <1>3
<1>6. Head(rw[p]) = rw[p][1] /\ Head(rw[p]) \in Request
  BY <1>1, <1>2
<1> QED
  BY <1>2, <1>4, <1>5, <1>6

\* Sending a request of an ack does not change which SETs are on the way.
LEMMA PushedSent ==
  ASSUME TypeOK, NEW p \in Procs, NEW r \in Request, Send(p, r), NEW d \in Deliveries
  PROVE  Sent(d)' <=> Sent(d) \/ (d = r /\ DeliveryProc[d] = p)
<1>1. DeliveryProc[d] \in Procs
  BY DeliveryAssumption
<1>2. CASE DeliveryProc[d] # p
  BY <1>1, <1>2, Pushed DEF Sent
<1>3. CASE DeliveryProc[d] = p
  <2>1. Sent(d) => Sent(d)'
    BY <1>3, Pushed DEF Sent
  <2>2. Sent(d)' => Sent(d) \/ d = r
    BY <1>3, Pushed DEF Sent
  <2>3. d = r => Sent(d)'
    <3>1. Len(rw[p]) + 1 \in DOMAIN rw'[p]
      BY Pushed
    <3> QED
      BY <1>3, <3>1, Pushed DEF Sent
  <2> QED
    BY <1>3, <2>1, <2>2, <2>3
<1> QED
  BY <1>2, <1>3

\* Only the SET that is executed is no longer on the way.
LEMMA PoppedSent ==
  ASSUME TypeOK, NEW p \in Procs, rw[p] # <<>>, Executed(p), NEW d \in Deliveries
  PROVE  /\ Sent(d)' => Sent(d)
         /\ Sent(d) => Sent(d)' \/ (d = Head(rw[p]) /\ DeliveryProc[d] = p)
<1>1. DeliveryProc[d] \in Procs
  BY DeliveryAssumption
<1>2. CASE DeliveryProc[d] # p
  BY <1>1, <1>2, Popped DEF Sent
<1>3. CASE DeliveryProc[d] = p
  <2>1. ASSUME NEW i \in DOMAIN rw'[p], rw'[p][i] = d PROVE Sent(d)
    <3>1. i + 1 \in DOMAIN rw[p] /\ rw[p][i + 1] = d
      BY <2>1, Popped
    <3> QED
      BY <1>3, <3>1 DEF Sent
  <2>2. ASSUME NEW i \in DOMAIN rw[p], rw[p][i] = d, d # Head(rw[p]) PROVE Sent(d)'
    <3>1. i - 1 \in DOMAIN rw'[p] /\ rw'[p][i - 1] = d
      BY <2>2, Popped
    <3> QED
      BY <1>3, <3>1 DEF Sent
  <2> QED
    BY <1>3, <2>1, <2>2 DEF Sent
<1> QED
  BY <1>2, <1>3

\* What is on the way stays of its kind as long as the ack does.
LEMMA PoppedQueue ==
  ASSUME Inv, NEW p \in Procs, rw[p] # <<>>, Executed(p), UNCHANGED deliveryVars,
         \/ Head(rw[p]) \in Deliveries /\ client' = client /\ server' = server
         \/ Head(rw[p]) \notin Deliveries
  PROVE  Queue'
<1> USE DEF Inv, deliveryVars
<1> SUFFICES ASSUME NEW q \in Procs, NEW i \in DOMAIN rw'[q]
             PROVE
    /\ rw'[q][i] \in Deliveries => DeliveryProc[rw'[q][i]] = q /\ stage[rw'[q][i]] = "accepted"
    /\ rw'[q][i] = "GET" => client' = "reading" /\ server' = q
    /\ rw'[q][i] = "DEL" => client' = "deleting" /\ server' = q
    /\ rw'[q][i] \notin Deliveries => \A j \in DOMAIN rw'[q] : rw'[q][i] = rw'[q][j] => i = j
  BY DEF Queue
<1>1. PICK n \in Nat :
        n = (IF q = p THEN 1 ELSE 0)
  OBVIOUS
<1>2. \A j \in DOMAIN rw'[q] : j \in Int /\ j + n \in DOMAIN rw[q] /\ rw'[q][j] = rw[q][j + n]
  <2>1. CASE q = p
    BY <1>1, <2>1, Popped
  <2>2. CASE q # p
    <3>1. rw'[q] = rw[q] /\ rw[q] \in Seq(Request)
      BY <2>2, Popped DEF TypeOK
    <3> QED
      BY <1>1, <2>2, <3>1
  <2> QED
    BY <2>1, <2>2
<1>3. /\ rw'[q][i] \in Deliveries => DeliveryProc[rw'[q][i]] = q /\ stage[rw'[q][i]] = "accepted"
      /\ rw'[q][i] \notin Deliveries => \A j \in DOMAIN rw'[q] : rw'[q][i] = rw'[q][j] => i = j
  BY <1>2 DEF Queue
<1>4. ASSUME rw'[q][i] \in {"GET", "DEL"}, Head(rw[p]) \notin Deliveries PROVE FALSE
  <2>1. Head(rw[p]) \in {"GET", "DEL"} /\ 1 \in DOMAIN rw[p] /\ Head(rw[p]) = rw[p][1]
    BY <1>4, Popped DEF Request
  <2>2. i + n \in DOMAIN rw[q] /\ rw[q][i + n] = rw'[q][i]
    BY <1>2
  <2>3. q = p /\ rw[q][i + n] = rw[p][1]
    BY <1>4, <2>1, <2>2 DEF Queue
  <2>4. i + n = 1
    BY <1>4, <2>1, <2>2, <2>3 DEF Queue
  <2>5. i \in 1..Len(rw[p]) - 1
    BY <2>3, Popped
  <2> QED
    BY <1>1, <2>3, <2>4, <2>5
<1>5. /\ rw'[q][i] = "GET" => client' = "reading" /\ server' = q
      /\ rw'[q][i] = "DEL" => client' = "deleting" /\ server' = q
  BY <1>2, <1>4 DEF Queue
<1> QED
  BY <1>3, <1>5

\* ... and in order.
LEMMA PoppedOrder ==
  ASSUME Inv, NEW p \in Procs, rw[p] # <<>>, Executed(p), UNCHANGED deliveryVars,
         Flagged' \subseteq Flagged \cup ({Head(rw[p])} \cap Deliveries)
  PROVE  InOrder'
<1> USE DEF Inv, deliveryVars
<1> SUFFICES ASSUME NEW q \in Procs, NEW j \in DOMAIN rw'[q], rw'[q][j] \in Deliveries
             PROVE
    /\ \A i \in 1..j : rw'[q][i] \in Deliveries => utime[rw'[q][i]] <= utime[rw'[q][j]]
    /\ \A d \in Flagged' : DeliveryProc[d] = q => utime[d] <= utime[rw'[q][j]]
  BY DEF InOrder
<1>1. 1 \in DOMAIN rw[p] /\ Head(rw[p]) = rw[p][1]
  BY Popped
<1>2. Head(rw[p]) \in Deliveries => DeliveryProc[Head(rw[p])] = p
  BY <1>1 DEF Queue
<1>3. CASE q = p
  <2>1. j \in Nat \ {0} /\ j + 1 \in DOMAIN rw[p] /\ rw'[q][j] = rw[p][j + 1]
    <3>1. /\ Len(rw[p]) \in Nat \ {0} /\ DOMAIN rw[p] = 1..Len(rw[p])
          /\ j \in 1..Len(rw[p]) - 1 /\ rw'[p][j] = rw[p][j + 1]
      BY <1>3, Popped
    <3> QED
      BY <1>3, <3>1
  <2>2. \A i \in 1..j : i + 1 \in 1..j + 1 /\ rw'[q][i] = rw[p][i + 1]
    BY <1>3, <2>1, Popped
  <2>3. 1 \in 1..j + 1
    BY <2>1
  <2>4. /\ \A i \in 1..j + 1 : rw[p][i] \in Deliveries => utime[rw[p][i]] <= utime[rw[p][j + 1]]
        /\ \A d \in Flagged : DeliveryProc[d] = p => utime[d] <= utime[rw[p][j + 1]]
    BY <2>1 DEF InOrder
  <2>5. \A i \in 1..j : rw'[q][i] \in Deliveries => utime[rw'[q][i]] <= utime[rw'[q][j]]
    BY <2>1, <2>2, <2>4
  <2>6. \A d \in Flagged' : DeliveryProc[d] = q => utime[d] <= utime[rw'[q][j]]
    BY <1>1, <1>3, <2>1, <2>3, <2>4
  <2> QED
    BY <2>5, <2>6
<1>4. CASE q # p
  <2>1. rw'[q] = rw[q]
    BY <1>4, Popped
  <2> QED
    BY <1>2, <1>4, <2>1 DEF InOrder
<1> QED
  BY <1>3, <1>4

-----------------------------------------------------------------------------
(* Types *)

LEMMA NowTyped == ASSUME TypeOK, NEW p \in Procs PROVE now(p) \in Time
  BY BoundAssumption DEF TypeOK, now, Time

\* One more DEL may come.
LEMMA MoreDels ==
  ASSUME TypeOK, DelMayCome
  PROVE  /\ lateDels' \in [Time -> Nat]
         /\ \A t \in Time : lateDels'[t] > 0 => lateDels[t] > 0 \/ t = told
<1>1. lateDels \in [Time -> Nat]
  BY DEF TypeOK
<1>2. CASE lateDels' = lateDels
  BY <1>1, <1>2
<1>3. CASE lateDels' = [lateDels EXCEPT ![told] = @ + 1]
  <2>1. CASE told \in Time
    <3>1. lateDels[told] + 1 \in Nat
      BY <1>1, <2>1
    <3> QED
      BY <1>1, <1>3, <2>1, <3>1
  <2>2. CASE told \notin Time
    BY <1>1, <1>3, <2>2
  <2> QED
    BY <2>1, <2>2
<1> QED
  BY <1>2, <1>3 DEF DelMayCome

\* What is flagged has a time.
LEMMA StampTyped ==
  ASSUME Inv, NEW d \in Deliveries, stage[d] = "accepted"
  PROVE  utime[d] \in Time
BY DEF Inv, TypeOK, Stamped, None

LEMMA TypeStep ==
  ASSUME Inv, [Next]_vars
  PROVE  TypeOK'
<1> USE DeliveryAssumption, BoundAssumption 
    DEF Inv, TypeOK, Client, Over, OwnerGoes, lateVars, whyVars, clockVars, deliveryVars, ownerVars
<1>1. CASE UNCHANGED vars
  BY <1>1 DEF vars
<1>2. CASE Tick
  BY <1>2 DEF Tick
<1>3. CASE Poll \/ getUnackedMessageTimestamp \/ PollEnds \/ handleGetMsgs
  BY <1>3 DEF Poll, getUnackedMessageTimestamp, PollEnds, handleGetMsgs, Told
<1>4. ASSUME NEW p \in Procs, ackNewMessage(p) PROVE TypeOK'
  <2>1. Send(p, "GET") => rw' \in [Procs -> Seq(Request)]
    BY Pushed DEF Request
  <2> QED
    BY <1>4, <2>1 DEF ackNewMessage, AckRead
<1>5. CASE ackDecided
  <2>1. server \in Procs
    BY <1>5 DEF ackDecided, Serving
  <2>2. Send(server, "DEL") => rw' \in [Procs -> Seq(Request)]
    BY <2>1, Pushed DEF Request
  <2> QED
    BY <1>5, <2>2 DEF ackDecided, AckErases
<1>6. ASSUME NEW d \in Deliveries, storeMessage(d) \/ flagNewMessage(d) PROVE TypeOK'
  <2>1. CASE storeMessage(d)
    BY <2>1 DEF storeMessage, Stage
  <2>2. CASE flagNewMessage(d)
    <3>1. DeliveryProc[d] \in Procs /\ d \in Request
      BY DEF Request
    <3>2. rw' \in [Procs -> Seq(Request)]
      BY <2>2, <3>1, Pushed DEF flagNewMessage
    <3>3. now(DeliveryProc[d]) \in Time
      BY <3>1, NowTyped
    <3> QED
      BY <2>2, <3>2, <3>3 DEF flagNewMessage, Stage
  <2> QED
    BY <1>6, <2>1, <2>2
<1>7. ASSUME NEW p \in Procs, RedisStep(p) \/ RequestFails(p) PROVE TypeOK'
  <2>1. rw[p] # <<>> /\ Executed(p)
    BY <1>7 DEF RedisStep, SetExecuted, GetExecuted, DelExecuted, RequestFails, IsNext
  <2>2. rw' \in [Procs -> Seq(Request)]
    BY <2>1, Popped
  <2>3. ASSUME NEW d \in Deliveries, SetExecuted(p, d) PROVE TypeOK'
    <3>1. stage[d] = "accepted"
      <4>1. 1 \in DOMAIN rw[p] /\ Head(rw[p]) = rw[p][1] /\ rw[p][1] = d
        BY <2>1, <2>3, Popped DEF SetExecuted, IsNext
      <4> QED
        BY <4>1 DEF Queue
    <3>2. utime[d] \in Time
      BY <3>1 DEF Stamped, None
    <3> QED
      BY <2>2, <2>3, <3>2 DEF SetExecuted, Flags, Flagged
  <2>4. CASE GetExecuted(p)
    BY <2>2, <2>4 DEF GetExecuted
  <2>5. CASE DelExecuted(p)
    BY <2>2, <2>5 DEF DelExecuted, Deletes, Flagged
  <2>6. CASE RequestFails(p)
    <3>1. lateSets' \in SUBSET Deliveries
      BY <2>6 DEF RequestFails
    <3>2. lateDels' \in [Time -> Nat]
      <4>1. UNCHANGED lateDels \/ DelMayCome
        BY <2>6 DEF RequestFails
      <4> QED
        BY <4>1, MoreDels
    <3>3. /\ \/ UNCHANGED ownerVars
             \/ Over
          /\ UNCHANGED <<clockVars, deliveryVars, flag, seen, raced, overtaken, erased>>
      BY <2>6 DEF RequestFails
    <3>4. lost' \in SUBSET Deliveries /\ faults' \in Nat
      BY <2>6 DEF RequestFails
    <3> QED
      BY <2>2, <3>1, <3>2, <3>3, <3>4
  <2> QED
    BY <1>7, <2>3, <2>4, <2>5, <2>6 DEF RedisStep
<1>8. ASSUME NEW p \in Procs, Crash(p) PROVE TypeOK'
  <2>1. rw' \in [Procs -> Seq(Request)]
    BY <1>8 DEF Crash
  <2>2. stage' \in [Deliveries -> Stage] /\ lost' \in SUBSET Deliveries
    BY <1>8 DEF Crash, Stage
  <2>3. lateSets' \in SUBSET Deliveries /\ lateDels' \in [Time -> Nat]
    BY <1>8, MoreDels DEF Crash
  <2> QED
    BY <1>8, <2>1, <2>2, <2>3 DEF Crash
<1>9. ASSUME NEW d \in Deliveries, LateSet(d) PROVE TypeOK'
  <2>1. utime[d] \in Time
    BY <1>9 DEF LateSet, LateSets, Stamped, None
  <2> QED
    BY <1>9, <2>1 DEF LateSet, Flags, Flagged
<1>10. ASSUME NEW t \in Time, LateDel(t) PROVE TypeOK'
  <2>1. lateDels' \in [Time -> Nat]
    BY <1>10 DEF LateDel
  <2> QED
    BY <1>10, <2>1 DEF LateDel, Deletes, Flagged
<1> QED
  BY <1>1, <1>2, <1>3, <1>4, <1>5, <1>6, <1>7, <1>8, <1>9, <1>10 DEF Next, OwnerStep

-----------------------------------------------------------------------------
(* Every step keeps the invariant                                          *)

LEMMA TickStep == ASSUME Inv, Tick PROVE Inv'
<1> USE DEF Inv, lateVars, Tick, deliveryVars, ownerVars, whyVars
<1>1. TypeOK'
  BY TypeStep DEF Next
<1>2. Flagged' = Flagged
  BY DEF Flagged, Sent
<1>3. \A p \in Procs : now(p) \in Int /\ now(p)' = now(p) + 1
  BY DEF TypeOK, now
<1>4. /\ Queue' /\ Serving' /\ InOrder' /\ Late' /\ Newest' /\ Covered' /\ Dead'
      /\ LateSets' /\ StoredIsAnnounced'
  BY <1>2 DEF Queue, Serving, InOrder, Late, Newest, Covered, Dead, LateSets, StoredIsAnnounced,
              InStep, AckErasing, Accepted, Sent
<1>5. Stamped'
  BY <1>3, DeliveryAssumption DEF Stamped, TypeOK
<1>6. Clocked'
  <2> SUFFICES ASSUME InStep', NEW p \in Procs
               PROVE (flag <= now(p) /\ told <= now(p) /\ \A t \in during : t <= now(p))'
    BY DEF Clocked
  <2>1. flag <= now(p) /\ told <= now(p) /\ \A t \in during : t <= now(p)
    BY DEF Clocked, InStep
  <2>2. flag \in Int /\ told \in Int /\ during \subseteq Int
    BY BoundAssumption DEF TypeOK, Time, None
  <2> QED
    BY <1>3, <2>1, <2>2
<1> QED
  BY <1>1, <1>4, <1>5, <1>6

\* What the owner does before it acks.
LEMMA OwnerGoesOn ==
  ASSUME Inv, Poll \/ getUnackedMessageTimestamp \/ PollEnds \/ handleGetMsgs
  PROVE  Inv'
<1> USE DEF Inv, lateVars, deliveryVars, clockVars, ownerVars, whyVars
<1>1. TypeOK'
  BY TypeStep DEF Next, OwnerStep
<1>2. UNCHANGED <<lateSets, time, skew, stage, utime, rw, flag, lost, raced, overtaken, erased>>
  BY DEF Poll, getUnackedMessageTimestamp, PollEnds, handleGetMsgs
<1>3. /\ client \in {"idle", "polling", "waiting", "downloading"}
      /\ client' \in {"idle", "polling", "waiting", "downloading", "acking"}
      /\ server' \in {server, Nobody}
  BY DEF Poll, getUnackedMessageTimestamp, PollEnds, handleGetMsgs, Told, Over, OwnerGoes
<1>4. \/ seen' = seen /\ client' # "acking"
      \/ \A d \in Deliveries \ seen' : stage[d] = "idle"
  BY DEF Poll, getUnackedMessageTimestamp, PollEnds, handleGetMsgs, Told, Over, OwnerGoes, TypeOK
<1>5. told' \in {told, flag, None} \cup during /\ during' \subseteq during \cup {flag}
  BY DEF Poll, getUnackedMessageTimestamp, PollEnds, handleGetMsgs, Told, Over, OwnerGoes
<1>6. Flagged' = Flagged /\ \A d \in Deliveries : Sent(d)' <=> Sent(d)
  BY <1>2 DEF Flagged, Sent
<1>7. Queue'
  BY <1>2, <1>3 DEF Queue
<1>8. Serving'
  BY <1>3, DeliveryAssumption DEF Serving
<1>9. Stamped' /\ InOrder' /\ Newest' /\ Dead' /\ LateSets'
  BY <1>2, <1>6 DEF Stamped, InOrder, Newest, Dead, LateSets, now
<1>10. Clocked'
  <2> SUFFICES ASSUME InStep', NEW p \in Procs
               PROVE (flag <= now(p) /\ told <= now(p) /\ \A t \in during : t <= now(p))'
    BY DEF Clocked
  <2>1. flag <= now(p) /\ told <= now(p) /\ \A t \in during : t <= now(p)
    BY <1>2 DEF Clocked, InStep
  <2>2. now(p)' = now(p) /\ now(p) \in Nat /\ 0 <= now(p)
    BY <1>2, NowTyped, BoundAssumption DEF now, Time
  <2> QED
    BY <1>2, <1>5, <2>1, <2>2 DEF None
<1>11. Late'
  BY <1>2, <1>3, <1>4 DEF Late
<1>12. Covered'
  BY <1>3 DEF Covered, AckErasing
<1>13. StoredIsAnnounced'
  BY <1>2, <1>4, <1>6 DEF StoredIsAnnounced
<1> QED
  BY <1>1, <1>7, <1>8, <1>9, <1>10, <1>11, <1>12, <1>13

LEMMA StoreStep == ASSUME Inv, NEW d \in Deliveries, storeMessage(d) PROVE Inv'
<1> USE DEF Inv, lateVars, deliveryVars, clockVars, ownerVars, whyVars
<1>1. TypeOK'
  BY TypeStep DEF Next
<1>2. /\ UNCHANGED <<lateVars, clockVars, utime, rw, flag, ownerVars, seen, whyVars>>
      /\ stage[d] = "idle" /\ stage'[d] = "stored"
      /\ \A e \in Deliveries \ {d} : stage'[e] = stage[e]
  BY DEF storeMessage, TypeOK
<1>3. Flagged' = Flagged /\ \A e \in Deliveries : Sent(e)' <=> Sent(e)
  BY <1>2 DEF Flagged, Sent
<1>4. Queue' /\ Serving'
  BY <1>2 DEF Queue, Serving
<1>5. Stamped' /\ InOrder' /\ Newest' /\ Dead' /\ Late' /\ Covered' /\ Clocked'
  BY <1>2, <1>3 DEF Stamped, InOrder, Newest, Dead, now, Late, Covered, Clocked, AckErasing,
                    Accepted, InStep
<1>6. StoredIsAnnounced'
  BY <1>2, <1>3 DEF StoredIsAnnounced
<1>7. LateSets'
  BY <1>2 DEF LateSets, TypeOK
<1> QED
  BY <1>1, <1>4, <1>5, <1>6, <1>7

LEMMA FlagStep == ASSUME Inv, NEW d \in Deliveries, flagNewMessage(d) PROVE Inv'
<1> USE DEF Inv, lateVars, deliveryVars, clockVars, ownerVars, whyVars
<1> DEFINE p == DeliveryProc[d]
<1>1. TypeOK'
  BY TypeStep DEF Next
<1>2. /\ UNCHANGED <<lateVars, clockVars, flag, ownerVars, seen, whyVars>>
      /\ stage[d] = "stored" /\ stage'[d] = "accepted" /\ utime'[d] = now(p)
      /\ \A e \in Deliveries \ {d} : stage'[e] = stage[e] /\ utime'[e] = utime[e]
      /\ Send(p, d)
  BY DEF flagNewMessage, TypeOK
<1>3. p \in Procs /\ d \in Request
  BY DeliveryAssumption DEF Request
<1>4. \A e \in Deliveries : Sent(e)' <=> Sent(e) \/ e = d
  BY <1>2, <1>3, PushedSent
<1>5. Flagged' = Flagged /\ d \notin Flagged
  BY <1>2, <1>4 DEF Flagged
<1>6. now(p) \in Nat \ {0} /\ \A q \in Procs : now(q)' = now(q) /\ now(q) \in Int
  BY <1>2, <1>3, NowTyped, BoundAssumption DEF now, Time
<1>7. \A q \in Procs : \A i \in DOMAIN rw[q] : rw[q][i] # d
  BY <1>2 DEF Queue
<1>8. \A q \in Procs : \A i \in DOMAIN rw'[q] :
        \/ i \in DOMAIN rw[q] /\ rw'[q][i] = rw[q][i]
        \/ q = p /\ i = Len(rw[p]) + 1 /\ rw'[q][i] = d
  <2>1. \A q \in Procs \ {p} : rw'[q] = rw[q]
    BY <1>2, <1>3, Pushed
  <2>2. \A i \in DOMAIN rw'[p] :
          \/ i \in DOMAIN rw[p] /\ rw'[p][i] = rw[p][i]
          \/ i = Len(rw[p]) + 1 /\ rw'[p][i] = d
    BY <1>2, <1>3, Pushed
  <2> QED
    BY <2>1, <2>2
<1>9. Queue'
  <2> SUFFICES ASSUME NEW q \in Procs, NEW i \in DOMAIN rw'[q]
               PROVE
      /\ rw'[q][i] \in Deliveries => DeliveryProc[rw'[q][i]] = q /\ stage'[rw'[q][i]] = "accepted"
      /\ rw'[q][i] = "GET" => client' = "reading" /\ server' = q
      /\ rw'[q][i] = "DEL" => client' = "deleting" /\ server' = q
      /\ rw'[q][i] \notin Deliveries => \A j \in DOMAIN rw'[q] : rw'[q][i] = rw'[q][j] => i = j
    BY DEF Queue
  <2> QED
    BY <1>2, <1>7, <1>8, Names DEF Queue
<1>10. Serving' /\ Newest' /\ Covered'
  BY <1>2, <1>5 DEF Serving, Newest, Covered, AckErasing, Accepted, Flagged
<1>11. Stamped'
  BY <1>2, <1>3, <1>6, DeliveryAssumption DEF Stamped
<1>12. \A e \in Deliveries \ {d} : DeliveryProc[e] = p /\ stage[e] = "accepted" => utime'[e] <= now(p)
  BY <1>2, <1>6 DEF Stamped
<1>13. InOrder'
  <2> SUFFICES ASSUME NEW q \in Procs, NEW j \in DOMAIN rw'[q], rw'[q][j] \in Deliveries
               PROVE
      /\ \A i \in 1..j : rw'[q][i] \in Deliveries => utime'[rw'[q][i]] <= utime'[rw'[q][j]]
      /\ \A e \in Flagged' : DeliveryProc[e] = q => utime'[e] <= utime'[rw'[q][j]]
    BY DEF InOrder
  <2>1. CASE j \in DOMAIN rw[q] /\ rw'[q][j] = rw[q][j]
    <3>1. rw[q][j] # d
      BY <1>7, <2>1
    <3>2. \A i \in 1..j : i \in DOMAIN rw[q] /\ rw'[q][i] = rw[q][i] /\ rw[q][i] # d
      <4>1. rw[q] \in Seq(Request)
        BY DEF TypeOK
      <4>2. \A i \in 1..j : i \in DOMAIN rw[q]
        BY <2>1, <4>1
      <4>3. \A i \in DOMAIN rw[q] : rw'[q][i] = rw[q][i]
        BY <1>2, <1>3, Pushed
      <4> QED
        BY <1>7, <4>2, <4>3
    <3> QED
      BY <1>2, <1>5, <2>1, <3>1, <3>2 DEF InOrder, Flagged
  <2>2. CASE q = p /\ j = Len(rw[p]) + 1 /\ rw'[q][j] = d
    <3>1. \A i \in 1..j : rw'[q][i] \in Deliveries =>
            \/ rw'[q][i] = d
            \/ DeliveryProc[rw'[q][i]] = p /\ stage[rw'[q][i]] = "accepted"
      <4>1. \A i \in 1..j : i \in DOMAIN rw'[p]
        BY <1>2, <1>3, <2>2, Pushed
      <4> QED
        BY <1>8, <2>2, <4>1 DEF Queue
    <3>2. \A i \in 1..j : rw'[q][i] \in Deliveries => utime'[rw'[q][i]] <= now(p)
      BY <1>2, <1>6, <1>12, <3>1
    <3>3. \A e \in Flagged' : DeliveryProc[e] = q => utime'[e] <= now(p)
      BY <1>5, <1>12, <2>2 DEF Flagged
    <3> QED
      BY <1>2, <2>2, <3>2, <3>3
  <2> QED
    BY <1>8, <2>1, <2>2
<1>14. Clocked' /\ Dead'
  BY <1>2, <1>6 DEF Clocked, Dead, InStep
<1>15. LateSets'
  BY <1>2 DEF LateSets, TypeOK
<1>16. Late'
  <2> SUFFICES ASSUME InStep, client \in {"acking", "reading", "read", "deleting"},
                      NEW e \in Deliveries \ seen, stage'[e] = "accepted"
               PROVE told <= utime'[e]
    BY <1>2 DEF Late, InStep
  <2>1. told <= now(p)
    BY <1>3 DEF Clocked
  <2> QED
    BY <1>2, <2>1 DEF Late
<1>17. StoredIsAnnounced'
  BY <1>2, <1>4 DEF StoredIsAnnounced
<1> QED
  BY <1>1, <1>9, <1>10, <1>11, <1>13, <1>14, <1>15, <1>16, <1>17

\* A request of the ack is sent.
LEMMA AckSends ==
  ASSUME Inv, NEW p \in Procs, NEW r \in {"GET", "DEL"}, Send(p, r),
         r = "GET" => client = "acking" /\ client' = "reading",
         r = "DEL" => client = "read" /\ client' = "deleting" /\ server = p,
         server' = p,
         UNCHANGED <<lateVars, clockVars, deliveryVars, flag, during, told, seen, whyVars>>
  PROVE  /\ Queue' /\ Serving' /\ Stamped' /\ InOrder' /\ Clocked' /\ Late' /\ Newest'
         /\ Dead' /\ LateSets' /\ StoredIsAnnounced' /\ Flagged' = Flagged
<1> USE DEF Inv, lateVars, deliveryVars, clockVars, whyVars
<1>1. r \in Request /\ r \notin Deliveries
  BY Names DEF Request
<1>2. \A e \in Deliveries : Sent(e)' <=> Sent(e)
  BY <1>1, PushedSent
<1>3. Flagged' = Flagged
  BY <1>2 DEF Flagged
<1>4. \A q \in Procs : \A i \in DOMAIN rw'[q] :
        \/ i \in DOMAIN rw[q] /\ rw'[q][i] = rw[q][i]
        \/ q = p /\ i = Len(rw[p]) + 1 /\ rw'[q][i] = r
  <2>1. \A q \in Procs \ {p} : rw'[q] = rw[q]
    BY <1>1, Pushed
  <2>2. \A i \in DOMAIN rw'[p] :
          \/ i \in DOMAIN rw[p] /\ rw'[p][i] = rw[p][i]
          \/ i = Len(rw[p]) + 1 /\ rw'[p][i] = r
    BY <1>1, Pushed
  <2> QED
    BY <2>1, <2>2
<1>5. \A q \in Procs : \A i \in DOMAIN rw[q] : rw[q][i] \in Deliveries
  <2>1. \A q \in Procs : \A i \in DOMAIN rw[q] : rw[q][i] \in Request
    BY DEF TypeOK
  <2> QED
    BY <2>1 DEF Queue, Request
<1>6. Queue'
  <2> SUFFICES ASSUME NEW q \in Procs, NEW i \in DOMAIN rw'[q]
               PROVE
      /\ rw'[q][i] \in Deliveries => DeliveryProc[rw'[q][i]] = q /\ stage'[rw'[q][i]] = "accepted"
      /\ rw'[q][i] = "GET" => client' = "reading" /\ server' = q
      /\ rw'[q][i] = "DEL" => client' = "deleting" /\ server' = q
      /\ rw'[q][i] \notin Deliveries => \A j \in DOMAIN rw'[q] : rw'[q][i] = rw'[q][j] => i = j
    BY DEF Queue
  <2> QED
    BY <1>1, <1>4, <1>5, Names DEF Queue
<1>7. Serving'
  BY DEF Serving
<1>8. Stamped' /\ Newest' /\ Dead' /\ LateSets' /\ StoredIsAnnounced'
  BY <1>2, <1>3 DEF Stamped, Newest, Dead, LateSets, now, StoredIsAnnounced
<1>9. Clocked' /\ Late'
  BY DEF Clocked, Late, now, InStep
<1>10. InOrder'
  <2> SUFFICES ASSUME NEW q \in Procs, NEW j \in DOMAIN rw'[q], rw'[q][j] \in Deliveries
               PROVE
      /\ \A i \in 1..j : rw'[q][i] \in Deliveries => utime[rw'[q][i]] <= utime[rw'[q][j]]
      /\ \A e \in Flagged : DeliveryProc[e] = q => utime[e] <= utime[rw'[q][j]]
    BY <1>3 DEF InOrder
  <2>1. j \in DOMAIN rw[q] /\ rw'[q][j] = rw[q][j]
    BY <1>1, <1>4
  <2>2. \A i \in 1..j : rw'[q][i] = rw[q][i]
    <3>1. rw[q] \in Seq(Request)
      BY DEF TypeOK
    <3>2. \A i \in 1..j : i \in DOMAIN rw[q]
      BY <2>1, <3>1
    <3>3. \A i \in DOMAIN rw[q] : rw'[q][i] = rw[q][i]
      BY <1>1, Pushed
    <3> QED
      BY <3>2, <3>3
  <2> QED
    BY <2>1, <2>2 DEF InOrder
<1> QED
  BY <1>3, <1>6, <1>7, <1>8, <1>9, <1>10

\* The ack ends and nothing is sent.
LEMMA AckEnds ==
  ASSUME Inv, client \in {"acking", "read"}, Over,
         UNCHANGED <<lateVars, clockVars, deliveryVars, rw, flag, seen, whyVars>>
  PROVE  /\ Queue' /\ Serving' /\ Stamped' /\ InOrder' /\ Clocked' /\ Late' /\ Newest'
         /\ Dead' /\ LateSets' /\ StoredIsAnnounced' /\ Covered'
<1> USE DEF Inv, lateVars, deliveryVars, clockVars, whyVars, Over, OwnerGoes
<1>1. Flagged' = Flagged /\ \A e \in Deliveries : Sent(e)' <=> Sent(e)
  BY DEF Flagged, Sent
<1>2. Queue' /\ Serving'
  BY DeliveryAssumption DEF Queue, Serving
<1>3. /\ Stamped' /\ InOrder' /\ Newest' /\ Dead' /\ LateSets' /\ StoredIsAnnounced'
      /\ Late' /\ Covered'
  BY <1>1 DEF Stamped, InOrder, Newest, Dead, LateSets, now, StoredIsAnnounced, Late, Covered,
              AckErasing
<1>4. Clocked'
  <2> SUFFICES ASSUME InStep', NEW p \in Procs
               PROVE (flag <= now(p) /\ told <= now(p) /\ \A t \in during : t <= now(p))'
    BY DEF Clocked
  <2>1. flag <= now(p)
    BY DEF Clocked, InStep
  <2>2. now(p)' = now(p) /\ 0 <= now(p)
    BY NowTyped, BoundAssumption DEF now, Time
  <2> QED
    BY <2>1, <2>2 DEF None
<1> QED
  BY <1>2, <1>3, <1>4

LEMMA AckStep == ASSUME Inv, NEW p \in Procs, ackNewMessage(p) PROVE Inv'
<1> USE DEF Inv
<1>1. TypeOK'
  BY TypeStep DEF Next, OwnerStep
<1>2. CASE AckRead(p)
  <2>1. Covered'
    BY <1>2 DEF AckRead, OwnerGoes, Covered, AckErasing
  <2> QED
    BY <1>1, <1>2, <2>1, AckSends DEF ackNewMessage, AckRead, OwnerGoes
<1>3. CASE Over /\ UNCHANGED rw
  BY <1>1, <1>3, AckEnds DEF ackNewMessage
<1> QED
  BY <1>2, <1>3 DEF ackNewMessage

LEMMA DecidedStep == ASSUME Inv, ackDecided PROVE Inv'
<1> USE DEF Inv
<1>1. TypeOK'
  BY TypeStep DEF Next, OwnerStep
<1>2. CASE Accepted /\ AckErases
  <2>1. server \in Procs
    BY DEF ackDecided, Serving
  <2>2. Send(server, "DEL") /\ client = "read" /\ client' = "deleting" /\ server' = server
        /\ UNCHANGED <<lateVars, clockVars, deliveryVars, flag, during, told, seen, whyVars>>
    BY <1>2 DEF ackDecided, AckErases, OwnerGoes
  <2>3. /\ Queue' /\ Serving' /\ Stamped' /\ InOrder' /\ Clocked' /\ Late' /\ Newest'
        /\ Dead' /\ LateSets'
        /\ StoredIsAnnounced' /\ Flagged' = Flagged
    BY <2>1, <2>2, AckSends
  <2>4. Covered'
    BY <1>2, <2>2, <2>3 DEF Covered, AckErasing, deliveryVars, whyVars
  <2> QED
    BY <1>1, <2>3, <2>4
<1>3. CASE Over /\ UNCHANGED rw
  BY <1>1, <1>3, AckEnds DEF ackDecided
<1> QED
  BY <1>2, <1>3 DEF ackDecided

LEMMA SetStep ==
  ASSUME Inv, NEW p \in Procs, NEW d \in Deliveries, SetExecuted(p, d)
  PROVE  Inv'
<1> USE DEF Inv, lateVars, deliveryVars, clockVars, whyVars
<1>1. TypeOK'
  BY TypeStep DEF Next, RedisStep
<1>2. /\ rw[p] # <<>> /\ Head(rw[p]) = d /\ Executed(p) /\ flag' = utime[d]
      /\ during' \subseteq during \cup {utime[d]}
      /\ AckErasing => raced' = raced \cup {d}
      /\ raced \subseteq raced'
      /\ overtaken' = overtaken \cup {e \in Flagged : utime[e] > utime[d]}
      /\ UNCHANGED <<lateSets, time, skew, stage, utime, client, told, server, saw, seen, lost,
                     erased>>
  BY DEF SetExecuted, Flags, IsNext, Erasing
<1>3. DeliveryProc[d] = p /\ stage[d] = "accepted"
  <2>1. 1 \in DOMAIN rw[p] /\ rw[p][1] = d
    BY <1>2, Popped
  <2> QED
    BY <2>1 DEF Queue
<1>4. utime[d] \in 1..now(p) /\ utime[d] \in Nat \ {0}
  BY <1>3, NowTyped, BoundAssumption DEF Stamped, Time
<1>5. \A e \in Deliveries : (Sent(e)' => Sent(e)) /\ (Sent(e) => Sent(e)' \/ e = d)
  BY <1>2, PoppedSent
<1>6. Flagged' \subseteq Flagged \cup {d}
  BY <1>2, <1>5 DEF Flagged
<1>7. Queue' /\ InOrder'
  BY <1>2, <1>6, PoppedQueue, PoppedOrder
<1>8. Serving' /\ Stamped' /\ Dead' /\ LateSets' /\ Late'
  BY <1>2 DEF Serving, Stamped, Dead, LateSets, Late, now, InStep
<1>9. Clocked'
  <2> SUFFICES ASSUME InStep', NEW q \in Procs
               PROVE (flag <= now(q) /\ told <= now(q) /\ \A t \in during : t <= now(q))'
    BY DEF Clocked
  <2>1. told <= now(q) /\ \A t \in during : t <= now(q)
    BY <1>2 DEF Clocked, InStep
  <2>2. now(q)' = now(q) /\ now(q) = now(p)
    BY <1>2 DEF now, InStep
  <2> QED
    BY <1>2, <1>4, <2>1, <2>2
<1>10. \A e \in Deliveries : utime[e] \in Int
  BY BoundAssumption DEF TypeOK, Time, None
<1>11. Newest'
  <2> SUFFICES ASSUME NEW e \in Flagged' \ overtaken' PROVE utime[e] <= utime[d]
    BY <1>2 DEF Newest
  <2>1. e \in Deliveries /\ (e \in Flagged \/ e = d)
    BY <1>6 DEF Flagged
  <2> QED
    BY <1>2, <1>10, <2>1
<1>12. Covered'
  <2> SUFFICES ASSUME AckErasing, NEW e \in Flagged' \ (raced' \cup overtaken')
               PROVE  utime[e] <= told
    BY <1>2 DEF Covered, AckErasing, Accepted
  <2>1. e \in Flagged \ (raced \cup overtaken)
    BY <1>2, <1>6
  <2> QED
    BY <2>1 DEF Covered
<1>13. StoredIsAnnounced'
  BY <1>2, <1>4 DEF StoredIsAnnounced, None
<1> QED
  BY <1>1, <1>7, <1>8, <1>9, <1>11, <1>12, <1>13

\* The step of a request of an ack: its GET, its DEL, or a failure of either.
LEMMA AckRequestOver ==
  ASSUME Inv, NEW p \in Procs, rw[p] # <<>>, Head(rw[p]) \notin Deliveries, Executed(p), Over,
         UNCHANGED <<lateSets, clockVars, deliveryVars, seen, lost, raced, overtaken>>,
         flag' \in {flag, None}
  PROVE  /\ Queue' /\ Serving' /\ Stamped' /\ InOrder' /\ Clocked' /\ Late' /\ Newest' /\ Covered'
         /\ Dead' /\ LateSets' /\ \A e \in Deliveries : Sent(e)' <=> Sent(e)
<1> USE DEF Inv, lateVars, deliveryVars, clockVars, Over, OwnerGoes
<1>1. \A e \in Deliveries : Sent(e)' <=> Sent(e)
  BY PoppedSent
<1>2. Flagged' = Flagged
  BY <1>1 DEF Flagged
<1>3. Queue' /\ InOrder'
  BY <1>2, PoppedQueue, PoppedOrder
<1>4. Serving' /\ Stamped' /\ Late' /\ Covered' /\ Dead' /\ LateSets' /\ Newest'
  BY <1>2, DeliveryAssumption DEF Serving, Stamped, now, Late, Covered, AckErasing, Dead,
                                  LateSets, Newest
<1>5. Clocked'
  <2> SUFFICES ASSUME InStep', NEW q \in Procs
               PROVE (flag <= now(q) /\ told <= now(q) /\ \A t \in during : t <= now(q))'
    BY DEF Clocked
  <2>1. flag <= now(q)
    BY DEF Clocked, InStep
  <2>2. now(q)' = now(q) /\ 0 <= now(q)
    BY NowTyped, BoundAssumption DEF now, Time
  <2> QED
    BY <2>1, <2>2 DEF None
<1> QED
  BY <1>1, <1>3, <1>4, <1>5

LEMMA GetStep == ASSUME Inv, NEW p \in Procs, GetExecuted(p) PROVE Inv'
<1> USE DEF Inv, lateVars, deliveryVars, clockVars, whyVars
<1>1. TypeOK'
  BY TypeStep DEF Next, RedisStep
<1>2. /\ rw[p] # <<>> /\ Head(rw[p]) = "GET" /\ Head(rw[p]) \notin Deliveries /\ Executed(p)
      /\ UNCHANGED <<lateVars, clockVars, deliveryVars, flag, seen, lost, raced, overtaken, erased>>
  BY Names DEF GetExecuted, IsNext
<1>3. CASE flag = None /\ Over
  BY <1>1, <1>2, <1>3, AckRequestOver DEF StoredIsAnnounced
<1>4. CASE flag # None /\ saw' = flag /\ OwnerGoes("read") /\ UNCHANGED <<during, told, server>>
  <2>1. client = "reading" /\ server = p
    <3>1. 1 \in DOMAIN rw[p] /\ rw[p][1] = "GET"
      BY <1>2, Popped
    <3> QED
      BY <3>1 DEF Queue
  <2>2. \A e \in Deliveries : Sent(e)' <=> Sent(e)
    BY <1>2, PoppedSent
  <2>3. Flagged' = Flagged
    BY <1>2, <2>2 DEF Flagged
  <2>4. Queue' /\ InOrder'
    BY <1>2, <2>3, PoppedQueue, PoppedOrder
  <2>5. /\ Serving' /\ Stamped' /\ Late' /\ Dead' /\ LateSets' /\ Newest' /\ Clocked'
        /\ StoredIsAnnounced'
    BY <1>2, <1>4, <2>1, <2>2, <2>3
       DEF Serving, Stamped, now, Late, Dead, LateSets, Newest, OwnerGoes, InStep, Clocked,
           StoredIsAnnounced
  <2>6. Covered'
    <3> SUFFICES ASSUME told >= flag, NEW e \in Flagged \ (raced \cup overtaken)
                 PROVE utime[e] <= told
      BY <1>2, <1>4, <2>3 DEF Covered, AckErasing, Accepted, OwnerGoes
    <3>1. utime[e] <= flag /\ e \in Deliveries
      BY <1>4 DEF Newest, Flagged
    <3>2. utime[e] \in Int /\ flag \in Int /\ told \in Int
      BY <3>1, BoundAssumption DEF TypeOK, Time, None
    <3> QED
      BY <3>1, <3>2
  <2> QED
    BY <1>1, <2>4, <2>5, <2>6
<1> QED
  BY <1>3, <1>4 DEF GetExecuted

LEMMA DelStep == ASSUME Inv, NEW p \in Procs, DelExecuted(p) PROVE Inv'
<1> USE DEF Inv, lateVars, deliveryVars, clockVars, whyVars
<1>1. TypeOK'
  BY TypeStep DEF Next, RedisStep
<1>2. /\ rw[p] # <<>> /\ Head(rw[p]) = "DEL" /\ Head(rw[p]) \notin Deliveries /\ Executed(p)
      /\ flag' = None /\ Over
      /\ UNCHANGED <<lateVars, clockVars, deliveryVars, seen, lost, raced, overtaken>>
      /\ erased' = erased \cup {d \in Flagged \ seen : utime[d] <= told}
  BY Names DEF DelExecuted, Deletes, IsNext
<1>3. /\ Queue' /\ Serving' /\ Stamped' /\ InOrder' /\ Clocked' /\ Late' /\ Newest' /\ Covered'
      /\ Dead' /\ LateSets' /\ \A e \in Deliveries : Sent(e)' <=> Sent(e)
  BY <1>2, AckRequestOver
<1>4. client = "deleting"
  <2>1. 1 \in DOMAIN rw[p] /\ rw[p][1] = "DEL"
    BY <1>2, Popped
  <2> QED
    BY <2>1 DEF Queue
<1>5. \A d \in Flagged \ (raced \cup overtaken) : utime[d] <= told
  BY <1>4 DEF Covered, AckErasing
<1>6. StoredIsAnnounced'
  <2> SUFFICES ASSUME NEW d \in Deliveries, stage[d] # "idle", d \notin seen,
                      stage[d] # "stored", ~Sent(d), d \notin lost \cup raced \cup overtaken
               PROVE d \in erased'
    BY <1>2, <1>3 DEF StoredIsAnnounced
  <2>1. stage[d] = "accepted"
    BY DEF TypeOK, Stage, Dead
  <2> QED
    BY <1>2, <1>5, <2>1 DEF Flagged
<1> QED
  BY <1>1, <1>3, <1>6

-----------------------------------------------------------------------------
(* Faults                                                                  *)

LEMMA FailStep == ASSUME Inv, NEW p \in Procs, RequestFails(p) PROVE Inv'
<1> USE DEF Inv, lateVars, deliveryVars, clockVars, ownerVars
<1>1. TypeOK'
  BY TypeStep DEF Next
<1>2. /\ rw[p] # <<>> /\ Executed(p)
      /\ UNCHANGED <<clockVars, deliveryVars, flag, seen, raced, overtaken, erased>>
  BY DEF RequestFails
<1>3. CASE /\ Head(rw[p]) \in Deliveries
           /\ lost' = lost \cup {Head(rw[p])}
           /\ lateSets' \in {lateSets, lateSets \cup {Head(rw[p])}}
           /\ UNCHANGED <<lateDels, ownerVars>>
  <2>1. \A e \in Deliveries :
          (Sent(e)' => Sent(e)) /\ (Sent(e) => Sent(e)' \/ e = Head(rw[p]))
    BY <1>2, PoppedSent
  <2>2. Flagged' \subseteq Flagged
    BY <1>2, <1>3, <2>1 DEF Flagged
  <2>3. Queue' /\ InOrder'
    BY <1>2, <1>3, <2>2, PoppedQueue, PoppedOrder
  <2>4. Serving' /\ Stamped' /\ Late' /\ Dead' /\ Newest' /\ Covered' /\ Clocked'
    BY <1>2, <1>3, <2>2
       DEF Serving, Stamped, now, Late, Dead, Newest, Covered, AckErasing, Accepted, Clocked, InStep
  <2>5. StoredIsAnnounced'
    BY <1>2, <1>3, <2>1 DEF StoredIsAnnounced
  <2>6. LateSets'
    <3>1. stage[Head(rw[p])] = "accepted"
      <4>1. 1 \in DOMAIN rw[p] /\ rw[p][1] = Head(rw[p])
        BY <1>2, Popped
      <4> QED
        BY <1>3, <4>1 DEF Queue
    <3> QED
      BY <1>2, <1>3, <3>1 DEF LateSets
  <2> QED
    BY <1>1, <2>3, <2>4, <2>5, <2>6
<1>4. CASE Head(rw[p]) \notin Deliveries /\ Over /\ UNCHANGED <<lateSets, lost>>
  BY <1>1, <1>2, <1>4, AckRequestOver DEF StoredIsAnnounced
<1> QED
  BY <1>3, <1>4 DEF RequestFails

LEMMA CrashStep == ASSUME Inv, NEW p \in Procs, Crash(p) PROVE Inv'
<1> USE DEF Inv, lateVars, deliveryVars, clockVars, ownerVars
<1>1. TypeOK'
  BY TypeStep DEF Next
<1>2. /\ rw'[p] = <<>> /\ \A q \in Procs \ {p} : rw'[q] = rw[q]
      /\ \A d \in Deliveries : stage'[d] = IF DeliveryProc[d] = p /\ stage[d] = "stored" THEN "failed" ELSE stage[d]
      /\ lost' = lost \cup {d \in Deliveries : DeliveryProc[d] = p /\ (stage[d] = "stored" \/ Sent(d))}
      /\ lateSets' \subseteq lateSets \cup {d \in Deliveries : DeliveryProc[d] = p /\ Sent(d)}
      /\ UNCHANGED <<clockVars, utime, flag, seen, raced, overtaken, erased>>
      /\ \/ server = p /\ Over
         \/ server # p /\ UNCHANGED ownerVars
  BY DEF Crash, TypeOK
<1>3. DOMAIN rw'[p] = {}
  <2>1. DOMAIN <<>> = {}
    OBVIOUS
  <2> QED
    BY <1>2, <2>1
<1>4. \A d \in Deliveries : DeliveryProc[d] # p => (Sent(d)' <=> Sent(d))
  BY <1>2, DeliveryAssumption DEF Sent
<1>5. Flagged' \subseteq Flagged
  BY <1>2, <1>4 DEF Flagged
<1>6. Queue'
  <2> SUFFICES ASSUME NEW q \in Procs \ {p}, NEW i \in DOMAIN rw[q]
               PROVE
      /\ rw[q][i] \in Deliveries => DeliveryProc[rw[q][i]] = q /\ stage'[rw[q][i]] = "accepted"
      /\ rw[q][i] = "GET" => client' = "reading" /\ server' = q
      /\ rw[q][i] = "DEL" => client' = "deleting" /\ server' = q
      /\ rw[q][i] \notin Deliveries => \A j \in DOMAIN rw[q] : rw[q][i] = rw[q][j] => i = j
    BY <1>2, <1>3 DEF Queue
  <2> QED
    BY <1>2 DEF Queue
<1>7. InOrder'
  BY <1>2, <1>3, <1>5 DEF InOrder
<1>8. Serving'
  BY <1>2, DeliveryAssumption DEF Serving, Over, OwnerGoes
<1>9. Stamped' /\ Newest' /\ Dead'
  BY <1>2, <1>5 DEF Stamped, Newest, Dead, now
<1>10. Clocked'
  <2> SUFFICES ASSUME InStep', NEW q \in Procs
               PROVE (flag <= now(q) /\ told <= now(q) /\ \A t \in during : t <= now(q))'
    BY DEF Clocked
  <2>1. flag <= now(q) /\ told <= now(q) /\ \A t \in during : t <= now(q)
    BY <1>2 DEF Clocked, InStep
  <2>2. now(q)' = now(q) /\ 0 <= now(q)
    BY <1>2, NowTyped, BoundAssumption DEF now, Time
  <2> QED
    BY <1>2, <2>1, <2>2 DEF None, Over
<1>11. Late'
  BY <1>2 DEF Late, InStep, Over, OwnerGoes
<1>12. Covered'
  BY <1>2, <1>5 DEF Covered, AckErasing, Accepted, Over, OwnerGoes
<1>13. StoredIsAnnounced'
  BY <1>2, <1>4 DEF StoredIsAnnounced
<1>14. LateSets'
  <2>1. \A d \in Deliveries : Sent(d) => stage[d] = "accepted"
    BY DeliveryAssumption DEF Sent, Queue
  <2>2. \A d \in lateSets : stage'[d] = "accepted" /\ d \in lost'
    BY <1>2 DEF LateSets, TypeOK
  <2>3. \A d \in Deliveries : DeliveryProc[d] = p /\ Sent(d) =>
          stage'[d] = "accepted" /\ d \in lost'
    BY <1>2, <2>1
  <2> QED
    BY <1>2, <2>2, <2>3 DEF LateSets
<1> QED
  BY <1>1, <1>6, <1>7, <1>8, <1>9, <1>10, <1>11, <1>12, <1>13, <1>14

-----------------------------------------------------------------------------
(* Requests that redis executes late                                       *)

\* A DEL that may come late covers all that was flagged before its ack failed, and if clocks
\* agree nothing is flagged with an earlier time any more.
LateDelInv ==
  \A t \in Time : lateDels[t] > 0 =>
    /\ \A d \in Flagged \ (raced \cup overtaken) : utime[d] <= t
    /\ InStep => /\ \A p \in Procs : t <= now(p)
                 /\ \A d \in Deliveries \ seen : stage[d] = "accepted" => t <= utime[d]

LEMMA LateSetStep == ASSUME Inv, NEW d \in Deliveries, LateSet(d) PROVE Inv'
<1> USE DEF Inv, deliveryVars, clockVars, whyVars
<1>1. TypeOK'
  BY TypeStep DEF Next
<1>2. /\ d \in lateSets /\ lateSets' \subseteq lateSets /\ flag' = utime[d]
      /\ during' \subseteq during \cup {utime[d]}
      /\ overtaken' = overtaken \cup {e \in Flagged : utime[e] > utime[d]}
      /\ UNCHANGED <<time, skew, stage, utime, rw, client, told, server, saw, seen, lost, raced,
                     erased>>
  BY DEF LateSet, Flags
<1>3. DeliveryProc[d] \in Procs /\ stage[d] = "accepted"
  BY <1>2, DeliveryAssumption DEF LateSets
<1>4. utime[d] \in 1..now(DeliveryProc[d]) /\ utime[d] \in Nat \ {0}
  BY <1>3, NowTyped, BoundAssumption DEF Stamped, Time
<1>5. Flagged' = Flagged /\ \A e \in Deliveries : Sent(e)' <=> Sent(e)
  BY <1>2 DEF Flagged, Sent
<1>6. Queue' /\ InOrder' /\ Serving' /\ Stamped' /\ Dead' /\ Late' /\ LateSets'
  BY <1>2, <1>5 DEF Queue, InOrder, Serving, Stamped, Dead, Late, LateSets, now, InStep
<1>7. Clocked'
  <2> SUFFICES ASSUME InStep', NEW q \in Procs
               PROVE (flag <= now(q) /\ told <= now(q) /\ \A t \in during : t <= now(q))'
    BY DEF Clocked
  <2>1. told <= now(q) /\ \A t \in during : t <= now(q)
    BY <1>2 DEF Clocked, InStep
  <2>2. now(q)' = now(q) /\ now(q) = now(DeliveryProc[d])
    BY <1>2, <1>3 DEF now, InStep
  <2> QED
    BY <1>2, <1>4, <2>1, <2>2
<1>8. \A e \in Deliveries : utime[e] \in Int
  BY BoundAssumption DEF TypeOK, Time, None
<1>9. Newest'
  BY <1>2, <1>5, <1>8 DEF Newest, Flagged
<1>10. Covered'
  BY <1>2, <1>5 DEF Covered, AckErasing, Accepted
<1>11. StoredIsAnnounced'
  BY <1>2, <1>4 DEF StoredIsAnnounced, None
<1> QED
  BY <1>1, <1>6, <1>7, <1>9, <1>10, <1>11

LEMMA LateDelStep == ASSUME Inv, LateDelInv, NEW t \in Time, LateDel(t) PROVE Inv'
<1> USE DEF Inv, deliveryVars, clockVars, ownerVars
<1>1. TypeOK'
  BY TypeStep DEF Next
<1>2. /\ lateDels[t] > 0 /\ flag' = None
      /\ erased' = erased \cup {d \in Flagged \ seen : utime[d] <= t}
      /\ UNCHANGED <<lateSets, clockVars, deliveryVars, rw, ownerVars, seen, lost, raced,
                     overtaken>>
  BY DEF LateDel, Deletes
<1>3. Flagged' = Flagged /\ \A e \in Deliveries : Sent(e)' <=> Sent(e)
  BY <1>2 DEF Flagged, Sent
<1>4. /\ Queue' /\ Serving' /\ Stamped' /\ InOrder' /\ Late' /\ Newest' /\ Covered' /\ Dead'
      /\ LateSets'
  BY <1>2, <1>3 DEF Queue, Serving, Stamped, InOrder, Late, Newest, Covered, Dead, LateSets,
                    AckErasing, Accepted, now, InStep
<1>5. Clocked'
  <2> SUFFICES ASSUME InStep', NEW q \in Procs
               PROVE (flag <= now(q) /\ told <= now(q) /\ \A u \in during : u <= now(q))'
    BY DEF Clocked
  <2>1. told <= now(q) /\ \A u \in during : u <= now(q)
    BY <1>2 DEF Clocked, InStep
  <2>2. now(q)' = now(q) /\ 0 <= now(q)
    BY <1>2, NowTyped, BoundAssumption DEF now, Time
  <2> QED
    BY <1>2, <2>1, <2>2 DEF None
<1>6. StoredIsAnnounced'
  <2> SUFFICES ASSUME NEW d \in Deliveries, stage[d] # "idle", d \notin seen,
                      stage[d] # "stored", ~Sent(d), d \notin lost \cup raced \cup overtaken
               PROVE d \in erased'
    BY <1>2, <1>3 DEF StoredIsAnnounced
  <2>1. stage[d] = "accepted"
    BY DEF TypeOK, Stage, Dead
  <2>2. d \in Flagged /\ utime[d] <= t
    BY <1>2, <2>1 DEF LateDelInv, Flagged
  <2> QED
    BY <1>2, <2>2
<1> QED
  BY <1>1, <1>4, <1>5, <1>6

\* What a DEL on its way covers stays covered when nothing new is flagged but in a race.
LEMMA DelsKept ==
  ASSUME Inv, LateDelInv, TypeOK',
         \A t \in Time : lateDels'[t] > 0 => lateDels[t] > 0 \/ (t = told /\ client = "deleting"),
         \A t \in Time : lateDels'[t] > 0 =>
           Flagged' \ (raced' \cup overtaken') \subseteq Flagged \ (raced \cup overtaken),
         time' \in {time, time + 1}, skew' = skew,
         \A d \in Flagged : utime'[d] = utime[d],
         \A d \in Deliveries \ seen' : stage'[d] = "accepted" =>
           \/ d \notin seen /\ stage[d] = "accepted" /\ utime'[d] = utime[d]
           \/ utime'[d] = now(DeliveryProc[d])
  PROVE  LateDelInv'
<1> USE DEF Inv
<1> SUFFICES ASSUME NEW t \in Time, lateDels'[t] > 0
             PROVE
    /\ \A d \in Flagged' \ (raced' \cup overtaken') : utime'[d] <= t
    /\ InStep' => /\ \A p \in Procs : t <= now(p)'
                  /\ \A d \in Deliveries \ seen' : stage'[d] = "accepted" => t <= utime'[d]
  BY DEF LateDelInv
<1>1. /\ \A d \in Flagged \ (raced \cup overtaken) : utime[d] <= t
      /\ InStep => /\ \A p \in Procs : t <= now(p)
                   /\ \A d \in Deliveries \ seen : stage[d] = "accepted" => t <= utime[d]
  <2>1. CASE lateDels[t] > 0
    BY <2>1 DEF LateDelInv
  <2>2. CASE t = told /\ client = "deleting"
    BY <2>2 DEF Covered, AckErasing, Clocked, Late
  <2> QED
    BY <2>1, <2>2
<1>2. \A d \in Flagged' \ (raced' \cup overtaken') : utime'[d] <= t
  BY <1>1
<1>3. InStep' <=> InStep
  BY DEF InStep
<1>4. ASSUME InStep, NEW p \in Procs PROVE t <= now(p)'
  <2>1. t <= now(p)
    BY <1>1, <1>4
  <2>3. time \in Int /\ skew[p] \in Int /\ now(p) = time + skew[p] /\ now(p)' = time' + skew[p]
    BY DEF now, TypeOK
  <2>2. t \in Int /\ now(p) \in Int
    BY NowTyped, BoundAssumption DEF Time
  <2> QED
    BY <2>1, <2>2, <2>3
<1>5. ASSUME InStep, NEW d \in Deliveries \ seen', stage'[d] = "accepted" PROVE t <= utime'[d]
  BY <1>1, <1>5, DeliveryAssumption
<1> QED
  BY <1>2, <1>3, <1>4, <1>5

\* A step that sends or takes a request of the ack leaves what is flagged.
LEMMA AckLeavesFlagged ==
  ASSUME Inv, NEW p \in Procs, UNCHANGED <<stage, lost>>,
         \/ \E r \in {"GET", "DEL"} : Send(p, r)
         \/ rw[p] # <<>> /\ Executed(p) /\ Head(rw[p]) \notin Deliveries
         \/ UNCHANGED rw
  PROVE  Flagged' = Flagged
<1> USE DEF Inv
<1>1. \A d \in Deliveries : Sent(d)' <=> Sent(d)
  <2>1. CASE \E r \in {"GET", "DEL"} : Send(p, r)
    BY <2>1, PushedSent, Names DEF Request
  <2>2. CASE rw[p] # <<>> /\ Executed(p) /\ Head(rw[p]) \notin Deliveries
    BY <2>2, PoppedSent
  <2>3. CASE UNCHANGED rw
    BY <2>3 DEF Sent
  <2> QED
    BY <2>1, <2>2, <2>3
<1> QED
  BY <1>1 DEF Flagged

\* A request that fails, or a process that dies, flags nothing.
LEMMA FaultFlagsNothing ==
  ASSUME Inv, NEW p \in Procs, RequestFails(p) \/ Crash(p)
  PROVE  Flagged' \subseteq Flagged
<1> USE DEF Inv
<1>1. CASE RequestFails(p)
  <2> USE DEF deliveryVars
  <2>1. rw[p] # <<>> /\ Executed(p) /\ UNCHANGED stage /\ lost \subseteq lost'
    BY <1>1 DEF RequestFails
  <2>2. Head(rw[p]) \in Deliveries => Head(rw[p]) \in lost'
    BY <1>1 DEF RequestFails
  <2>3. \A d \in Deliveries : Sent(d) => Sent(d)' \/ d = Head(rw[p])
    BY <2>1, PoppedSent
  <2> QED
    BY <2>1, <2>2, <2>3 DEF Flagged
<1>2. CASE Crash(p)
  <2>1. \A d \in Deliveries : stage'[d] = "accepted" => stage[d] = "accepted"
    BY <1>2 DEF Crash, TypeOK
  <2>2. \A d \in Deliveries : DeliveryProc[d] = p /\ Sent(d) => d \in lost'
    BY <1>2 DEF Crash
  <2>3. \A d \in Deliveries : DeliveryProc[d] # p /\ Sent(d) => Sent(d)'
    BY <1>2, DeliveryAssumption DEF Crash, TypeOK, Sent
  <2>4. lost \subseteq lost'
    BY <1>2 DEF Crash
  <2> QED
    BY <2>1, <2>2, <2>3, <2>4 DEF Flagged
<1> QED
  BY <1>1, <1>2

LEMMA LateDelsStep == ASSUME Inv, LateDelInv, [Next]_vars PROVE LateDelInv'
<1> USE DEF lateVars, clockVars, deliveryVars, ownerVars, whyVars
<1>1. TypeOK /\ TypeOK'
  BY TypeStep DEF Inv
<1>2. CASE UNCHANGED vars
  BY <1>2 DEF vars, LateDelInv, InStep, now, Flagged, Sent
<1>3. CASE Tick
  <2>1. Flagged' = Flagged
    BY <1>3 DEF Tick, Flagged, Sent
  <2> QED
    BY <1>1, <1>3, <2>1, DelsKept DEF Tick
<1>4. CASE Poll \/ getUnackedMessageTimestamp \/ PollEnds \/ handleGetMsgs
  <2>1. UNCHANGED <<time, skew, stage, utime, rw, lateDels, lost, raced, overtaken>>
    BY <1>4 DEF Poll, getUnackedMessageTimestamp, PollEnds, handleGetMsgs
  <2>2. seen' = seen \/ \A d \in Deliveries \ seen' : stage'[d] = "idle"
    BY <1>4 DEF Poll, getUnackedMessageTimestamp, PollEnds, handleGetMsgs
  <2>3. Flagged' = Flagged
    BY <2>1 DEF Flagged, Sent
  <2> QED
    BY <1>1, <2>1, <2>2, <2>3, DelsKept
<1>5. CASE \/ \E p \in Procs : ackNewMessage(p) \/ GetExecuted(p) \/ DelExecuted(p)
           \/ ackDecided
  <2>1. UNCHANGED <<time, skew, stage, utime, lateDels, seen, lost, raced, overtaken>>
    BY <1>5 DEF ackNewMessage, ackDecided, GetExecuted, DelExecuted
  <2>2. PICK q \in Procs : \/ \E r \in {"GET", "DEL"} : Send(q, r)
                           \/ rw[q] # <<>> /\ Executed(q) /\ Head(rw[q]) \notin Deliveries
                           \/ UNCHANGED rw
    <3>1. CASE \E p \in Procs : ackNewMessage(p)
      BY <3>1 DEF ackNewMessage, AckRead
    <3>2. CASE ackDecided
      BY <3>2 DEF ackDecided, AckErases, Inv, Serving
    <3>3. CASE \E p \in Procs : GetExecuted(p) \/ DelExecuted(p)
      BY <3>3, Names DEF GetExecuted, DelExecuted, IsNext
    <3> QED
      BY <1>5, <3>1, <3>2, <3>3
  <2>3. Flagged' = Flagged
    BY <2>1, <2>2, AckLeavesFlagged
  <2> QED
    BY <1>1, <2>1, <2>3, DelsKept
<1>6. ASSUME NEW d \in Deliveries, storeMessage(d) PROVE LateDelInv'
  <2>1. \A e \in Deliveries : stage'[e] = "accepted" <=> stage[e] = "accepted"
    BY <1>1, <1>6 DEF storeMessage, TypeOK
  <2>2. Flagged' = Flagged
    BY <1>6, <2>1 DEF storeMessage, Flagged, Sent
  <2> QED
    BY <1>1, <1>6, <2>1, <2>2, DelsKept DEF storeMessage
<1>7. ASSUME NEW d \in Deliveries, flagNewMessage(d) PROVE LateDelInv'
  <2>1. /\ UNCHANGED <<time, skew, lateDels, seen, lost, raced, overtaken>>
        /\ stage[d] = "stored" /\ utime'[d] = now(DeliveryProc[d])
        /\ \A e \in Deliveries \ {d} : stage'[e] = stage[e] /\ utime'[e] = utime[e]
    BY <1>1, <1>7 DEF flagNewMessage, TypeOK
  <2>2. \A e \in Deliveries : Sent(e)' <=> Sent(e) \/ e = d
    BY <1>1, <1>7, PushedSent, DeliveryAssumption DEF flagNewMessage, Request
  <2>3. Flagged' = Flagged /\ d \notin Flagged
    BY <2>1, <2>2 DEF Flagged
  <2> QED
    BY <1>1, <2>1, <2>3, DelsKept DEF Flagged
<1>8. ASSUME NEW p \in Procs, NEW d \in Deliveries, SetExecuted(p, d) PROVE LateDelInv'
  <2>1. /\ UNCHANGED <<time, skew, stage, utime, lateDels, seen, lost>>
        /\ rw[p] # <<>> /\ Executed(p) /\ Head(rw[p]) = d
        /\ overtaken \subseteq overtaken' /\ raced \subseteq raced'
    BY <1>8 DEF SetExecuted, Flags, IsNext
  <2>2. Flagged' \subseteq Flagged \cup {d}
    BY <1>1, <2>1, PoppedSent DEF Flagged
  <2>3. \A t \in Time : lateDels'[t] > 0 => d \in raced'
    BY <1>8, <2>1 DEF SetExecuted, Erasing
  <2>4. \A t \in Time : lateDels'[t] > 0 =>
          Flagged' \ (raced' \cup overtaken') \subseteq Flagged \ (raced \cup overtaken)
    BY <2>1, <2>2, <2>3
  <2> QED
    BY <1>1, <2>1, <2>4, DelsKept
<1>9. ASSUME NEW p \in Procs, RequestFails(p) \/ Crash(p) PROVE LateDelInv'
  <2>1. /\ UNCHANGED <<time, skew, utime, seen, raced, overtaken>>
        /\ \A d \in Deliveries : stage'[d] = "accepted" => stage[d] = "accepted"
    BY <1>1, <1>9 DEF RequestFails, Crash, TypeOK
  <2>2. UNCHANGED lateDels \/ (client = "deleting" /\ DelMayCome)
    BY <1>9 DEF RequestFails, Crash
  <2>3. \A t \in Time : lateDels'[t] > 0 =>
          lateDels[t] > 0 \/ (t = told /\ client = "deleting")
    BY <1>1, <2>2, MoreDels
  <2>4. Flagged' \subseteq Flagged
    BY <1>9, FaultFlagsNothing
  <2> QED
    BY <1>1, <2>1, <2>3, <2>4, DelsKept
<1>10. ASSUME NEW d \in Deliveries, LateSet(d) PROVE LateDelInv'
  <2>1. /\ UNCHANGED <<time, skew, stage, utime, rw, lateDels, seen, lost, raced>>
        /\ overtaken \subseteq overtaken'
    BY <1>10 DEF LateSet, Flags
  <2>2. Flagged' = Flagged
    BY <2>1 DEF Flagged, Sent
  <2> QED
    BY <1>1, <2>1, <2>2, DelsKept
<1>11. ASSUME NEW t \in Time, LateDel(t) PROVE LateDelInv'
  <2>1. UNCHANGED <<time, skew, stage, utime, rw, seen, lost, raced, overtaken>>
    BY <1>11 DEF LateDel
  <2>2. \A u \in Time : lateDels'[u] > 0 => lateDels[u] > 0
    BY <1>1, <1>11 DEF LateDel, TypeOK
  <2>3. Flagged' = Flagged
    BY <2>1 DEF Flagged, Sent
  <2> QED
    BY <1>1, <2>1, <2>2, <2>3, DelsKept
<1> QED
  BY <1>2, <1>3, <1>4, <1>5, <1>6, <1>7, <1>8, <1>9, <1>10, <1>11
     DEF Next, OwnerStep, RedisStep

-----------------------------------------------------------------------------

LEMMA NextInv == Inv /\ LateDelInv /\ [Next]_vars => Inv'
<1> SUFFICES ASSUME Inv, LateDelInv, [Next]_vars PROVE Inv'
  OBVIOUS
<1>1. CASE UNCHANGED vars
  <2>1. Flagged' = Flagged
    BY <1>1 DEF vars, clockVars, deliveryVars, ownerVars, whyVars, Flagged, Sent
  <2> QED
    BY <1>1, <2>1
       DEF Inv, vars, clockVars, deliveryVars, lateVars, ownerVars, whyVars, TypeOK, Queue,
           Serving, Stamped,
           InOrder, Clocked, Late, Newest, Covered, Dead, LateSets, StoredIsAnnounced, AckErasing,
           Accepted, Sent,
           InStep, now
<1>2. CASE Tick
  BY <1>2, TickStep
<1>3. CASE OwnerStep
  BY <1>3, OwnerGoesOn, AckStep, DecidedStep DEF OwnerStep
<1>4. ASSUME NEW d \in Deliveries, storeMessage(d) \/ flagNewMessage(d) PROVE Inv'
  BY <1>4, StoreStep, FlagStep
<1>5. ASSUME NEW p \in Procs, RedisStep(p) PROVE Inv'
  BY <1>5, SetStep, GetStep, DelStep DEF RedisStep
<1>6. ASSUME NEW p \in Procs, RequestFails(p) \/ Crash(p) PROVE Inv'
  BY <1>6, FailStep, CrashStep
<1> QED
  BY <1>1, <1>2, <1>3, <1>4, <1>5, <1>6, LateSetStep, LateDelStep DEF Next

THEOREM Invariance == Spec => [](Inv /\ LateDelInv)
<1>1. Init => LateDelInv
  BY DEF Init, LateDelInv
<1>2. Inv /\ LateDelInv /\ [Next]_vars => (Inv /\ LateDelInv)'
  BY NextInv, LateDelsStep
<1> QED
  BY <1>1, <1>2, InitInv, PTL DEF Spec

\* Every variable keeps its type: in particular the flag is always a time that a process
\* may have read from its clock.
THEOREM TypeCorrect == Spec => []TypeOK
<1>1. Inv => TypeOK
  BY DEF Inv
<1> QED
  BY <1>1, Invariance, PTL

\* A stored message that was not downloaded is announced, or one of the four reasons applies,
\* with any number of processes, messages and faults and any clocks.
THEOREM Announced == Spec => []StoredIsAnnounced
<1>1. Inv => StoredIsAnnounced
  BY DEF Inv
<1> QED
  BY <1>1, Invariance, PTL

-----------------------------------------------------------------------------
(* The request an ack waits for                                            *)

LEMMA PushedAwaited ==
  ASSUME Inv, AckIsOnItsWay, NEW p \in Procs, NEW r \in Request, Send(p, r),
         UNCHANGED <<client, server>>
  PROVE  AckIsOnItsWay'
<1> USE DEF Inv
<1>1. ASSUME NEW q \in Procs, NEW i \in DOMAIN rw[q]
      PROVE  i \in DOMAIN rw'[q] /\ rw'[q][i] = rw[q][i]
  BY Pushed
<1>2. client \in {"reading", "deleting"} => server \in Procs
  BY DEF Serving
<1> QED
  BY <1>1, <1>2 DEF AckIsOnItsWay

LEMMA PoppedAwaited ==
  ASSUME Inv, AckIsOnItsWay, NEW p \in Procs, rw[p] # <<>>, Executed(p), Head(rw[p]) \in Deliveries,
         UNCHANGED <<client, server>>
  PROVE  AckIsOnItsWay'
<1> USE DEF Inv
<1>1. ASSUME NEW q \in Procs, NEW i \in DOMAIN rw[q], rw[q][i] \in {"GET", "DEL"}
      PROVE  \E j \in DOMAIN rw'[q] : rw'[q][j] = rw[q][i]
  <2>1. CASE q # p
    BY <2>1, Popped
  <2>2. CASE q = p
    <3>1. Head(rw[p]) = rw[p][1] /\ rw[p][i] \notin Deliveries
      BY <1>1, <2>2, Popped, Names
    <3>2. i \in 1..Len(rw[p]) /\ i # 1 /\ Len(rw[p]) \in Nat
      BY <1>1, <2>2, <3>1, Popped
    <3>3. i - 1 \in 1..Len(rw[p]) - 1 /\ (i - 1) + 1 = i
      BY <3>2
    <3>4. i - 1 \in DOMAIN rw'[p] /\ rw'[p][i - 1] = rw[p][i]
      BY <3>3, Popped
    <3> QED
      BY <2>2, <3>4
  <2> QED
    BY <2>1, <2>2
<1>2. client \in {"reading", "deleting"} => server \in Procs
  BY DEF Serving
<1> QED
  BY <1>1, <1>2 DEF AckIsOnItsWay

LEMMA AwaitedStep == Inv /\ AckIsOnItsWay /\ [Next]_vars => AckIsOnItsWay'
<1> SUFFICES ASSUME Inv, AckIsOnItsWay, [Next]_vars PROVE AckIsOnItsWay'
  OBVIOUS
<1>1. CASE Tick \/ UNCHANGED vars
  BY <1>1 DEF Tick, vars, ownerVars, AckIsOnItsWay
<1>2. CASE Poll \/ getUnackedMessageTimestamp \/ PollEnds \/ handleGetMsgs
  BY <1>2 DEF Poll, getUnackedMessageTimestamp, PollEnds, handleGetMsgs, Told, OwnerGoes, Over,
     AckIsOnItsWay
<1>3. ASSUME NEW d \in Deliveries, storeMessage(d) PROVE AckIsOnItsWay'
  BY <1>3 DEF storeMessage, ownerVars, AckIsOnItsWay
<1>4. ASSUME NEW d \in Deliveries, flagNewMessage(d) PROVE AckIsOnItsWay'
  BY <1>4, PushedAwaited, DeliveryAssumption DEF flagNewMessage, ownerVars, Request
<1>5. ASSUME NEW p \in Procs, ackNewMessage(p) PROVE AckIsOnItsWay'
  <2>1. CASE AckRead(p)
    <3>1. Len(rw[p]) + 1 \in DOMAIN rw'[p] /\ rw'[p][Len(rw[p]) + 1] = "GET"
      BY <2>1, Pushed DEF AckRead, Request, Inv
    <3> QED
      BY <2>1, <3>1 DEF AckRead, OwnerGoes, AckIsOnItsWay
  <2>2. CASE Over
    BY <2>2 DEF Over, OwnerGoes, AckIsOnItsWay
  <2> QED
    BY <1>5, <2>1, <2>2 DEF ackNewMessage
<1>6. CASE ackDecided
  <2>1. CASE AckErases
    <3>1. server \in Procs
      BY <1>6 DEF ackDecided, Inv, Serving
    <3>2. Len(rw[server]) + 1 \in DOMAIN rw'[server] /\ rw'[server][Len(rw[server]) + 1] = "DEL"
      BY <2>1, <3>1, Pushed DEF AckErases, Request, Inv
    <3> QED
      BY <2>1, <3>2 DEF AckErases, OwnerGoes, AckIsOnItsWay
  <2>2. CASE Over
    BY <2>2 DEF Over, OwnerGoes, AckIsOnItsWay
  <2> QED
    BY <1>6, <2>1, <2>2 DEF ackDecided
<1>7. ASSUME NEW p \in Procs, NEW d \in Deliveries, SetExecuted(p, d) PROVE AckIsOnItsWay'
  BY <1>7, PoppedAwaited DEF SetExecuted, IsNext
<1>8. ASSUME NEW p \in Procs, GetExecuted(p) \/ DelExecuted(p) PROVE AckIsOnItsWay'
  BY <1>8 DEF GetExecuted, DelExecuted, Over, OwnerGoes, AckIsOnItsWay
<1>9. ASSUME NEW p \in Procs, RequestFails(p) PROVE AckIsOnItsWay'
  <2>1. CASE Head(rw[p]) \in Deliveries /\ UNCHANGED <<lateDels, ownerVars>>
    BY <1>9, <2>1, PoppedAwaited DEF RequestFails, ownerVars
  <2>2. CASE Over
    BY <2>2 DEF Over, OwnerGoes, AckIsOnItsWay
  <2> QED
    BY <1>9, <2>1, <2>2 DEF RequestFails
<1>10. ASSUME NEW p \in Procs, Crash(p) PROVE AckIsOnItsWay'
  <2>1. CASE server = p
    BY <1>10, <2>1 DEF Crash, Over, OwnerGoes, AckIsOnItsWay
  <2>2. CASE server # p
    <3>1. client' = client /\ server' = server
      BY <1>10, <2>2 DEF Crash, ownerVars
    <3>2. rw'[server] = rw[server] \/ server \notin Procs
      BY <1>10, <2>2 DEF Crash, Inv, TypeOK
    <3> QED
      BY <3>1, <3>2 DEF AckIsOnItsWay, Inv, Serving
  <2> QED
    BY <2>1, <2>2
<1>11. ASSUME NEW d \in Deliveries, LateSet(d) PROVE AckIsOnItsWay'
  BY <1>11 DEF LateSet, AckIsOnItsWay
<1>12. ASSUME NEW t \in Time, LateDel(t) PROVE AckIsOnItsWay'
  BY <1>12 DEF LateDel, ownerVars, AckIsOnItsWay
<1> QED
  BY <1>1, <1>2, <1>3, <1>4, <1>5, <1>6, <1>7, <1>8, <1>9, <1>10, <1>11, <1>12
  DEF Next, OwnerStep, RedisStep

\* An ack that waits for redis has its request on the way, whatever fails and whoever dies
\* (service-new-messages-v2.js:104-121).
THEOREM Awaiting == Spec => []AckIsOnItsWay
<1>1. Init => AckIsOnItsWay
  BY DEF Init, AckIsOnItsWay
<1>2. Inv /\ AckIsOnItsWay /\ [Next]_vars => AckIsOnItsWay'
  BY AwaitedStep
<1> QED
  BY <1>1, <1>2, Invariance, PTL DEF Spec

-----------------------------------------------------------------------------
(* Clocks that agree                                                       *)

\* An ack with a time is exact as long as the clocks agree.
THEOREM Exact == Spec => ExactInStep
<1> DEFINE Kept ==
      InStep => /\ ~(client = "acking" /\ client' = "idle")
                /\ \A d \in erased' \ erased : utime[d] \in Erasing
<1>1. Inv /\ LateDelInv /\ [Next]_vars => Kept
  <2> SUFFICES ASSUME Inv, LateDelInv, [Next]_vars, InStep
               PROVE  /\ ~(client = "acking" /\ client' = "idle")
                      /\ \A d \in erased' \ erased : utime[d] \in Erasing
    OBVIOUS
  <2> USE DEF Inv, vars, clockVars, deliveryVars, ownerVars, whyVars, OwnerGoes
  <2>1. CASE UNCHANGED vars \/ Tick
    BY <2>1 DEF Tick
  <2>2. CASE Poll \/ getUnackedMessageTimestamp \/ PollEnds \/ handleGetMsgs
    BY <2>2 DEF Poll, getUnackedMessageTimestamp, PollEnds, handleGetMsgs
  <2>3. ASSUME NEW p \in Procs, ackNewMessage(p)
        PROVE ~(client = "acking" /\ client' = "idle") /\ erased' = erased
    <3>1. told <= now(p)
      BY DEF Clocked
    <3>2. told \in Int /\ now(p) \in Int
      BY NowTyped, BoundAssumption DEF TypeOK, Time, None
    <3> QED
      BY <2>3, <3>1, <3>2 DEF ackNewMessage, AckRead
  <2>4. CASE ackDecided
    BY <2>4 DEF ackDecided
  <2>5. ASSUME NEW d \in Deliveries, storeMessage(d) \/ flagNewMessage(d)
        PROVE ~(client = "acking" /\ client' = "idle") /\ erased' = erased
    BY <2>5 DEF storeMessage, flagNewMessage
  <2>6. ASSUME NEW p \in Procs, GetExecuted(p)
        PROVE ~(client = "acking" /\ client' = "idle") /\ erased' = erased
    <3>1. 1 \in DOMAIN rw[p] /\ rw[p][1] = "GET"
      BY <2>6, Popped DEF GetExecuted, IsNext
    <3> QED
      BY <2>6, <3>1 DEF GetExecuted, Queue
  <2>7. ASSUME NEW p \in Procs, DelExecuted(p)
        PROVE  /\ client # "acking"
               /\ \A d \in erased' \ erased : utime[d] \in Erasing
    <3>1. 1 \in DOMAIN rw[p] /\ rw[p][1] = "DEL"
      BY <2>7, Popped DEF DelExecuted, IsNext
    <3>2. client = "deleting"
      BY <3>1 DEF Queue
    <3>3. ASSUME NEW d \in Flagged \ seen, utime[d] <= told PROVE utime[d] \in Erasing
      <4>1. told <= utime[d] /\ d \in Deliveries /\ utime[d] \in Time
        BY <3>2, StampTyped DEF Late, Flagged
      <4>2. utime[d] = told
        BY <3>3, <4>1, BoundAssumption DEF TypeOK, Time, None
      <4> QED
        BY <3>2, <4>1, <4>2 DEF Erasing, AckErasing
    <3> QED
      BY <2>7, <3>2, <3>3 DEF DelExecuted, Deletes
  <2>8. ASSUME NEW p \in Procs, NEW d \in Deliveries, SetExecuted(p, d)
        PROVE ~(client = "acking" /\ client' = "idle") /\ erased' = erased
    BY <2>8 DEF SetExecuted
  <2>9. ASSUME NEW p \in Procs, RequestFails(p)
        PROVE ~(client = "acking" /\ client' = "idle") /\ erased' = erased
    <3>1. rw[p] # <<>> /\ erased' = erased /\ (Head(rw[p]) \in Deliveries => client' = client)
      BY <2>9 DEF RequestFails
    <3>2. Head(rw[p]) \notin Deliveries => client # "acking"
      <4>1. 1 \in DOMAIN rw[p] /\ Head(rw[p]) = rw[p][1] /\ Head(rw[p]) \in Request
        BY <2>9, Popped DEF RequestFails
      <4> QED
        BY <4>1 DEF Queue, Request
    <3> QED
      BY <3>1, <3>2
  <2>10. ASSUME NEW p \in Procs, Crash(p)
         PROVE ~(client = "acking" /\ client' = "idle") /\ erased' = erased
    BY <2>10 DEF Crash, Serving
  <2>11. ASSUME NEW d \in Deliveries, LateSet(d)
         PROVE ~(client = "acking" /\ client' = "idle") /\ erased' = erased
    BY <2>11 DEF LateSet
  <2>12. ASSUME NEW t \in Time, LateDel(t)
         PROVE  /\ client' = client
                /\ \A d \in erased' \ erased : utime[d] \in Erasing
    <3>1. ASSUME NEW d \in Flagged \ seen, utime[d] <= t PROVE utime[d] \in Erasing
      <4>1. t <= utime[d] /\ utime[d] \in Time
        BY <2>12, StampTyped DEF LateDel, LateDelInv, Flagged
      <4>2. utime[d] = t
        BY <3>1, <4>1, BoundAssumption DEF Time
      <4> QED
        BY <2>12, <4>2 DEF LateDel, Erasing
    <3> QED
      BY <2>12, <3>1 DEF LateDel, Deletes
  <2> QED
    BY <2>1, <2>2, <2>3, <2>4, <2>5, <2>6, <2>7, <2>8, <2>9, <2>10, <2>11, <2>12
       DEF Next, OwnerStep, RedisStep
<1> QED
  BY <1>1, Invariance, PTL DEF Spec, ExactInStep

\* Only a message of another process, or a SET that was taken for failed, sets the flag back.
THEOREM GoesBack == Spec => FlagGoesBackOnlyAcross
<1> DEFINE Back ==
      \A d \in Deliveries : flag' # None /\ d \in overtaken' \ overtaken =>
        \E e \in Deliveries : /\ utime[e] = flag'
                              /\ DeliveryProc[e] # DeliveryProc[d] \/ e \in lost
<1>1. Inv /\ [Next]_vars => Back
  <2> SUFFICES ASSUME Inv, [Next]_vars, NEW d \in Deliveries, d \in overtaken' \ overtaken
               PROVE  \E e \in Deliveries : /\ utime[e] = flag'
                                            /\ DeliveryProc[e] # DeliveryProc[d] \/ e \in lost
    OBVIOUS
  <2>1. PICK e \in Deliveries : LateSet(e) \/ \E p \in Procs : SetExecuted(p, e)
    BY DEF Next, Tick, OwnerStep, Poll, getUnackedMessageTimestamp, PollEnds, handleGetMsgs,
           ackNewMessage, ackDecided, storeMessage, flagNewMessage, RedisStep, GetExecuted,
           DelExecuted, RequestFails, Crash, LateDel, vars, whyVars
  <2>2. CASE LateSet(e)
    BY <2>2 DEF LateSet, Flags, Inv, LateSets
  <2>3. ASSUME NEW p \in Procs, SetExecuted(p, e)
        PROVE  utime[e] = flag' /\ DeliveryProc[e] # DeliveryProc[d]
    <3>1. /\ flag' = utime[e] /\ d \in Flagged /\ utime[d] > utime[e]
          /\ rw[p] # <<>> /\ Head(rw[p]) = e /\ Executed(p)
      BY <2>3 DEF SetExecuted, Flags, IsNext
    <3>2. 1 \in DOMAIN rw[p] /\ rw[p][1] = e
      BY <3>1, Popped DEF Inv
    <3>3. DeliveryProc[e] = p
      BY <3>2 DEF Inv, Queue
    <3>4. DeliveryProc[d] = p => utime[d] <= utime[e]
      BY <3>1, <3>2 DEF Inv, InOrder
    <3>5. utime[d] \in Int /\ utime[e] \in Int
      BY BoundAssumption DEF Inv, TypeOK, Time, None
    <3> QED
      BY <3>1, <3>3, <3>4, <3>5
  <2> QED
    BY <2>1, <2>2, <2>3
<1> QED
  BY <1>1, Invariance, PTL DEF Spec, FlagGoesBackOnlyAcross
=============================================================================
