------------------------------ MODULE MailboxV2 -----------------------------
(***************************************************************************)
(* The messages of an agent and the flag of the second notification        *)
(* service, which is the time of a message                                 *)
(* (agent-connection.js, service-new-messages-v2.js).  The owner is told   *)
(* of a time, downloads, and acks that time: an ack is to spare the flag   *)
(* of what came later.  The times are those of the processes' own clocks,  *)
(* and each process sends its requests over one connection to redis.       *)
(*                                                                         *)
(* What a process had sent before it died, or a request that it took for   *)
(* failed, may have reached redis: it is executed any time later or never. *)
(*                                                                         *)
(* A poll is what NewMessagesV2 promises: it is told of a flag that was up *)
(* during the poll, or ends without one.                                   *)
(***************************************************************************)
EXTENDS Integers, Sequences

CONSTANTS
  Procs,
  Deliveries,    \* forwarded messages
  DeliveryProc,  \* [Deliveries -> Procs]: the process that receives it
  Nobody,        \* no process
  MaxTime,       \* bound: the time
  MaxSkew,       \* bound: how far clocks are ahead
  MaxFaults      \* bound: processes that die, requests to redis that fail

ASSUME DeliveryAssumption == DeliveryProc \in [Deliveries -> Procs] /\ Nobody \notin Procs
ASSUME RequestAssumption == {"GET", "DEL"} \cap Deliveries = {}
ASSUME BoundAssumption == MaxTime \in Nat \ {0} /\ MaxSkew \in Nat /\ MaxFaults \in Nat

VARIABLES
  time,
  skew,    \* [Procs -> 0..MaxSkew]: how far a process's clock is ahead
  stage,   \* [Deliveries -> Stage]: how far _handleAriesFwd is
  utime,   \* [Deliveries -> Time or None]: the time it is flagged with
  rw,      \* [Procs -> Seq(Request)]: on the way to redis; a delivery is its SET
  lateSets,  \* deliveries whose SET nobody waits for any more and redis may have got
  lateDels,  \* [Time -> Nat]: such DELs, by the time their ack was of
  flag,    \* Time or None
  client,  \* what the owner does
  during,  \* flags that were up since its poll began
  told,    \* Time or None: what the poll was answered, and what is acked
  server,  \* Procs or Nobody: the process that serves the ack
  saw,     \* Time or None: what the GET of the ack returned
  seen,    \* downloaded
  faults,  \* how much of the bound is used
  lost, raced, overtaken, erased  \* history: why a flag may be missing

deliveryVars == <<stage, utime>>
ownerVars == <<client, during, told, server, saw>>
clockVars == <<time, skew>>
whyVars == <<lost, raced, overtaken, erased>>
lateVars == <<lateSets, lateDels>>
vars == <<clockVars, deliveryVars, rw, lateVars, flag, ownerVars, seen, faults, whyVars>>

None == 0
Time == 1..MaxTime + MaxSkew
Request == Deliveries \cup {"GET", "DEL"}
Stage == {"idle", "stored", "accepted", "failed"}
Client == {"idle", "polling", "waiting", "downloading", "acking", "reading", "read", "deleting"}

TypeOK ==
  /\ time \in 1..MaxTime /\ skew \in [Procs -> 0..MaxSkew]
  /\ stage \in [Deliveries -> Stage] /\ utime \in [Deliveries -> Time \cup {None}]
  /\ rw \in [Procs -> Seq(Request)]
  /\ lateSets \in SUBSET Deliveries /\ lateDels \in [Time -> Nat]
  /\ flag \in Time \cup {None}
  /\ client \in Client /\ during \in SUBSET Time
  /\ told \in Time \cup {None} /\ server \in Procs \cup {Nobody} /\ saw \in Time \cup {None}
  /\ seen \in SUBSET Deliveries /\ faults \in Nat
  /\ lost \in SUBSET Deliveries /\ raced \in SUBSET Deliveries
  /\ overtaken \in SUBSET Deliveries /\ erased \in SUBSET Deliveries

Init ==
  /\ time = 1 /\ skew \in [Procs -> 0..MaxSkew]
  /\ stage = [d \in Deliveries |-> "idle"]
  /\ utime = [d \in Deliveries |-> None]
  /\ rw = [p \in Procs |-> <<>>]
  /\ lateSets = {} /\ lateDels = [t \in Time |-> 0]
  /\ flag = None
  /\ client = "idle" /\ during = {} /\ told = None /\ server = Nobody /\ saw = None
  /\ seen = {} /\ faults = 0
  /\ lost = {} /\ raced = {} /\ overtaken = {} /\ erased = {}

now(p) == time + skew[p]

Tick ==
  /\ time < MaxTime /\ time' = time + 1
  /\ UNCHANGED <<lateVars, skew, deliveryVars, rw, flag, ownerVars, seen, faults, whyVars>>

Send(p, request) == rw' = [rw EXCEPT ![p] = Append(@, request)]
IsNext(p, request) == rw[p] # <<>> /\ Head(rw[p]) = request
Executed(p) == rw' = [rw EXCEPT ![p] = Tail(@)]
Sent(d) == \E i \in DOMAIN rw[DeliveryProc[d]] : rw[DeliveryProc[d]][i] = d

\* The deliveries whose SET was executed.
Flagged == {d \in Deliveries : stage[d] = "accepted" /\ ~Sent(d) /\ d \notin lost}

-----------------------------------------------------------------------------
(* _handleAriesFwd, flagNewMessage                                         *)

storeMessage(d) ==
  /\ stage[d] = "idle"
  /\ stage' = [stage EXCEPT ![d] = "stored"]
  /\ UNCHANGED <<lateVars, utime, clockVars, rw, flag, ownerVars, seen, faults, whyVars>>

\* Faulty: the time is the one at which the message arrived.
flagWithArrivalTime(d) ==
  /\ stage[d] = "stored"
  /\ stage' = [stage EXCEPT ![d] = "accepted"]
  /\ \E t \in 1..now(DeliveryProc[d]) : utime' = [utime EXCEPT ![d] = t]
  /\ Send(DeliveryProc[d], d)
  /\ UNCHANGED <<lateVars, clockVars, flag, ownerVars, seen, faults, whyVars>>

\* The SET is sent and not waited for; the sender is answered.
flagNewMessage(d) ==
  /\ stage[d] = "stored"
  /\ stage' = [stage EXCEPT ![d] = "accepted"]
  /\ utime' = [utime EXCEPT ![d] = now(DeliveryProc[d])]
  /\ Send(DeliveryProc[d], d)
  /\ UNCHANGED <<lateVars, clockVars, flag, ownerVars, seen, faults, whyVars>>

Accepted == told >= saw

AckErasing == client = "deleting" \/ (client = "read" /\ Accepted)

\* The times of the acks that have compared them with a flag which may still be deleted.
Erasing ==
  {t \in Time : lateDels[t] > 0} \cup (IF AckErasing THEN {told} ELSE {})

\* The flag takes the time of a message, which may be earlier than what it was.
Flags(d) ==
  /\ flag' = utime[d]
  /\ during' = IF client \in {"polling", "waiting"} THEN during \cup {utime[d]} ELSE during
  /\ overtaken' = overtaken \cup {e \in Flagged : utime[e] > utime[d]}

SetExecuted(p, d) ==
  /\ IsNext(p, d)
  /\ Executed(p)
  /\ Flags(d)
  /\ raced' = IF Erasing # {} THEN raced \cup {d} ELSE raced
  /\ UNCHANGED <<lateVars, clockVars, deliveryVars, client, told, server, saw, seen, faults,
                 lost, erased>>

-----------------------------------------------------------------------------
(* The owner of the agent                                                  *)

OwnerGoes(next) == client' = next

\* The poll or the ack has ended.
Over ==
  /\ OwnerGoes("idle")
  /\ during' = {} /\ told' = None /\ server' = Nobody /\ saw' = None

Poll ==
  /\ client = "idle"
  /\ OwnerGoes("polling")
  /\ during' = {flag} \ {None}
  /\ UNCHANGED <<lateVars, clockVars, deliveryVars, rw, flag, told, server, saw, seen, faults,
                 whyVars>>

\* Told of a time, the owner downloads first.
Told(t) == told' = t /\ OwnerGoes("downloading") /\ during' = {} /\ UNCHANGED <<server, saw>>

\* Faulty: a poll waits even if the flag is up.
pollAlwaysWaits ==
  /\ client = "polling"
  /\ OwnerGoes("waiting")
  /\ during' = {}
  /\ UNCHANGED <<lateVars, clockVars, deliveryVars, rw, flag, told, server, saw, seen, faults,
                 whyVars>>

getUnackedMessageTimestamp ==
  /\ client = "polling"
  /\ \/ flag # None /\ Told(flag)
     \/ flag = None /\ OwnerGoes("waiting") /\ UNCHANGED <<during, told, server, saw>>
  /\ UNCHANGED <<lateVars, clockVars, deliveryVars, rw, flag, seen, faults, whyVars>>

\* A waiting poll is woken up, or it ends without a time.
PollEnds ==
  /\ client = "waiting"
  /\ (\E t \in during : Told(t)) \/ Over
  /\ UNCHANGED <<lateVars, clockVars, deliveryVars, rw, flag, seen, faults, whyVars>>

handleGetMsgs ==
  /\ client = "downloading"
  /\ seen' = {d \in Deliveries : stage[d] # "idle"}
  /\ OwnerGoes("acking")
  /\ UNCHANGED <<lateVars, clockVars, deliveryVars, rw, flag, during, told, server, saw, faults,
                 whyVars>>

AckRead(p) ==
  /\ Send(p, "GET")
  /\ OwnerGoes("reading") /\ server' = p
  /\ UNCHANGED <<during, told, saw>>

\* Faulty: a time of this very millisecond is refused, too.
ackEarlier(p) ==
  /\ client = "acking"
  /\ \/ told < now(p) /\ AckRead(p)
     \/ told >= now(p) /\ Over /\ UNCHANGED rw
  /\ UNCHANGED <<lateVars, clockVars, deliveryVars, flag, seen, faults, whyVars>>

\* A time of the future is refused.
ackNewMessage(p) ==
  /\ client = "acking"
  /\ \/ told <= now(p) /\ AckRead(p)
     \/ told > now(p) /\ Over /\ UNCHANGED rw
  /\ UNCHANGED <<lateVars, clockVars, deliveryVars, flag, seen, faults, whyVars>>

GetExecuted(p) ==
  /\ IsNext(p, "GET")
  /\ Executed(p)
  /\ \/ flag = None /\ Over
     \/ flag # None /\ saw' = flag /\ OwnerGoes("read") /\ UNCHANGED <<during, told, server>>
  /\ UNCHANGED <<lateVars, clockVars, deliveryVars, flag, seen, faults, whyVars>>

AckErases == Send(server, "DEL") /\ OwnerGoes("deleting") /\ UNCHANGED <<during, told, server, saw>>

\* Faulty: a flag is deleted whatever its time.
ackAnyTime ==
  /\ client = "read"
  /\ AckErases
  /\ UNCHANGED <<lateVars, clockVars, deliveryVars, flag, seen, faults, whyVars>>

\* A flag later than the time acked is spared.
ackDecided ==
  /\ client = "read"
  /\ \/ Accepted /\ AckErases
     \/ ~Accepted /\ Over /\ UNCHANGED rw
  /\ UNCHANGED <<lateVars, clockVars, deliveryVars, flag, seen, faults, whyVars>>

\* The flag is deleted on behalf of an ack of time t.
Deletes(t) ==
  /\ flag' = None
  /\ erased' = erased \cup {d \in Flagged \ seen : utime[d] <= t}

DelExecuted(p) ==
  /\ IsNext(p, "DEL")
  /\ Executed(p)
  /\ Deletes(told)
  /\ Over
  /\ UNCHANGED <<lateVars, clockVars, deliveryVars, seen, faults, lost, raced, overtaken>>

-----------------------------------------------------------------------------
(* Faults                                                                  *)

\* Faulty: an error of redis leaves the promise of an ack unsettled.
errorSettlesNothing(p) ==
  /\ faults < MaxFaults /\ faults' = faults + 1
  /\ rw[p] # <<>> /\ Executed(p)
  /\ lost' = lost \cup ({Head(rw[p])} \cap Deliveries)
  /\ UNCHANGED <<lateVars, clockVars, deliveryVars, flag, ownerVars, seen, raced, overtaken,
                 erased>>

DelMayCome == lateDels' \in {lateDels, [lateDels EXCEPT ![told] = @ + 1]}

\* A request to redis fails: that of a delivery is logged, that of an ack ends it.  Redis
\* may have got it all the same.
RequestFails(p) ==
  /\ faults < MaxFaults /\ faults' = faults + 1
  /\ rw[p] # <<>> /\ Executed(p)
  /\ LET request == Head(rw[p]) IN
       \/ /\ request \in Deliveries
          /\ lost' = lost \cup {request}
          /\ lateSets' \in {lateSets, lateSets \cup {request}}
          /\ UNCHANGED <<lateDels, ownerVars>>
       \/ /\ request \notin Deliveries
          /\ IF client = "deleting" THEN DelMayCome ELSE UNCHANGED lateDels
          /\ Over
          /\ UNCHANGED <<lateSets, lost>>
  /\ UNCHANGED <<clockVars, deliveryVars, flag, seen, raced, overtaken, erased>>

\* A process dies with its handlers; redis may have got what it has sent.
Crash(p) ==
  /\ faults < MaxFaults /\ faults' = faults + 1
  /\ LET dead == {d \in Deliveries : DeliveryProc[d] = p} IN
       /\ stage' = [d \in Deliveries |->
                      IF d \in dead /\ stage[d] = "stored" THEN "failed" ELSE stage[d]]
       /\ lost' = lost \cup {d \in dead : stage[d] = "stored" \/ Sent(d)}
       /\ \E got \in SUBSET {d \in dead : Sent(d)} : lateSets' = lateSets \cup got
  /\ rw' = [rw EXCEPT ![p] = <<>>]
  /\ IF server = p /\ client = "deleting" THEN DelMayCome ELSE UNCHANGED lateDels
  /\ IF server = p THEN Over ELSE UNCHANGED ownerVars
  /\ UNCHANGED <<clockVars, utime, flag, seen, raced, overtaken, erased>>

LateSet(d) ==
  /\ d \in lateSets /\ lateSets' = lateSets \ {d}
  /\ Flags(d)
  /\ UNCHANGED <<lateDels, clockVars, deliveryVars, rw, client, told, server, saw, seen, faults,
                 lost, raced, erased>>

LateDel(t) ==
  /\ lateDels[t] > 0 /\ lateDels' = [lateDels EXCEPT ![t] = @ - 1]
  /\ Deletes(t)
  /\ UNCHANGED <<lateSets, clockVars, deliveryVars, rw, ownerVars, seen, faults,
                 lost, raced, overtaken>>

-----------------------------------------------------------------------------

RedisStep(p) == (\E d \in Deliveries : SetExecuted(p, d)) \/ GetExecuted(p) \/ DelExecuted(p)

OwnerStep ==
  \/ Poll \/ getUnackedMessageTimestamp \/ PollEnds \/ handleGetMsgs
  \/ (\E p \in Procs : ackNewMessage(p)) \/ ackDecided

Next ==
  \/ Tick \/ OwnerStep
  \/ \E d \in Deliveries : storeMessage(d) \/ flagNewMessage(d)
  \/ \E p \in Procs : RedisStep(p) \/ RequestFails(p) \/ Crash(p)
  \/ \E d \in Deliveries : LateSet(d)
  \/ \E t \in Time : LateDel(t)

\* What is sent to redis is executed, handlers go on, and the owner goes on and polls again.
Fairness ==
  /\ WF_vars(OwnerStep)
  /\ \A d \in Deliveries : WF_vars(flagNewMessage(d))
  /\ \A p \in Procs : WF_vars(RedisStep(p))

Spec == Init /\ [][Next]_vars /\ Fairness

-----------------------------------------------------------------------------
(* Properties                                                              *)

\* A stored message that was not downloaded is announced; its announcement is missing only
\* if it failed, if its SET came when an ack that had read the flag could still delete it
\* (between its GET and its DEL, or while a DEL of a request that failed or of a process that
\* died may be under way), if a SET with an earlier time was executed later, or if its own
\* time is not later than a time acked (agent-connection.js:182-195,
\* service-new-messages-v2.js:96-132).
StoredIsAnnounced ==
  \A d \in Deliveries : stage[d] # "idle" /\ d \notin seen =>
    \/ flag # None
    \/ stage[d] = "stored" \/ Sent(d)
    \/ d \in lost \cup raced \cup overtaken \cup erased

\* An ack that waits for redis has its GET or DEL on the way there, in the process that
\* serves it, whichever requests fail and whoever dies: no owner waits for a lost answer
\* (service-new-messages-v2.js:104-121).
AckIsOnItsWay ==
  /\ client = "reading" => \E i \in DOMAIN rw[server] : rw[server][i] = "GET"
  /\ client = "deleting" => \E i \in DOMAIN rw[server] : rw[server][i] = "DEL"

InStep == \A p, q \in Procs : skew[p] = skew[q]

\* As long as the clocks agree, an ack of a time the owner was told is never refused as one
\* of the future, and a message that it has taken the announcement from was flagged in the
\* very millisecond acked, even if the DEL comes after the ack has failed: the times are
\* compared with > and with >= (service-new-messages-v2.js:99-106).
ExactInStep ==
  [][InStep =>
       /\ ~(client = "acking" /\ client' = "idle")
       /\ \A d \in erased' \ erased : utime[d] \in Erasing]_vars

\* The flag goes back in time only by a message of another process than that of the later
\* one, or by a SET that was taken for failed: one process takes the times and sends the SETs
\* in the same order (agent-connection.js:188-195, service-new-messages-v2.js:131).
FlagGoesBackOnlyAcross ==
  [][\A d \in Deliveries : flag' # None /\ d \in overtaken' \ overtaken =>
       \E e \in Deliveries : /\ utime[e] = flag'
                             /\ DeliveryProc[e] # DeliveryProc[d] \/ e \in lost]_vars

\* An accepted message is downloaded in the end, unless its announcement goes missing
\* (agent-connection.js:182-195, longpoll-v2.js:28-65).
DeliveredInTheEnd ==
  \A d \in Deliveries :
    stage[d] = "accepted" ~> d \in seen \cup lost \cup raced \cup overtaken \cup erased
=============================================================================
