---------------------------- MODULE NewMessages -----------------------------
(***************************************************************************)
(* New-message notifications, first version: the service that keeps one    *)
(* callback per agent (service-new-messages.js) and the long poll built on *)
(* it (longpoll.js), in every agency process, over one redis.              *)
(*                                                                         *)
(* Each await is a step boundary: a handler runs from one redis reply to   *)
(* its next redis request, and anything may happen in between.             *)
(***************************************************************************)
EXTENDS RedisAdapter

CONSTANTS
  Polls,        \* long polls, each with its callbackId (a fresh uuid)
  Acks,         \* ack requests
  CallerProc,   \* [Callers -> Procs]: the process serving a request
  CallerAgent,  \* [Callers -> Agents]: the agent it is about
  NoPoll,       \* no entry in agentSubscriptions
  MaxFlags,     \* bound: flagNewMessage calls
  MaxCrashes,   \* bound: process crashes
  MaxLosses     \* bound: subscriber connection losses per process

ASSUME CallersAreRequests ==
  /\ Callers = Polls \cup Acks
  /\ Polls \cap Acks = {}
  /\ NoPoll \notin Polls
  /\ CallerProc \in [Callers -> Procs]
  /\ CallerAgent \in [Callers -> Agents]

ASSUME FlagIsAValue == "true" \in Value

ASSUME BoundAssumption ==
  MaxFlags \in Nat /\ MaxCrashes \in Nat /\ MaxLosses \in Nat

VARIABLES
  agentSubscriptions,  \* [Procs -> [Agents -> Polls or NoPoll]]: whose callback
  phase,               \* [Callers -> Phase]: where each request is
  saw,                 \* [Polls -> Value or Nil]: what the GET of a poll returned
  answer,              \* [Polls -> Answer]: how the promise of a poll is settled
  flags, crashes,      \* how much of the bounds is used
  losses,              \* [Procs -> Nat]: connection losses since the process started
  woken                \* history: polls subscribed in redis when a SET was executed

serviceVars == <<agentSubscriptions, phase, saw, answer>>
boundVars == <<flags, crashes, losses>>
vars == <<redisVars, serviceVars, boundVars, woken>>

\* A poll: idle -> getting (GET sent) -> got (executed) -> subscribing (callback
\* registered, SUBSCRIBE sent) -> arming (reply read, its continuation queued) ->
\* armed (timer set).  An ack: idle -> deleting (DEL sent) -> deleted (executed) ->
\* unsubscribing.  Both end `over': nothing is left that could change anything.
Phase == {"idle", "getting", "got", "subscribing", "arming", "armed",
          "deleting", "deleted", "unsubscribing", "over"}
Answer == {"none", "true", "false", "error"}

Entry(c) == agentSubscriptions[CallerProc[c]][CallerAgent[c]]
At(c, ph) == phase[c] = ph

TypeOK ==
  /\ RedisTypeOK
  /\ agentSubscriptions \in [Procs -> [Agents -> Polls \cup {NoPoll}]]
  /\ phase \in [Callers -> Phase]
  /\ saw \in [Polls -> Value \cup {Nil}]
  /\ answer \in [Polls -> Answer]
  /\ flags \in Nat /\ crashes \in Nat /\ losses \in [Procs -> Nat]
  /\ woken \in SUBSET Polls

Init ==
  /\ RedisInit
  /\ agentSubscriptions = [p \in Procs |-> [a \in Agents |-> NoPoll]]
  /\ phase = [c \in Callers |-> "idle"]
  /\ saw = [c \in Polls |-> Nil]
  /\ answer = [c \in Polls |-> "none"]
  /\ flags = 0 /\ crashes = 0 /\ losses = [p \in Procs |-> 0]
  /\ woken = {}

-----------------------------------------------------------------------------
(* service-new-messages.js: the map of callbacks.                          *)

\* Faulty: the entry goes, its subscription stays.
cleanupWithoutUnsubscribe(p, a, k) ==
  /\ agentSubscriptions' = [agentSubscriptions EXCEPT ![p][a] = NoPoll]
  /\ UNCHANGED cmds

\* The entry goes and UNSUBSCRIBE is sent in one go; k waits for its reply.
cleanupSubscription(p, a, k) ==
  /\ agentSubscriptions' = [agentSubscriptions EXCEPT ![p][a] = NoPoll]
  /\ unsubscribeKey(p, a, k)

\* Faulty: the callbackId is not compared.
cleanupAnyCallback(c) == cleanupSubscription(CallerProc[c], CallerAgent[c], NoCaller)

\* A poll only removes its own callback.
cleanupNewMessageCallback(c) ==
  \/ /\ Entry(c) = c
     /\ cleanupSubscription(CallerProc[c], CallerAgent[c], NoCaller)
  \/ /\ Entry(c) # c
     /\ UNCHANGED <<agentSubscriptions, cmds>>

\* An earlier callback of the agent in this process is overwritten.
registerNewMessageCallback(c) ==
  /\ agentSubscriptions' = [agentSubscriptions EXCEPT ![CallerProc[c]][CallerAgent[c]] = c]
  /\ subscribeKey(CallerProc[c], CallerAgent[c], c)

hasUnackedMessage(c) == saw[c] = "true"

\* Settling a promise a second time has no effect.
Resolve(c, result) ==
  answer' = [answer EXCEPT ![c] = IF @ = "none" THEN result ELSE @]

wasResponseSent(c) == answer[c] \in {"true", "false"}

-----------------------------------------------------------------------------
(* longpoll.js                                                             *)

longpollNotifications(c) ==
  /\ At(c, "idle")
  /\ phase' = [phase EXCEPT ![c] = "getting"]
  /\ getValue(CallerProc[c], CallerAgent[c], c)
  /\ UNCHANGED <<store, cmds, inbox, subscribed, up>>
  /\ UNCHANGED <<agentSubscriptions, saw, answer, boundVars, woken>>

GetExecuted(p) ==
  /\ RedisGet(p)
  /\ LET c == Head(rw[p]).by IN
       /\ saw' = [saw EXCEPT ![c] = store[CallerAgent[c]]]
       /\ phase' = [phase EXCEPT ![c] = "got"]
  /\ UNCHANGED <<agentSubscriptions, answer, boundVars, woken>>

AnswerAtOnce(c) ==
  /\ At(c, "got")
  /\ hasUnackedMessage(c)
  /\ Resolve(c, "true")
  /\ phase' = [phase EXCEPT ![c] = "over"]
  /\ UNCHANGED <<redisVars, agentSubscriptions, saw, boundVars, woken>>

WaitForMessage(c) ==
  /\ At(c, "got")
  /\ ~hasUnackedMessage(c)
  /\ registerNewMessageCallback(c)
  /\ phase' = [phase EXCEPT ![c] = "subscribing"]
  /\ UNCHANGED <<store, rw, inbox, subscribed, up>>
  /\ UNCHANGED <<saw, answer, boundVars, woken>>

\* Faulty: a poll superseded meanwhile gets no timer.
SetTimerIfCurrent(c) ==
  /\ At(c, "arming")
  /\ Entry(c) = c
  /\ phase' = [phase EXCEPT ![c] = "armed"]
  /\ UNCHANGED <<redisVars, agentSubscriptions, saw, answer, boundVars, woken>>

SetTimer(c) ==
  /\ At(c, "arming")
  /\ phase' = [phase EXCEPT ![c] = "armed"]
  /\ UNCHANGED <<redisVars, agentSubscriptions, saw, answer, boundVars, woken>>

\* Faulty: a timeout is answered like a new message.
timeoutAnswersTrue(c) ==
  /\ At(c, "armed")
  /\ ~wasResponseSent(c)
  /\ cleanupNewMessageCallback(c)
  /\ Resolve(c, "true")
  /\ phase' = [phase EXCEPT ![c] = "over"]
  /\ UNCHANGED <<store, rw, inbox, subscribed, up>>
  /\ UNCHANGED <<saw, boundVars, woken>>

reactOnTimeout(c) ==
  /\ At(c, "armed")
  /\ ~wasResponseSent(c)
  /\ cleanupNewMessageCallback(c)
  /\ Resolve(c, "false")
  /\ phase' = [phase EXCEPT ![c] = "over"]
  /\ UNCHANGED <<store, rw, inbox, subscribed, up>>
  /\ UNCHANGED <<saw, boundVars, woken>>

\* Faulty: events are ignored until the timer is set.
reactOnlyWhenArmed(c) ==
  \/ /\ ~wasResponseSent(c) /\ At(c, "armed")
     /\ cleanupNewMessageCallback(c)
     /\ Resolve(c, "true")
     /\ phase' = [phase EXCEPT ![c] = "over"]
  \/ /\ wasResponseSent(c) \/ ~At(c, "armed")
     /\ UNCHANGED <<agentSubscriptions, cmds, answer, phase>>

reactOnNewMessage(c) ==
  \/ /\ ~wasResponseSent(c)
     /\ cleanupNewMessageCallback(c)
     /\ Resolve(c, "true")
     /\ phase' = [phase EXCEPT ![c] = "over"]
  \/ /\ wasResponseSent(c)
     /\ UNCHANGED <<agentSubscriptions, cmds, answer, phase>>

-----------------------------------------------------------------------------
(* What arrives on the subscriber connection of process p about agent a.   *)

OnEvent(p, a) ==
  /\ up[p]
  /\ inbox[p][a] # <<>>
  /\ Received(p, a).type \in {"set", "del"}
  /\ Dequeue(p, a)
  /\ LET c == agentSubscriptions[p][a]
         handled == isOurKeyspaceSetNotification(Received(p, a)) /\ c # NoPoll IN
       \/ handled /\ reactOnNewMessage(c)
       \/ ~handled /\ UNCHANGED <<agentSubscriptions, cmds, answer, phase>>
  /\ UNCHANGED <<store, rw, subscribed, up, saw, boundVars, woken>>

\* The reply of SUBSCRIBE lets its poll continue, that of UNSUBSCRIBE its ack.
OnReply(p, a) ==
  /\ up[p]
  /\ inbox[p][a] # <<>>
  /\ Received(p, a).type \in {"subscribe", "unsubscribe"}
  /\ Dequeue(p, a)
  /\ LET k == Received(p, a).by IN
       phase' = [c \in Callers |->
                   IF c = k /\ At(c, "subscribing") THEN "arming"
                   ELSE IF c = k /\ At(c, "unsubscribing") THEN "over"
                   ELSE phase[c]]
  /\ UNCHANGED <<store, rw, cmds, subscribed, up>>
  /\ UNCHANGED <<agentSubscriptions, saw, answer, boundVars, woken>>

-----------------------------------------------------------------------------
(* service-new-messages.js: flagging and acking.                           *)

flagNewMessage(p, a) ==
  /\ flags < MaxFlags
  /\ flags' = flags + 1
  /\ setValue(p, a, "true")
  /\ UNCHANGED <<store, cmds, inbox, subscribed, up>>
  /\ UNCHANGED <<serviceVars, crashes, losses, woken>>

\* c's SUBSCRIBE is executed and nothing has undone it.
Listening(c) ==
  /\ Entry(c) = c
  /\ up[CallerProc[c]]
  /\ subscribed[CallerProc[c]][CallerAgent[c]]
  /\ cmds[CallerProc[c]][CallerAgent[c]] = <<>>
  /\ phase[c] \in {"subscribing", "arming", "armed"}

SetExecuted(p) ==
  /\ RedisSet(p)
  /\ woken' = woken \cup {c \in Polls : CallerAgent[c] = Head(rw[p]).key /\ Listening(c)}
  /\ UNCHANGED <<serviceVars, boundVars>>

ackNewMessage(k) ==
  /\ At(k, "idle")
  /\ phase' = [phase EXCEPT ![k] = "deleting"]
  /\ deleteValue(CallerProc[k], CallerAgent[k], k)
  /\ UNCHANGED <<store, cmds, inbox, subscribed, up>>
  /\ UNCHANGED <<agentSubscriptions, saw, answer, boundVars, woken>>

DelExecuted(p) ==
  /\ RedisDel(p)
  /\ phase' = [phase EXCEPT ![Head(rw[p]).by] = "deleted"]
  /\ UNCHANGED <<agentSubscriptions, saw, answer, boundVars, woken>>

\* After the DEL the callback found then is removed, whoever registered it.
AckCleanup(k) ==
  /\ At(k, "deleted")
  /\ \/ /\ Entry(k) # NoPoll
        /\ cleanupSubscription(CallerProc[k], CallerAgent[k], k)
        /\ phase' = [phase EXCEPT ![k] = "unsubscribing"]
     \/ /\ Entry(k) = NoPoll
        /\ phase' = [phase EXCEPT ![k] = "over"]
        /\ UNCHANGED <<agentSubscriptions, cmds>>
  /\ UNCHANGED <<store, rw, inbox, subscribed, up>>
  /\ UNCHANGED <<saw, answer, boundVars, woken>>

-----------------------------------------------------------------------------
(* Failures.                                                               *)

\* Faulty: nobody is told that the connection is lost.
loseConnectionSilently(p) ==
  /\ losses[p] < MaxLosses
  /\ losses' = [losses EXCEPT ![p] = @ + 1]
  /\ ConnectionLost(p)
  /\ woken' = {c \in woken : CallerProc[c] # p}
  /\ UNCHANGED <<agentSubscriptions, phase, saw, answer, flags, crashes>>

\* The subscriber connection breaks: the requests waiting for a reply on it get
\* an error, the map of callbacks stays as it is.
LoseConnection(p) ==
  /\ losses[p] < MaxLosses
  /\ losses' = [losses EXCEPT ![p] = @ + 1]
  /\ ConnectionLost(p)
  /\ LET failed == {c \in Callers : /\ CallerProc[c] = p
                                    /\ phase[c] \in {"subscribing", "unsubscribing"}} IN
       /\ phase' = [c \in Callers |-> IF c \in failed THEN "over" ELSE phase[c]]
       /\ answer' = [c \in Polls |-> IF c \in failed THEN "error" ELSE answer[c]]
  /\ woken' = {c \in woken : CallerProc[c] # p}
  /\ UNCHANGED <<agentSubscriptions, saw, flags, crashes>>

Reconnect(p) ==
  /\ Reconnected(p)
  /\ UNCHANGED <<serviceVars, boundVars, woken>>

\* A process dies and is started again: its requests end in error and its map is
\* empty.  The keys stay.
Crash(p) ==
  /\ crashes < MaxCrashes
  /\ crashes' = crashes + 1
  /\ losses' = [losses EXCEPT ![p] = 0]
  /\ ProcessLost(p)
  /\ LET dead == {c \in Callers : CallerProc[c] = p /\ ~At(c, "idle")} IN
       /\ phase' = [c \in Callers |-> IF c \in dead THEN "over" ELSE phase[c]]
       /\ answer' = [c \in Polls |->
                       IF c \in dead /\ answer[c] = "none" THEN "error" ELSE answer[c]]
  /\ agentSubscriptions' = [agentSubscriptions EXCEPT ![p] = [a \in Agents |-> NoPoll]]
  /\ woken' = {c \in woken : CallerProc[c] # p}
  /\ UNCHANGED <<saw, flags>>

-----------------------------------------------------------------------------

PollStep(c) ==
  \/ AnswerAtOnce(c)
  \/ WaitForMessage(c)
  \/ SetTimer(c)
  \/ reactOnTimeout(c)

RedisStep(p) == GetExecuted(p) \/ SetExecuted(p) \/ DelExecuted(p)

Next ==
  \/ \E c \in Polls : longpollNotifications(c) \/ PollStep(c)
  \/ \E k \in Acks : ackNewMessage(k) \/ AckCleanup(k)
  \/ \E p \in Procs : RedisStep(p) \/ LoseConnection(p) \/ Reconnect(p) \/ Crash(p)
  \/ \E p \in Procs, a \in Agents :
       flagNewMessage(p, a)
         \/ (RedisCommand(p, a) /\ UNCHANGED <<serviceVars, boundVars, woken>>)
         \/ OnEvent(p, a)
         \/ OnReply(p, a)

\* Redis answers, the event loop runs what is queued, a timer fires and a lost
\* connection is made again.  Nothing says that a client polls, acks or is sent
\* a message, or that anything fails.
Fairness ==
  /\ \A c \in Polls : WF_vars(PollStep(c))
  /\ \A k \in Acks : WF_vars(AckCleanup(k))
  /\ \A p \in Procs : WF_vars(RedisStep(p)) /\ WF_vars(Reconnect(p))
  /\ \A p \in Procs, a \in Agents :
       /\ WF_vars(RedisCommand(p, a) /\ UNCHANGED <<serviceVars, boundVars, woken>>)
       /\ WF_vars(OnEvent(p, a))
       /\ WF_vars(OnReply(p, a))

Spec == Init /\ [][Next]_vars /\ Fairness

-----------------------------------------------------------------------------
(* Properties.                                                             *)

\* The map of callbacks and the subscriptions of redis are two copies of one
\* fact, kept by handlers that register, overwrite and clean up in any order with
\* commands in flight (service-new-messages.js:44-66): they agree once redis has
\* caught up.  Losing the connection may leave a subscription without a callback,
\* never a waiting poll without a subscription.
SubscriptionAgreement ==
  \A p \in Procs, a \in Agents :
    /\ losses[p] = 0 => (Intended(cmds[p][a], subscribed[p][a]) <=> agentSubscriptions[p][a] # NoPoll)
    /\ \A c \in Polls : agentSubscriptions[p][a] = c /\ ~At(c, "over") =>
         Intended(cmds[p][a], subscribed[p][a])

\* A message flagged once a poll's SUBSCRIBE is executed wakes that poll up: as
\* long as it keeps the entry of its agent, the event is on its way to it
\* (service-new-messages.js:28-42, longpoll.js:37-43).
WakeupNotLost ==
  \A c \in woken : Entry(c) = c =>
    \E i \in DOMAIN inbox[CallerProc[c]][CallerAgent[c]] :
      inbox[CallerProc[c]][CallerAgent[c]][i].type = "set"

\* A poll whose timer is set answers `true' only for a message flagged after its
\* SUBSCRIBE was executed: events of earlier subscriptions arrive before its
\* reply, and deletions do not count (event-adapter-redis.js:36-57).
WokenWhenArmed ==
  [][\A c \in Polls : At(c, "armed") /\ Resolve(c, "true") /\ answer[c] = "none"
       => c \in woken]_vars

\* A callback leaves the map only because its own poll ends, because the poll
\* has ended already, or through an ack of its agent: the timer or the late event
\* of another poll never removes it (service-new-messages.js:60-66).
RemovedByOwnerOrAck ==
  [][\A p \in Procs, a \in Agents, c \in Polls :
       agentSubscriptions[p][a] = c /\ agentSubscriptions'[p][a] = NoPoll =>
         \/ phase'[c] = "over"
         \/ \E k \in Acks : /\ CallerProc[k] = p /\ CallerAgent[k] = a
                            /\ At(k, "deleted") /\ ~At(k, "deleted")']_vars

\* What caller c waits for from redis, by its phase.
OnItsWay(c) ==
  LET p == CallerProc[c]
      a == CallerAgent[c] IN
  /\ At(c, "getting") => Asked(rw[p], c, "get")
  /\ At(c, "deleting") => Asked(rw[p], c, "del")
  /\ At(c, "subscribing") => Commanded(p, a, c, "subscribe")
  /\ At(c, "unsubscribing") => Commanded(p, a, c, "unsubscribe")

\* What a request waits for is always on its way: the GET, DEL, SUBSCRIBE or UNSUBSCRIBE
\* it has sent or the reply to it, and a timer that may still answer, whatever callbacks
\* others overwrite or tear down and whatever fails (longpoll.js:29-59,
\* service-new-messages.js:54-74).  Only that redis, the event loop and the timers go on is
\* left to fairness.
NobodyWaitsInVain ==
  /\ \A c \in Callers : OnItsWay(c)
  /\ \A c \in Polls : At(c, "armed") => ~wasResponseSent(c)

\* Every poll and every ack that was started ends, superseded, torn down or
\* disconnected as it may be (longpoll.js:52-55, service-new-messages.js:68-74).
EveryRequestEnds == \A c \in Callers : ~At(c, "idle") ~> At(c, "over")

\* What aries-msgs.spec.js:287 says of a waiting poll, "should be informed after
\* about new message within 1 second of arrival": while its agent has an unacked
\* message and its callback is registered, an event is on its way to it.
InformedOfArrival ==
  \A c \in Polls :
    At(c, "armed") /\ answer[c] = "none" /\ Entry(c) = c /\ store[CallerAgent[c]] = "true" =>
      \E i \in DOMAIN inbox[CallerProc[c]][CallerAgent[c]] :
        inbox[CallerProc[c]][CallerAgent[c]][i].type = "set"

\* The service implements LongPoll: `true' is never answered without a flag read
\* up or a flagging not yet spent on another poll of the process, even with stale
\* events, superseded polls, lost connections and crashes (longpoll.js:28-64).
LP == INSTANCE LongPoll WITH
  PollProc  <- [c \in Polls |-> CallerProc[c]],
  PollAgent <- [c \in Polls |-> CallerAgent[c]],
  flag      <- [a \in Agents |-> store[a] = "true"],
  status    <- [c \in Polls |-> IF answer[c] # "none" THEN answer[c]
                               ELSE IF At(c, "idle") THEN "idle" ELSE "waiting"],
  sawFlag   <- {c \in Polls : saw[c] = "true"},
  wakes     <- OnTheWay

ImplementsLongPoll == LP!Spec

=============================================================================
