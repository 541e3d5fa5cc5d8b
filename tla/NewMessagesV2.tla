---------------------------- MODULE NewMessagesV2 ---------------------------
(***************************************************************************)
(* New-message notifications, second version: the flag of an agent is the  *)
(* time of its last message, an ack carries a time                         *)
(* (service-new-messages-v2.js) and a poll is answered with a time         *)
(* (longpoll-v2.js).                                                       *)
(*                                                                         *)
(* Unlike the first version, the handler of a keyspace event reads the     *)
(* flag again before it calls the callback it took from the map, and an    *)
(* ack reads the flag before it deletes it: two more awaits in which other *)
(* requests run.                                                           *)
(***************************************************************************)
EXTENDS RedisAdapter

CONSTANTS
  Polls, Acks,
  CallerProc,   \* [Callers -> Procs]: the process serving a request
  CallerAgent,  \* [Callers -> Agents]: the agent it is about
  NoPoll,       \* no entry in agentSubscriptions
  Pending,      \* a promise not settled yet
  NoMessage,    \* a poll answered null: its timer fired
  NotANumber,   \* a poll answered NaN, which is sent as null
  Failed,       \* a promise rejected
  MaxFlags,     \* bound: flagNewMessage calls
  MaxCrashes,   \* bound: process crashes
  MaxLosses     \* bound: subscriber connection losses per process

ASSUME CallersAreRequests ==
  /\ Callers = Polls \cup Acks
  /\ Polls \cap Acks = {}
  /\ NoPoll \notin Polls
  /\ CallerProc \in [Callers -> Procs]
  /\ CallerAgent \in [Callers -> Agents]

\* Times in milliseconds; zero would be read as no message.
ASSUME TimesAreValues == Value \subseteq Nat \ {0} /\ 1 \in Value

ASSUME AnswersDiffer ==
  /\ {Pending, NoMessage, NotANumber, Failed} \cap Value = {}
  /\ Pending \notin {NoMessage, NotANumber, Failed}
  /\ Failed \notin {NoMessage, NotANumber}

ASSUME BoundAssumption ==
  MaxFlags \in Nat /\ MaxCrashes \in Nat /\ MaxLosses \in Nat

VARIABLES
  clock,               \* Value: the present time
  agentSubscriptions,  \* [Procs -> [Agents -> Polls or NoPoll]]: whose callback
  phase,               \* [Callers -> Phase]
  saw,                 \* [Callers -> Value or Nil]: what the GET of a request returned
  pushed,              \* [Polls -> Seq(Value or Nil)]: what the GETs of event handlers
                       \* returned, for the poll whose callback they took
  answer,              \* [Polls -> Value or Pending, NoMessage, NotANumber, Failed]
  ackUtime,            \* [Acks -> Value]: the time an ack carries
  flags, crashes, losses,  \* how much of the bounds is used
  woken,               \* history: polls subscribed in redis when a SET was executed
  current,             \* history, [Polls -> SUBSET Value]: flags up during a poll
  raced                \* history: acks between their GET and their DEL at a SET

serviceVars == <<agentSubscriptions, phase, saw, pushed, answer, ackUtime>>
boundVars == <<flags, crashes, losses>>
historyVars == <<woken, current, raced>>
vars == <<redisVars, clock, serviceVars, boundVars, historyVars>>

\* The phases of NewMessages, with one GET more for an ack: idle -> getting -> got
\* -> deleting -> deleted -> unsubscribing -> over.
Phase == {"idle", "getting", "got", "subscribing", "arming", "armed",
          "deleting", "deleted", "unsubscribing", "over"}

Entry(c) == agentSubscriptions[CallerProc[c]][CallerAgent[c]]
At(c, ph) == phase[c] = ph

TypeOK ==
  /\ RedisTypeOK
  /\ clock \in Value
  /\ agentSubscriptions \in [Procs -> [Agents -> Polls \cup {NoPoll}]]
  /\ phase \in [Callers -> Phase]
  /\ saw \in [Callers -> Value \cup {Nil}]
  /\ pushed \in [Polls -> Seq(Value \cup {Nil})]
  /\ answer \in [Polls -> Value \cup {Pending, NoMessage, NotANumber, Failed}]
  /\ ackUtime \in [Acks -> Value]
  /\ flags \in Nat /\ crashes \in Nat /\ losses \in [Procs -> Nat]
  /\ woken \in SUBSET Polls /\ current \in [Polls -> SUBSET Value] /\ raced \in SUBSET Acks

Init ==
  /\ RedisInit
  /\ clock = 1
  /\ agentSubscriptions = [p \in Procs |-> [a \in Agents |-> NoPoll]]
  /\ phase = [c \in Callers |-> "idle"]
  /\ saw = [c \in Callers |-> Nil]
  /\ pushed = [c \in Polls |-> <<>>]
  /\ answer = [c \in Polls |-> Pending]
  /\ ackUtime = [k \in Acks |-> 1]
  /\ flags = 0 /\ crashes = 0 /\ losses = [p \in Procs |-> 0]
  /\ woken = {} /\ current = [c \in Polls |-> {}] /\ raced = {}

Tick ==
  /\ clock + 1 \in Value
  /\ clock' = clock + 1
  /\ UNCHANGED <<redisVars, serviceVars, boundVars, historyVars>>

-----------------------------------------------------------------------------
(* service-new-messages-v2.js: the map of callbacks.                       *)

\* Faulty: the entry goes, its subscription stays.
cleanupWithoutUnsubscribe(p, a, k) ==
  /\ agentSubscriptions' = [agentSubscriptions EXCEPT ![p][a] = NoPoll]
  /\ UNCHANGED cmds

cleanupSubscription(p, a, k) ==
  /\ agentSubscriptions' = [agentSubscriptions EXCEPT ![p][a] = NoPoll]
  /\ unsubscribeKey(p, a, k)

cleanupCallback(c) ==
  \/ /\ Entry(c) = c
     /\ cleanupSubscription(CallerProc[c], CallerAgent[c], NoCaller)
  \/ /\ Entry(c) # c
     /\ UNCHANGED <<agentSubscriptions, cmds>>

registerCallback(c) ==
  /\ agentSubscriptions' = [agentSubscriptions EXCEPT ![CallerProc[c]][CallerAgent[c]] = c]
  /\ subscribeKey(CallerProc[c], CallerAgent[c], c)

Resolve(c, result) ==
  answer' = [answer EXCEPT ![c] = IF @ = Pending THEN result ELSE @]

wasResponseSent(c) == answer[c] \notin {Pending, Failed}

\* Faulty: a missing flag is passed on.
unparsed(value) == value

parsed(value) == IF value = Nil THEN NotANumber ELSE value

-----------------------------------------------------------------------------
(* longpoll-v2.js                                                          *)

longpollNotificationsV2(c) ==
  /\ At(c, "idle")
  /\ phase' = [phase EXCEPT ![c] = "getting"]
  /\ getValue(CallerProc[c], CallerAgent[c], c)
  /\ current' = [current EXCEPT ![c] = {store[CallerAgent[c]]} \ {Nil}]
  /\ UNCHANGED <<store, cmds, inbox, subscribed, up, clock, boundVars, woken, raced>>
  /\ UNCHANGED <<agentSubscriptions, saw, pushed, answer, ackUtime>>

\* The GET of a request returns to it, that of an event handler to the poll whose
\* callback the handler holds.
GetExecuted(p) ==
  /\ RedisGet(p)
  /\ LET c == Head(rw[p]).by
         value == store[CallerAgent[c]] IN
       \/ /\ At(c, "getting")
          /\ saw' = [saw EXCEPT ![c] = value]
          /\ phase' = [phase EXCEPT ![c] = "got"]
          /\ UNCHANGED pushed
       \/ /\ ~At(c, "getting")
          /\ pushed' = [pushed EXCEPT ![c] = Append(@, value)]
          /\ UNCHANGED <<saw, phase>>
  /\ UNCHANGED <<clock, agentSubscriptions, answer, ackUtime, boundVars, historyVars>>

AnswerAtOnce(c) ==
  /\ At(c, "got")
  /\ saw[c] # Nil
  /\ Resolve(c, saw[c])
  /\ phase' = [phase EXCEPT ![c] = "over"]
  /\ UNCHANGED <<redisVars, clock, boundVars, historyVars>>
  /\ UNCHANGED <<agentSubscriptions, saw, pushed, ackUtime>>

WaitForMessage(c) ==
  /\ At(c, "got")
  /\ saw[c] = Nil
  /\ registerCallback(c)
  /\ phase' = [phase EXCEPT ![c] = "subscribing"]
  /\ UNCHANGED <<store, rw, inbox, subscribed, up, clock, boundVars, historyVars>>
  /\ UNCHANGED <<saw, pushed, answer, ackUtime>>

\* Faulty: a poll superseded meanwhile gets no timer.
SetTimerIfCurrent(c) ==
  /\ At(c, "arming")
  /\ Entry(c) = c
  /\ phase' = [phase EXCEPT ![c] = "armed"]
  /\ UNCHANGED <<redisVars, clock, boundVars, historyVars>>
  /\ UNCHANGED <<agentSubscriptions, saw, pushed, answer, ackUtime>>

SetTimer(c) ==
  /\ At(c, "arming")
  /\ phase' = [phase EXCEPT ![c] = "armed"]
  /\ UNCHANGED <<redisVars, clock, boundVars, historyVars>>
  /\ UNCHANGED <<agentSubscriptions, saw, pushed, answer, ackUtime>>

reactOnTimeout(c) ==
  /\ At(c, "armed")
  /\ ~wasResponseSent(c)
  /\ cleanupCallback(c)
  /\ Resolve(c, NoMessage)
  /\ phase' = [phase EXCEPT ![c] = "over"]
  /\ UNCHANGED <<store, rw, inbox, subscribed, up, clock, boundVars, historyVars>>
  /\ UNCHANGED <<saw, pushed, ackUtime>>

\* Faulty: callbacks are ignored until the timer is set.
reactOnlyWhenArmed(c, newMsgUtime) ==
  \/ /\ ~wasResponseSent(c) /\ At(c, "armed")
     /\ cleanupCallback(c)
     /\ Resolve(c, newMsgUtime)
     /\ phase' = [phase EXCEPT ![c] = "over"]
  \/ /\ wasResponseSent(c) \/ ~At(c, "armed")
     /\ UNCHANGED <<agentSubscriptions, cmds, answer, phase>>

reactOnNewMessage(c, newMsgUtime) ==
  \/ /\ ~wasResponseSent(c)
     /\ cleanupCallback(c)
     /\ Resolve(c, newMsgUtime)
     /\ phase' = [phase EXCEPT ![c] = "over"]
  \/ /\ wasResponseSent(c)
     /\ UNCHANGED <<agentSubscriptions, cmds, answer, phase>>

-----------------------------------------------------------------------------
(* What arrives on the subscriber connection of process p about agent a.   *)

\* The handler takes the callback first and asks redis for the flag afterwards.
OnEvent(p, a) ==
  /\ up[p]
  /\ inbox[p][a] # <<>>
  /\ Received(p, a).type \in {"set", "del"}
  /\ Dequeue(p, a)
  /\ LET c == agentSubscriptions[p][a]
         handled == isOurKeyspaceSetNotification(Received(p, a)) /\ c # NoPoll IN
       \/ handled /\ getValue(p, a, c)
       \/ ~handled /\ UNCHANGED rw
  /\ UNCHANGED <<store, cmds, subscribed, up, clock, serviceVars, boundVars, historyVars>>

\* Faulty: the handler takes the callback from the map after it has read the flag.
callBackWhoeverIsRegistered(c) ==
  /\ pushed[c] # <<>>
  /\ pushed' = [pushed EXCEPT ![c] = Tail(@)]
  /\ \/ Entry(c) # NoPoll /\ reactOnNewMessage(Entry(c), parsed(Head(pushed[c])))
     \/ Entry(c) = NoPoll /\ UNCHANGED <<agentSubscriptions, cmds, answer, phase>>
  /\ UNCHANGED <<store, rw, inbox, subscribed, up, clock, saw, ackUtime, boundVars, historyVars>>

\* The handler goes on with the flag it has read and the callback it took before.
CallBack(c) ==
  /\ pushed[c] # <<>>
  /\ pushed' = [pushed EXCEPT ![c] = Tail(@)]
  /\ reactOnNewMessage(c, parsed(Head(pushed[c])))
  /\ UNCHANGED <<store, rw, inbox, subscribed, up, clock, saw, ackUtime, boundVars, historyVars>>

OnReply(p, a) ==
  /\ up[p]
  /\ inbox[p][a] # <<>>
  /\ Received(p, a).type \in {"subscribe", "unsubscribe"}
  /\ Dequeue(p, a)
  /\ LET k == Received(p, a).by IN
       phase' = [c \in Callers |->
                   IF c = k /\ At(c, "subscribing") THEN "arming"
                   ELSE IF c = k /\ At(c, "unsubscribing") THEN "over"
                   ELSE phase[c]]
  /\ UNCHANGED <<store, rw, cmds, subscribed, up, clock, boundVars, historyVars>>
  /\ UNCHANGED <<agentSubscriptions, saw, pushed, answer, ackUtime>>

-----------------------------------------------------------------------------
(* service-new-messages-v2.js: flagging and acking.                        *)

\* Flagged with the present time, so the check against the future cannot fail.
flagNewMessage(p, a) ==
  /\ flags < MaxFlags
  /\ flags' = flags + 1
  /\ setValue(p, a, clock)
  /\ UNCHANGED <<store, cmds, inbox, subscribed, up, clock>>
  /\ UNCHANGED <<serviceVars, crashes, losses, historyVars>>

Listening(c) ==
  /\ Entry(c) = c
  /\ up[CallerProc[c]]
  /\ subscribed[CallerProc[c]][CallerAgent[c]]
  /\ cmds[CallerProc[c]][CallerAgent[c]] = <<>>
  /\ phase[c] \in {"subscribing", "arming", "armed"}

SetExecuted(p) ==
  /\ RedisSet(p)
  /\ LET a == Head(rw[p]).key IN
       /\ woken' = woken \cup {c \in Polls : CallerAgent[c] = a /\ Listening(c)}
       /\ current' = [c \in Polls |->
                        IF CallerAgent[c] = a /\ phase[c] \notin {"idle", "over"}
                        THEN current[c] \cup {Head(rw[p]).value} ELSE current[c]]
       /\ raced' = raced \cup {k \in Acks : CallerAgent[k] = a /\ phase[k] \in {"got", "deleting"}}
  /\ UNCHANGED <<clock, serviceVars, boundVars>>

\* An ack from the future fails; any other reads the flag first.
ackNewMessage(k, t) ==
  /\ At(k, "idle")
  /\ ackUtime' = [ackUtime EXCEPT ![k] = t]
  /\ \/ /\ t > clock
        /\ phase' = [phase EXCEPT ![k] = "over"]
        /\ UNCHANGED rw
     \/ /\ t <= clock
        /\ phase' = [phase EXCEPT ![k] = "getting"]
        /\ getValue(CallerProc[k], CallerAgent[k], k)
  /\ UNCHANGED <<store, cmds, inbox, subscribed, up, clock, boundVars, historyVars>>
  /\ UNCHANGED <<agentSubscriptions, saw, pushed, answer>>

\* Faulty: any flag is erased, the time of the ack is not looked at.
isAnyFlag(k) == saw[k] # Nil

isAccepted(k) == saw[k] # Nil /\ ackUtime[k] >= saw[k]

\* The flag it has read decides, the flag there is then is deleted.
AckDecided(k) ==
  /\ At(k, "got")
  /\ \/ /\ isAccepted(k)
        /\ deleteValue(CallerProc[k], CallerAgent[k], k)
        /\ phase' = [phase EXCEPT ![k] = "deleting"]
     \/ /\ ~isAccepted(k)
        /\ phase' = [phase EXCEPT ![k] = "over"]
        /\ UNCHANGED rw
  /\ UNCHANGED <<store, cmds, inbox, subscribed, up, clock, boundVars, historyVars>>
  /\ UNCHANGED <<agentSubscriptions, saw, pushed, answer, ackUtime>>

DelExecuted(p) ==
  /\ RedisDel(p)
  /\ phase' = [phase EXCEPT ![Head(rw[p]).by] = "deleted"]
  /\ UNCHANGED <<clock, agentSubscriptions, saw, pushed, answer, ackUtime, boundVars, historyVars>>

AckCleanup(k) ==
  /\ At(k, "deleted")
  /\ \/ /\ Entry(k) # NoPoll
        /\ cleanupSubscription(CallerProc[k], CallerAgent[k], k)
        /\ phase' = [phase EXCEPT ![k] = "unsubscribing"]
     \/ /\ Entry(k) = NoPoll
        /\ phase' = [phase EXCEPT ![k] = "over"]
        /\ UNCHANGED <<agentSubscriptions, cmds>>
  /\ UNCHANGED <<store, rw, inbox, subscribed, up, clock, boundVars, historyVars>>
  /\ UNCHANGED <<saw, pushed, answer, ackUtime>>

-----------------------------------------------------------------------------
(* Failures, as in NewMessages.                                            *)

LoseConnection(p) ==
  /\ losses[p] < MaxLosses
  /\ losses' = [losses EXCEPT ![p] = @ + 1]
  /\ ConnectionLost(p)
  /\ LET failed == {c \in Callers : /\ CallerProc[c] = p
                                    /\ phase[c] \in {"subscribing", "unsubscribing"}} IN
       /\ phase' = [c \in Callers |-> IF c \in failed THEN "over" ELSE phase[c]]
       /\ answer' = [c \in Polls |-> IF c \in failed THEN Failed ELSE answer[c]]
  /\ woken' = {c \in woken : CallerProc[c] # p}
  /\ UNCHANGED <<clock, agentSubscriptions, saw, pushed, ackUtime, flags, crashes, current, raced>>

Reconnect(p) ==
  /\ Reconnected(p)
  /\ UNCHANGED <<clock, serviceVars, boundVars, historyVars>>

Crash(p) ==
  /\ crashes < MaxCrashes
  /\ crashes' = crashes + 1
  /\ losses' = [losses EXCEPT ![p] = 0]
  /\ ProcessLost(p)
  /\ LET dead == {c \in Callers : CallerProc[c] = p /\ ~At(c, "idle")} IN
       /\ phase' = [c \in Callers |-> IF c \in dead THEN "over" ELSE phase[c]]
       /\ answer' = [c \in Polls |->
                       IF c \in dead /\ answer[c] = Pending THEN Failed ELSE answer[c]]
       /\ pushed' = [c \in Polls |-> IF c \in dead THEN <<>> ELSE pushed[c]]
  /\ agentSubscriptions' = [agentSubscriptions EXCEPT ![p] = [a \in Agents |-> NoPoll]]
  /\ woken' = {c \in woken : CallerProc[c] # p}
  /\ UNCHANGED <<clock, saw, ackUtime, flags, current, raced>>

-----------------------------------------------------------------------------

PollStep(c) ==
  \/ AnswerAtOnce(c)
  \/ WaitForMessage(c)
  \/ SetTimer(c)
  \/ reactOnTimeout(c)

AckStep(k) == AckDecided(k) \/ AckCleanup(k)

RedisStep(p) == GetExecuted(p) \/ SetExecuted(p) \/ DelExecuted(p)

CommandExecuted(p, a) ==
  RedisCommand(p, a) /\ UNCHANGED <<clock, serviceVars, boundVars, historyVars>>

Next ==
  \/ Tick
  \/ \E c \in Polls : longpollNotificationsV2(c) \/ PollStep(c) \/ CallBack(c)
  \/ \E k \in Acks : AckStep(k) \/ \E t \in Value : ackNewMessage(k, t)
  \/ \E p \in Procs : RedisStep(p) \/ LoseConnection(p) \/ Reconnect(p) \/ Crash(p)
  \/ \E p \in Procs, a \in Agents :
       flagNewMessage(p, a) \/ CommandExecuted(p, a) \/ OnEvent(p, a) \/ OnReply(p, a)

Fairness ==
  /\ \A c \in Polls : WF_vars(PollStep(c)) /\ WF_vars(CallBack(c))
  /\ \A k \in Acks : WF_vars(AckStep(k))
  /\ \A p \in Procs : WF_vars(RedisStep(p)) /\ WF_vars(Reconnect(p))
  /\ \A p \in Procs, a \in Agents :
       WF_vars(CommandExecuted(p, a)) /\ WF_vars(OnEvent(p, a)) /\ WF_vars(OnReply(p, a))

Spec == Init /\ [][Next]_vars /\ Fairness

-----------------------------------------------------------------------------
(* Properties.                                                             *)

\* The map of callbacks and the subscriptions of redis agree once redis has caught
\* up (service-new-messages-v2.js:55-94,115-121).
SubscriptionAgreement ==
  \A p \in Procs, a \in Agents :
    /\ losses[p] = 0 => (Intended(cmds[p][a], subscribed[p][a]) <=> agentSubscriptions[p][a] # NoPoll)
    /\ \A c \in Polls : agentSubscriptions[p][a] = c /\ ~At(c, "over") =>
         Intended(cmds[p][a], subscribed[p][a])

\* A poll is never answered with a time that was not the flag of its agent at some
\* moment of the poll: a handler that reads the flag again and calls back the poll
\* it found before cannot bring up a message acked earlier
\* (service-new-messages-v2.js:37-53, longpoll-v2.js:29-43).
AnswerFresh == \A c \in Polls : answer[c] \in Value => answer[c] \in current[c]

\* A message flagged once a poll's SUBSCRIBE is executed stays on its way to it as
\* long as the poll keeps the entry of its agent: as an event, as the GET of its
\* handler or as what that GET returned (service-new-messages-v2.js:37-53).
WakeupNotLost ==
  \A c \in woken : Entry(c) = c =>
    LET p == CallerProc[c] IN
      \/ \E i \in DOMAIN inbox[p][CallerAgent[c]] : inbox[p][CallerAgent[c]][i].type = "set"
      \/ \E i \in DOMAIN rw[p] : rw[p][i].op = "get" /\ rw[p][i].by = c
      \/ pushed[c] # <<>>

\* An ack erases a flag later than its own time only if that flag was set between
\* the GET and the DEL of the ack (service-new-messages-v2.js:96-121).
LaterFlagLostOnlyByRace ==
  [][\A p \in Procs : DelExecuted(p) =>
       LET del == Head(rw[p]) IN
         store[del.key] \in Value /\ store[del.key] > ackUtime[del.by] => del.by \in raced]_vars

\* What caller c waits for from redis, by its phase.
OnItsWay(c) ==
  LET p == CallerProc[c]
      a == CallerAgent[c] IN
  /\ At(c, "getting") => Asked(rw[p], c, "get")
  /\ At(c, "deleting") => Asked(rw[p], c, "del")
  /\ At(c, "subscribing") => Commanded(p, a, c, "subscribe")
  /\ At(c, "unsubscribing") => Commanded(p, a, c, "unsubscribe")

\* What a request waits for is always on its way: the GET, DEL, SUBSCRIBE or UNSUBSCRIBE
\* it has sent or the reply to it, and a timer that may still answer, whatever callbacks
\* others overwrite or tear down and whatever fails (longpoll-v2.js:29-60,
\* service-new-messages-v2.js:55-60,68-121).  Only that
\* redis, the event loop and the timers go on is left to fairness.
NobodyWaitsInVain ==
  /\ \A c \in Callers : OnItsWay(c)
  /\ \A c \in Polls : At(c, "armed") => ~wasResponseSent(c)

\* Every poll and every ack that was started ends (longpoll-v2.js:53-59).
EveryRequestEnds == \A c \in Callers : ~At(c, "idle") ~> At(c, "over")

\* What the service logs of an ack older than the flag, "this will be ignored
\* because another message has been received later"
\* (service-new-messages-v2.js:110): no ack erases a later flag.
AckSparesLaterFlag ==
  [][\A p \in Procs : DelExecuted(p) =>
       LET del == Head(rw[p]) IN
         store[del.key] \in Value => store[del.key] <= ackUtime[del.by]]_vars

-----------------------------------------------------------------------------
(* The long poll as its callers know it.                                   *)

StartedPolls == {c \in Polls : ~At(c, "idle")}
FoundFlags == [c \in Polls |-> saw[c]]

\* The callbacks on their way to a poll: flags that handlers have read for it, and the
\* GETs of handlers, of which the GET of the poll itself is none.
Calls == [c \in Polls |->
  Len(pushed[c])
    + (IF At(c, "getting") THEN 0 ELSE Cardinality(Gets(rw[CallerProc[c]], c)))]

LP == INSTANCE LongPollV2 WITH
  PollProc  <- [c \in Polls |-> CallerProc[c]],
  PollAgent <- [c \in Polls |-> CallerAgent[c]],
  flag      <- store,
  started   <- StartedPolls,
  result    <- answer,
  found     <- FoundFlags,
  seen      <- current,
  wakes     <- OnTheWay,
  calls     <- Calls

\* The service implements LongPollV2: an answer is a flag of the poll's own time, read
\* by the poll itself or by the one handler a flagging leads to in its process, even
\* with stale events, handlers that outlive their poll, lost connections and crashes
\* (longpoll-v2.js:29-64, service-new-messages-v2.js:37-53).
ImplementsLongPoll == LP!Spec

=============================================================================
