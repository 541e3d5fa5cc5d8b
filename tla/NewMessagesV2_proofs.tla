------------------------ MODULE NewMessagesV2_proofs ------------------------
(***************************************************************************)
(* Theorems about the second version of the notification service and its   *)
(* long poll, for every number of processes, agents, polls, acks, messages *)
(* and failures, whatever the times acked.                                 *)
(***************************************************************************)
EXTENDS NewMessagesV2, RedisAdapter_proofs

-----------------------------------------------------------------------------
(* Type correctness.                                                       *)

\* A caller has a process and an agent.
LEMMA CallerPlaces ==
  /\ \A c \in Callers : CallerProc[c] \in Procs /\ CallerAgent[c] \in Agents
  /\ Polls \subseteq Callers /\ Acks \subseteq Callers
  BY CallersAreRequests

\* What the handlers leave typed when they clean up, register or call back.
LEMMA SubscriptionsTyped ==
  ASSUME TypeOK
  PROVE  /\ \A p \in Procs, a \in Agents, k \in Callers \cup {NoCaller} :
              cleanupSubscription(p, a, k) =>
                /\ agentSubscriptions' \in [Procs -> [Agents -> Polls \cup {NoPoll}]]
                /\ cmds' \in [Procs -> [Agents -> Seq(Command)]]
         /\ \A c \in Polls : cleanupCallback(c) \/ registerCallback(c) =>
              /\ agentSubscriptions' \in [Procs -> [Agents -> Polls \cup {NoPoll}]]
              /\ cmds' \in [Procs -> [Agents -> Seq(Command)]]
<1>1. ASSUME NEW p \in Procs, NEW a \in Agents, NEW k \in Callers \cup {NoCaller},
             cleanupSubscription(p, a, k)
      PROVE  /\ agentSubscriptions' \in [Procs -> [Agents -> Polls \cup {NoPoll}]]
             /\ cmds' \in [Procs -> [Agents -> Seq(Command)]]
  <2>1. cmds' \in [Procs -> [Agents -> Seq(Command)]]
    BY <1>1, SendTyped DEF cleanupSubscription, TypeOK
  <2>2. QED
    BY <1>1, <2>1 DEF cleanupSubscription, TypeOK
<1>2. ASSUME NEW c \in Polls, cleanupCallback(c)
      PROVE  /\ agentSubscriptions' \in [Procs -> [Agents -> Polls \cup {NoPoll}]]
             /\ cmds' \in [Procs -> [Agents -> Seq(Command)]]
  <2>1. CASE cleanupSubscription(CallerProc[c], CallerAgent[c], NoCaller)
    BY <1>1, <2>1, CallerPlaces
  <2>2. CASE UNCHANGED <<agentSubscriptions, cmds>>
    BY <2>2 DEF TypeOK, RedisTypeOK
  <2>3. QED
    BY <1>2, <2>1, <2>2 DEF cleanupCallback
<1>3. ASSUME NEW c \in Polls, registerCallback(c)
      PROVE  /\ agentSubscriptions' \in [Procs -> [Agents -> Polls \cup {NoPoll}]]
             /\ cmds' \in [Procs -> [Agents -> Seq(Command)]]
  <2>1. CallerProc[c] \in Procs /\ CallerAgent[c] \in Agents /\ c \in Callers
    BY CallerPlaces
  <2>2. cmds' \in [Procs -> [Agents -> Seq(Command)]]
    BY <1>3, <2>1, SendTyped DEF registerCallback, TypeOK
  <2>3. QED
    BY <1>3, <2>1, <2>2 DEF registerCallback, TypeOK
<1>4. QED
  BY <1>1, <1>2, <1>3

\* The initial state is typed.
LEMMA InitTyped == Init => TypeOK
<1> SUFFICES ASSUME Init PROVE TypeOK
  OBVIOUS
<1>1. RedisTypeOK
  BY DEF Init, RedisInit, RedisTypeOK
<1>2. QED
  BY <1>1, TimesAreValues DEF Init, TypeOK, Phase

\* The steps of a poll keep the state typed.
LEMMA PollStepsTyped ==
  ASSUME TypeOK, NEW c \in Polls, longpollNotificationsV2(c) \/ PollStep(c) \/ CallBack(c)
  PROVE  TypeOK'
<1>1. CallerProc[c] \in Procs /\ CallerAgent[c] \in Agents /\ c \in Callers
  BY CallerPlaces
<1>2. CASE longpollNotificationsV2(c)
  <2>1. rw' \in [Procs -> Seq(Request)]
    BY <1>1, <1>2, SendTyped DEF longpollNotificationsV2, TypeOK
  <2>2. current' \in [Polls -> SUBSET Value]
    BY <1>1, <1>2 DEF longpollNotificationsV2, TypeOK, RedisTypeOK
  <2>3. QED
    BY <1>1, <1>2, <2>1, <2>2
    DEF longpollNotificationsV2, TypeOK, RedisTypeOK, Phase, boundVars
<1>3. CASE AnswerAtOnce(c)
  <2>1. saw[c] \in Value
    BY <1>1, <1>3 DEF AnswerAtOnce, TypeOK
  <2>2. QED
    BY <1>1, <1>3, <2>1
    DEF AnswerAtOnce, Resolve, TypeOK, RedisTypeOK, redisVars, Phase, boundVars, historyVars
<1>4. CASE WaitForMessage(c)
  <2>1. /\ agentSubscriptions' \in [Procs -> [Agents -> Polls \cup {NoPoll}]]
        /\ cmds' \in [Procs -> [Agents -> Seq(Command)]]
    BY <1>4, SubscriptionsTyped DEF WaitForMessage
  <2>2. QED
    BY <1>1, <1>4, <2>1 DEF WaitForMessage, TypeOK, RedisTypeOK, Phase, boundVars, historyVars
<1>5. CASE SetTimer(c)
  BY <1>1, <1>5 DEF SetTimer, TypeOK, RedisTypeOK, redisVars, Phase, boundVars, historyVars
<1>6. CASE reactOnTimeout(c)
  <2>1. /\ agentSubscriptions' \in [Procs -> [Agents -> Polls \cup {NoPoll}]]
        /\ cmds' \in [Procs -> [Agents -> Seq(Command)]]
    BY <1>6, SubscriptionsTyped DEF reactOnTimeout
  <2>2. QED
    BY <1>1, <1>6, <2>1
    DEF reactOnTimeout, Resolve, TypeOK, RedisTypeOK, Phase, boundVars, historyVars
<1>7. CASE CallBack(c)
  <2> DEFINE result == parsed(Head(pushed[c]))
  <2>1. /\ Head(pushed[c]) \in Value \cup {Nil} /\ Tail(pushed[c]) \in Seq(Value \cup {Nil})
        /\ pushed' = [pushed EXCEPT ![c] = Tail(@)]
    BY <1>7 DEF CallBack, TypeOK
  <2>2. pushed' \in [Polls -> Seq(Value \cup {Nil})] /\ result \in Value \cup {NotANumber}
    BY <2>1 DEF parsed, TypeOK
  <2>3. /\ agentSubscriptions' \in [Procs -> [Agents -> Polls \cup {NoPoll}]]
        /\ cmds' \in [Procs -> [Agents -> Seq(Command)]]
        /\ phase' \in [Callers -> Phase]
        /\ answer' \in [Polls -> Value \cup {Pending, NoMessage, NotANumber, Failed}]
    <3>1. CASE UNCHANGED <<agentSubscriptions, cmds, answer, phase>>
      BY <3>1 DEF TypeOK, RedisTypeOK
    <3>2. CASE /\ cleanupCallback(c) /\ Resolve(c, result)
               /\ phase' = [phase EXCEPT ![c] = "over"]
      <4>1. answer' \in [Polls -> Value \cup {Pending, NoMessage, NotANumber, Failed}]
        BY <2>2, <3>2 DEF Resolve, TypeOK
      <4>2. QED
        BY <3>2, <4>1, SubscriptionsTyped DEF TypeOK, Phase
    <3>3. QED
      BY <1>7, <3>1, <3>2 DEF CallBack, reactOnNewMessage
  <2>4. QED
    BY <1>7, <2>2, <2>3 DEF CallBack, TypeOK, RedisTypeOK, boundVars, historyVars
<1>8. QED
  BY <1>2, <1>3, <1>4, <1>5, <1>6, <1>7 DEF PollStep

\* The steps of an ack keep the state typed.
LEMMA AckStepsTyped ==
  ASSUME TypeOK, NEW k \in Acks, AckStep(k) \/ \E t \in Value : ackNewMessage(k, t)
  PROVE  TypeOK'
<1>1. CallerProc[k] \in Procs /\ CallerAgent[k] \in Agents /\ k \in Callers
  BY CallerPlaces
<1>2. ASSUME NEW t \in Value, ackNewMessage(k, t) PROVE TypeOK'
  <2>1. rw' \in [Procs -> Seq(Request)]
    BY <1>1, <1>2, SendTyped DEF ackNewMessage, TypeOK, RedisTypeOK
  <2>2. phase' \in [Callers -> Phase]
    BY <1>1, <1>2 DEF ackNewMessage, TypeOK, Phase
  <2>3. QED
    BY <1>2, <2>1, <2>2 DEF ackNewMessage, TypeOK, RedisTypeOK, boundVars, historyVars
<1>3. CASE AckDecided(k)
  <2>1. rw' \in [Procs -> Seq(Request)]
    BY <1>1, <1>3, SendTyped DEF AckDecided, TypeOK, RedisTypeOK
  <2>2. phase' \in [Callers -> Phase]
    BY <1>1, <1>3 DEF AckDecided, TypeOK, Phase
  <2>3. QED
    BY <1>3, <2>1, <2>2 DEF AckDecided, TypeOK, RedisTypeOK, boundVars, historyVars
<1>4. CASE AckCleanup(k)
  <2>1. /\ agentSubscriptions' \in [Procs -> [Agents -> Polls \cup {NoPoll}]]
        /\ cmds' \in [Procs -> [Agents -> Seq(Command)]]
    <3>1. CASE cleanupSubscription(CallerProc[k], CallerAgent[k], k)
      BY <1>1, <3>1, SubscriptionsTyped
    <3>2. CASE UNCHANGED <<agentSubscriptions, cmds>>
      BY <3>2 DEF TypeOK, RedisTypeOK
    <3>3. QED
      BY <1>4, <3>1, <3>2 DEF AckCleanup
  <2>2. phase' \in [Callers -> Phase]
    BY <1>1, <1>4 DEF AckCleanup, TypeOK, Phase
  <2>3. QED
    BY <1>4, <2>1, <2>2 DEF AckCleanup, TypeOK, RedisTypeOK, boundVars, historyVars
<1>5. QED
  BY <1>2, <1>3, <1>4 DEF AckStep

\* The steps of redis keep the state typed.
LEMMA RedisTyped ==
  ASSUME TypeOK, NEW p \in Procs, RedisStep(p)
  PROVE  TypeOK'
<1>0. RedisTypeOK
  BY DEF TypeOK
<1>1. CASE GetExecuted(p)
  <2> DEFINE c == Head(rw[p]).by
             value == store[CallerAgent[c]]
  <2>1. RedisTypeOK'
    BY <1>0, <1>1, RedisStepsTyped DEF GetExecuted
  <2>2. c \in Callers /\ value \in Value \cup {Nil}
    BY <1>0, <1>1, HeadOfRw, CallerPlaces DEF GetExecuted, RedisGet, HeadIs, RedisTypeOK
  <2>3. /\ saw' \in [Callers -> Value \cup {Nil}] /\ phase' \in [Callers -> Phase]
        /\ pushed' \in [Polls -> Seq(Value \cup {Nil})]
    <3>1. CASE /\ saw' = [saw EXCEPT ![c] = value]
               /\ phase' = [phase EXCEPT ![c] = "got"] /\ UNCHANGED pushed
      BY <2>2, <3>1 DEF TypeOK, Phase
    <3>2. CASE pushed' = [pushed EXCEPT ![c] = Append(@, value)] /\ UNCHANGED <<saw, phase>>
      <4>1. \A d \in Polls : pushed'[d] = IF d = c THEN Append(pushed[d], value) ELSE pushed[d]
        BY <3>2 DEF TypeOK
      <4>2. \A d \in Polls : pushed'[d] \in Seq(Value \cup {Nil})
        <5>1. \A d \in Polls : pushed[d] \in Seq(Value \cup {Nil})
          BY DEF TypeOK
        <5>2. ASSUME NEW s \in Seq(Value \cup {Nil})
              PROVE  Append(s, value) \in Seq(Value \cup {Nil})
          BY <2>2
        <5>3. QED
          BY <4>1, <5>1, <5>2
      <4>3. pushed' = [d \in Polls |-> pushed'[d]]
        BY <3>2 DEF TypeOK
      <4>4. QED
        BY <3>2, <4>2, <4>3 DEF TypeOK
    <3>3. QED
      BY <1>1, <3>1, <3>2 DEF GetExecuted
  <2>4. QED
    BY <1>1, <2>1, <2>3 DEF GetExecuted, TypeOK, boundVars, historyVars
<1>2. CASE SetExecuted(p)
  <2>1. RedisTypeOK'
    BY <1>0, <1>2, RedisStepsTyped DEF SetExecuted
  <2>2. Head(rw[p]).value \in Value
    BY <1>0, <1>2, HeadOfRw DEF SetExecuted, RedisSet, HeadIs
  <2>3. current' \in [Polls -> SUBSET Value]
    BY <1>2, <2>2 DEF SetExecuted, TypeOK
  <2>4. QED
    BY <1>2, <2>1, <2>3 DEF SetExecuted, TypeOK, serviceVars, boundVars
<1>3. CASE DelExecuted(p)
  <2>1. RedisTypeOK'
    BY <1>0, <1>3, RedisStepsTyped DEF DelExecuted
  <2>2. QED
    BY <1>3, <2>1 DEF DelExecuted, TypeOK, Phase, boundVars, historyVars
<1>4. QED
  BY <1>1, <1>2, <1>3 DEF RedisStep

\* The failures keep the state typed.
LEMMA FailuresTyped ==
  ASSUME TypeOK, NEW p \in Procs, LoseConnection(p) \/ Reconnect(p) \/ Crash(p)
  PROVE  TypeOK'
<1>0. RedisTypeOK
  BY DEF TypeOK
<1>1. CASE LoseConnection(p)
  <2>1. RedisTypeOK'
    BY <1>0, <1>1, RedisStepsTyped DEF LoseConnection
  <2>2. /\ phase' \in [Callers -> Phase]
        /\ answer' \in [Polls -> Value \cup {Pending, NoMessage, NotANumber, Failed}]
    BY <1>1 DEF LoseConnection, TypeOK, Phase
  <2>3. QED
    BY <1>1, <2>1, <2>2 DEF LoseConnection, TypeOK
<1>2. CASE Reconnect(p)
  <2>1. RedisTypeOK'
    BY <1>0, <1>2, RedisStepsTyped DEF Reconnect
  <2>2. QED
    BY <1>2, <2>1 DEF Reconnect, TypeOK, serviceVars, boundVars, historyVars
<1>3. CASE Crash(p)
  <2>1. RedisTypeOK'
    BY <1>0, <1>3, RedisStepsTyped DEF Crash
  <2>2. /\ phase' \in [Callers -> Phase]
        /\ answer' \in [Polls -> Value \cup {Pending, NoMessage, NotANumber, Failed}]
        /\ pushed' \in [Polls -> Seq(Value \cup {Nil})]
    BY <1>3 DEF Crash, TypeOK, Phase
  <2>3. QED
    BY <1>3, <2>1, <2>2 DEF Crash, TypeOK
<1>4. QED
  BY <1>1, <1>2, <1>3

\* What a process sends and receives about one agent keeps the state typed.
LEMMA ChannelTyped ==
  ASSUME TypeOK, NEW p \in Procs, NEW a \in Agents,
         flagNewMessage(p, a) \/ CommandExecuted(p, a) \/ OnEvent(p, a) \/ OnReply(p, a)
  PROVE  TypeOK'
<1>0. RedisTypeOK
  BY DEF TypeOK
<1>1. CASE flagNewMessage(p, a)
  <2>1. rw' \in [Procs -> Seq(Request)]
    BY <1>0, <1>1, SendTyped DEF flagNewMessage, TypeOK
  <2>2. QED
    BY <1>1, <2>1 DEF flagNewMessage, TypeOK, RedisTypeOK, serviceVars, historyVars
<1>2. CASE CommandExecuted(p, a)
  <2>1. RedisTypeOK'
    BY <1>0, <1>2, RedisStepsTyped DEF CommandExecuted
  <2>2. QED
    BY <1>2, <2>1 DEF CommandExecuted, TypeOK, serviceVars, boundVars, historyVars
<1>3. CASE OnEvent(p, a)
  <2>1. inbox' \in [Procs -> [Agents -> Seq(Event)]]
    BY <1>0, <1>3, HeadOfInbox DEF OnEvent, Dequeue, RedisTypeOK
  <2>2. rw' \in [Procs -> Seq(Request)]
    <3> DEFINE c == agentSubscriptions[p][a]
    <3>1. CASE c # NoPoll /\ getValue(p, a, c)
      <4>1. c \in Callers
        BY <3>1, CallerPlaces DEF TypeOK
      <4>2. QED
        BY <1>0, <3>1, <4>1, SendTyped
    <3>2. CASE UNCHANGED rw
      BY <3>2 DEF TypeOK, RedisTypeOK
    <3>3. QED
      BY <1>3, <3>1, <3>2 DEF OnEvent
  <2>3. QED
    BY <1>3, <2>1, <2>2 DEF OnEvent, TypeOK, RedisTypeOK, serviceVars, boundVars, historyVars
<1>4. CASE OnReply(p, a)
  <2>1. inbox' \in [Procs -> [Agents -> Seq(Event)]]
    BY <1>0, <1>4, HeadOfInbox DEF OnReply, Dequeue, RedisTypeOK
  <2>2. phase' \in [Callers -> Phase]
    BY <1>4 DEF OnReply, TypeOK, Phase
  <2>3. QED
    BY <1>4, <2>1, <2>2 DEF OnReply, TypeOK, RedisTypeOK, boundVars, historyVars
<1>5. QED
  BY <1>1, <1>2, <1>3, <1>4

\* Time passing keeps the state typed, as doing nothing does.
LEMMA TickTyped == ASSUME TypeOK, Tick \/ UNCHANGED vars PROVE TypeOK'
  BY DEF Tick, vars, redisVars, serviceVars, boundVars, historyVars, TypeOK, RedisTypeOK

\* Every step keeps the state typed.
LEMMA StepTyped == ASSUME TypeOK, [Next]_vars PROVE TypeOK'
  BY PollStepsTyped, AckStepsTyped, RedisTyped, FailuresTyped, ChannelTyped, TickTyped DEF Next

\* Every state the service reaches is typed.
THEOREM TypeCorrect == Spec => []TypeOK
  BY InitTyped, StepTyped, PTL DEF Spec
-----------------------------------------------------------------------------
(* The inductive invariant.  A poll and its channel are as in the proof of *)
(* NewMessages; what is new is the way of an event: the GET of its handler *)
(* (Requested) and what that returned are as good as the event itself for  *)
(* WakeupNotLost, and must not bring up an older flag for AnswerFresh.     *)

Cmds(c) == cmds[CallerProc[c]][CallerAgent[c]]
Inbox(c) == inbox[CallerProc[c]][CallerAgent[c]]
Sub(c) == subscribed[CallerProc[c]][CallerAgent[c]]

NotRegistered == {"idle", "getting", "got"}
Registered == {"subscribing", "arming", "armed", "over"}

\* Poll c, with the commands q and events n of its channel, the subscription s and
\* the entry e of its agent, its phase and its answer.
PollView(c, q, n, s, e, ph, ans) ==
  /\ ph \in NotRegistered \cup Registered
  /\ ph \in NotRegistered => NoneOf(q, n, c) /\ e # c /\ ans = Pending
  /\ ph = "over" => ans # Pending
  /\ e = c => /\ OwnIsLast(q, n, c)
              /\ ans \in {Pending, Failed}
              /\ ph # "over" => Intended(q, s)
              /\ ph \in {"arming", "armed"} => Quiet(q, n)

PollInv(c) == PollView(c, Cmds(c), Inbox(c), Sub(c), Entry(c), phase[c], answer[c])

ChannelInv(p, a) ==
  /\ losses[p] = 0 => (Intended(cmds[p][a], subscribed[p][a]) <=> agentSubscriptions[p][a] # NoPoll)
  /\ \A c \in Polls : agentSubscriptions[p][a] = c => CallerProc[c] = p /\ CallerAgent[c] = a
  /\ \A c \in Polls : ~(CallerProc[c] = p /\ CallerAgent[c] = a) =>
       NoneOf(cmds[p][a], inbox[p][a], c)

Channels ==
  /\ \A c \in Polls : PollInv(c)
  /\ \A p \in Procs, a \in Agents : ChannelInv(p, a)

\* A caller in one of these phases waits for its one request on rw.
Awaiting == {"getting", "deleting"}

\* Only these may have a request on rw: for a registered poll, that of an event handler.
MayRequest(c, ph) == ph \in Awaiting \/ (c \in Polls /\ ph \in Registered)

\* A request r of process p, of a caller in phase ph.
RequestView(p, r, ph) ==
  /\ CallerProc[r.by] = p
  /\ r.op = "get" => ph = "getting" \/ (r.by \in Polls /\ ph \in Registered)
  /\ r.op = "del" => r.by \in Acks /\ ph = "deleting" /\ r.key = CallerAgent[r.by]

Requests ==
  \A p \in Procs : \A i \in DOMAIN rw[p] : rw[p][i].op # "set" =>
    /\ RequestView(p, rw[p][i], phase[rw[p][i].by])
    /\ \A j \in DOMAIN rw[p] :
         /\ rw[p][j].op # "set" /\ rw[p][j].by = rw[p][i].by
         /\ phase[rw[p][i].by] \in Awaiting
         => i = j

\* The GET of c, or of the handler that holds the callback of c, is on its way.
Requested(c) ==
  \E i \in DOMAIN rw[CallerProc[c]] :
    rw[CallerProc[c]][i].op = "get" /\ rw[CallerProc[c]][i].by = c

WokenInv(c) ==
  c \in woken => /\ phase[c] \in Registered
                 /\ Entry(c) = c => HasSet(Inbox(c)) \/ Requested(c) \/ pushed[c] # <<>>

\* A value v that poll c can be answered with was a flag during the poll.
Seen(c, v) == v \in Value => v \in current[c]

FreshInv(c) ==
  /\ phase[c] \notin {"idle", "over"} => Seen(c, store[CallerAgent[c]])
  /\ phase[c] = "got" => Seen(c, saw[c])
  /\ phase[c] \in NotRegistered => pushed[c] = <<>>
  /\ answer[c] = Pending => \A i \in DOMAIN pushed[c] : Seen(c, pushed[c][i])
  /\ Seen(c, answer[c])

\* Ack k erases the flag it has read, or none, or is said to have raced.
AckInv(k) ==
  /\ phase[k] = "deleting" => saw[k] \in Value /\ ackUtime[k] >= saw[k]
  /\ phase[k] \in {"got", "deleting"} /\ k \notin raced => store[CallerAgent[k]] \in {saw[k], Nil}

Body ==
  /\ Channels
  /\ Requests
  /\ \A c \in Polls : WokenInv(c) /\ FreshInv(c)
  /\ \A k \in Acks : AckInv(k)

Inv == TypeOK /\ Body

\* Nobody waits for the UNSUBSCRIBE of a poll, acks are not polls, no poll is NoPoll.
LEMMA PollsAreNotOthers ==
  /\ NoCaller \notin Polls
  /\ \A k \in Acks : k \notin Polls
  /\ NoPoll \notin Polls
  BY CallersAreRequests, CallerAssumption

\* The state a poll looks at is typed.
LEMMA ViewTyped ==
  ASSUME TypeOK, NEW c \in Polls
  PROVE  /\ CallerProc[c] \in Procs /\ CallerAgent[c] \in Agents /\ c \in Callers
         /\ Cmds(c) \in Seq(Command) /\ Inbox(c) \in Seq(Event) /\ Sub(c) \in BOOLEAN
         /\ Entry(c) \in Polls \cup {NoPoll}
  BY CallerPlaces DEF TypeOK, RedisTypeOK, Cmds, Inbox, Sub, Entry

\* A poll ends with an answer.
Ends(c) == phase'[c] = "over" /\ answer'[c] # Pending

Stays(c) == phase'[c] = phase[c] /\ answer'[c] = answer[c]

-----------------------------------------------------------------------------
(* The channels: the map of callbacks, the subscriptions of redis, the     *)
(* commands and replies on their way.                                      *)

\* A step that touches no channel and no entry, when each poll stays where it is, is
\* still to register, goes from arming to armed, or ends without being registered.
LEMMA FrameChannels ==
  ASSUME Inv,
         UNCHANGED <<cmds, inbox, subscribed, agentSubscriptions, losses>>,
         \A c \in Polls :
           \/ Stays(c)
           \/ /\ phase[c] \in NotRegistered /\ phase'[c] \in NotRegistered
              /\ answer'[c] = answer[c]
           \/ phase[c] = "arming" /\ phase'[c] = "armed" /\ answer'[c] = answer[c]
           \/ Entry(c) # c /\ Ends(c)
  PROVE  Channels'
<1>1. ASSUME NEW c \in Polls PROVE PollInv(c)'
  <2>1. Cmds(c)' = Cmds(c) /\ Inbox(c)' = Inbox(c) /\ Sub(c)' = Sub(c) /\ Entry(c)' = Entry(c)
    BY DEF Cmds, Inbox, Sub, Entry
  <2>2. PollInv(c)
    BY DEF Inv, Body, Channels
  <2>3. QED
    BY <2>1, <2>2 DEF PollInv, PollView, NotRegistered, Registered, Stays, Ends
<1>2. ASSUME NEW p \in Procs, NEW a \in Agents PROVE ChannelInv(p, a)'
  BY DEF Inv, Body, Channels, ChannelInv
<1>3. QED
  BY <1>1, <1>2 DEF Channels

\* Cleaning up the entry of p and a by somebody whose UNSUBSCRIBE is not that of a poll.
LEMMA CleanupChannels ==
  ASSUME Inv, NEW p \in Procs, NEW a \in Agents, NEW k \in Acks \cup {NoCaller},
         cleanupSubscription(p, a, k),
         UNCHANGED <<inbox, subscribed, losses>>,
         \A c \in Polls : Stays(c) \/ (CallerProc[c] = p /\ CallerAgent[c] = a /\ Ends(c))
  PROVE  Channels'
<1> DEFINE cmd == [op |-> "unsubscribe", by |-> k]
<1>1. /\ TypeOK
      /\ cmd \in Command /\ cmd.by = k /\ cmd.op = "unsubscribe"
      /\ inbox \in [Procs -> [Agents -> Seq(Event)]]
      /\ cmds \in [Procs -> [Agents -> Seq(Command)]]
      /\ agentSubscriptions \in [Procs -> [Agents -> Polls \cup {NoPoll}]]
  BY CallerPlaces DEF Inv, TypeOK, RedisTypeOK, Command
<1>2. ASSUME NEW c \in Polls PROVE PollInv(c)'
  <2>1. PollInv(c) /\ Sub(c)' = Sub(c) /\ Inbox(c)' = Inbox(c)
    BY DEF Inv, Body, Channels, Sub, Inbox
  <2>2. CASE CallerProc[c] = p /\ CallerAgent[c] = a
    <3>1. Cmds(c)' = Append(Cmds(c), cmd) /\ Entry(c)' = NoPoll
      BY <1>1, <2>2 DEF cleanupSubscription, unsubscribeKey, Cmds, Entry
    <3>2. NoneOf(Cmds(c), Inbox(c), c) => NoneOf(Cmds(c)', Inbox(c), c)
      BY <1>1, <3>1, ViewTyped, SendLemma, PollsAreNotOthers
    <3>3. QED
      BY <2>1, <3>1, <3>2, PollsAreNotOthers
      DEF PollInv, PollView, NotRegistered, Registered, Stays, Ends
  <2>3. CASE ~(CallerProc[c] = p /\ CallerAgent[c] = a)
    <3>1. Cmds(c)' = Cmds(c) /\ Entry(c)' = Entry(c) /\ Stays(c)
      BY <1>1, <2>3, CallerPlaces DEF cleanupSubscription, unsubscribeKey, Cmds, Entry
    <3>2. QED
      BY <2>1, <3>1 DEF PollInv, Stays
  <2>4. QED
    BY <2>2, <2>3
<1>3. ASSUME NEW q \in Procs, NEW b \in Agents PROVE ChannelInv(q, b)'
  <2>1. ChannelInv(q, b)
    BY DEF Inv, Body, Channels
  <2>2. CASE q = p /\ b = a
    <3>1. cmds'[p][a] = Append(cmds[p][a], cmd) /\ agentSubscriptions'[p][a] = NoPoll
      BY <1>1 DEF cleanupSubscription, unsubscribeKey
    <3>2. ~Intended(cmds'[p][a], subscribed'[p][a])
      BY <1>1, <3>1, IntendedAppend
    <3>3. ASSUME NEW c \in Polls, NoneOf(cmds[p][a], inbox[p][a], c)
          PROVE  NoneOf(cmds'[p][a], inbox'[p][a], c)
      BY <1>1, <3>1, <3>3, SendLemma, PollsAreNotOthers
    <3>4. QED
      BY <2>1, <2>2, <3>1, <3>2, <3>3, PollsAreNotOthers DEF ChannelInv
  <2>3. CASE ~(q = p /\ b = a)
    <3>1. cmds'[q][b] = cmds[q][b] /\ agentSubscriptions'[q][b] = agentSubscriptions[q][b]
      BY <1>1, <2>3 DEF cleanupSubscription, unsubscribeKey
    <3>2. QED
      BY <2>1, <3>1 DEF ChannelInv
  <2>4. QED
    BY <2>2, <2>3
<1>4. QED
  BY <1>2, <1>3 DEF Channels

\* Registering the callback of c.
LEMMA RegisterChannels ==
  ASSUME Inv, NEW c \in Polls, WaitForMessage(c)
  PROVE  Channels'
<1> DEFINE p == CallerProc[c]
           a == CallerAgent[c]
           cmd == [op |-> "subscribe", by |-> c]
<1>1. /\ TypeOK /\ p \in Procs /\ a \in Agents /\ c \in Callers
      /\ cmd \in Command /\ cmd.by = c /\ cmd.op = "subscribe"
      /\ cmds \in [Procs -> [Agents -> Seq(Command)]]
      /\ agentSubscriptions \in [Procs -> [Agents -> Polls \cup {NoPoll}]]
      /\ phase \in [Callers -> Phase]
  BY CallerPlaces DEF Inv, TypeOK, RedisTypeOK, Command
<1>2. /\ cmds' = [cmds EXCEPT ![p][a] = Append(@, cmd)]
      /\ agentSubscriptions' = [agentSubscriptions EXCEPT ![p][a] = c]
      /\ phase[c] = "got" /\ phase' = [phase EXCEPT ![c] = "subscribing"]
      /\ UNCHANGED <<inbox, subscribed, answer, losses>>
  BY DEF WaitForMessage, registerCallback, subscribeKey, At, boundVars
<1>3. ASSUME NEW d \in Polls PROVE PollInv(d)'
  <2>1. PollInv(d)
    BY DEF Inv, Body, Channels
  <2>2. Sub(d)' = Sub(d) /\ Inbox(d)' = Inbox(d) /\ answer'[d] = answer[d]
    BY <1>2 DEF Sub, Inbox
  <2>3. /\ Cmds(d) \in Seq(Command) /\ Inbox(d) \in Seq(Event) /\ d \in Callers
        /\ CallerProc[d] \in Procs /\ CallerAgent[d] \in Agents
    BY <1>1, ViewTyped
  <2>4. CASE d = c
    <3>1. Cmds(d)' = Append(Cmds(d), cmd) /\ phase'[d] = "subscribing"
      BY <1>1, <1>2, <2>4 DEF Cmds
    <3>2. NoneOf(Cmds(d), Inbox(d), d) /\ answer[d] = Pending
      BY <1>2, <2>1, <2>4 DEF PollInv, PollView, NotRegistered
    <3>3. OwnIsLast(Cmds(d)', Inbox(d), d) /\ Intended(Cmds(d)', Sub(d))
      BY <1>1, <2>3, <2>4, <3>1, <3>2, SendLemma, IntendedAppend
    <3>4. QED
      BY <2>2, <3>1, <3>2, <3>3 DEF PollInv, PollView, NotRegistered, Registered
  <2>5. CASE d # c /\ CallerProc[d] = p /\ CallerAgent[d] = a
    <3>1. Cmds(d)' = Append(Cmds(d), cmd) /\ Entry(d)' = c /\ phase'[d] = phase[d]
      BY <1>1, <1>2, <2>3, <2>5 DEF Cmds, Entry
    <3>2. NoneOf(Cmds(d), Inbox(d), d) => NoneOf(Cmds(d)', Inbox(d), d)
      BY <1>1, <2>3, <2>5, <3>1, SendLemma
    <3>3. QED
      BY <2>1, <2>2, <2>5, <3>1, <3>2 DEF PollInv, PollView
  <2>6. CASE ~(CallerProc[d] = p /\ CallerAgent[d] = a)
    <3>1. Cmds(d)' = Cmds(d) /\ Entry(d)' = Entry(d) /\ phase'[d] = phase[d]
      BY <1>1, <1>2, <2>3, <2>6 DEF Cmds, Entry
    <3>2. QED
      BY <2>1, <2>2, <3>1 DEF PollInv
  <2>7. QED
    BY <2>4, <2>5, <2>6
<1>4. ASSUME NEW q \in Procs, NEW b \in Agents PROVE ChannelInv(q, b)'
  <2>1. ChannelInv(q, b)
    BY DEF Inv, Body, Channels
  <2>2. CASE q = p /\ b = a
    <3>1. cmds'[p][a] = Append(cmds[p][a], cmd) /\ agentSubscriptions'[p][a] = c
      BY <1>1, <1>2
    <3>2. Intended(cmds'[p][a], subscribed'[p][a])
      BY <1>1, <3>1, IntendedAppend
    <3>3. \A d \in Polls : d # c /\ NoneOf(cmds[p][a], inbox[p][a], d)
            => NoneOf(cmds'[p][a], inbox'[p][a], d)
      <4>1. inbox' = inbox /\ cmds[p][a] \in Seq(Command) /\ inbox[p][a] \in Seq(Event)
        BY <1>1, <1>2 DEF TypeOK, RedisTypeOK
      <4>2. QED
        BY <1>1, <3>1, <4>1, SendLemma
    <3>4. QED
      BY <2>1, <2>2, <3>1, <3>2, <3>3, PollsAreNotOthers DEF ChannelInv
  <2>3. CASE ~(q = p /\ b = a)
    <3>1. cmds'[q][b] = cmds[q][b] /\ agentSubscriptions'[q][b] = agentSubscriptions[q][b]
      BY <1>1, <1>2, <2>3
    <3>2. QED
      BY <1>2, <2>1, <3>1 DEF ChannelInv
  <2>4. QED
    BY <2>2, <2>3
<1>5. QED
  BY <1>3, <1>4 DEF Channels

\* A process handles the oldest event or reply of channel p, a: the reply of its own
\* SUBSCRIBE takes a poll from subscribing to arming.
LEMMA DequeueChannels ==
  ASSUME Inv, NEW p \in Procs, NEW a \in Agents,
         inbox[p][a] # <<>>, Dequeue(p, a),
         UNCHANGED <<cmds, subscribed, agentSubscriptions, losses, answer>>,
         \A c \in Polls :
           \/ phase'[c] = phase[c]
           \/ /\ phase[c] = "subscribing" /\ phase'[c] = "arming"
              /\ IsReply(Received(p, a)) /\ Received(p, a).by = c
  PROVE  Channels'
<1>1. TypeOK /\ inbox \in [Procs -> [Agents -> Seq(Event)]]
  BY DEF Inv, TypeOK, RedisTypeOK
<1>2. ASSUME NEW c \in Polls PROVE PollInv(c)'
  <2>1. PollInv(c)
    BY DEF Inv, Body, Channels
  <2>2. /\ Sub(c)' = Sub(c) /\ Cmds(c)' = Cmds(c) /\ Entry(c)' = Entry(c)
        /\ answer'[c] = answer[c]
    BY DEF Sub, Cmds, Entry
  <2>3. Cmds(c) \in Seq(Command) /\ Inbox(c) \in Seq(Event)
    BY <1>1, ViewTyped
  <2>4. CASE CallerProc[c] = p /\ CallerAgent[c] = a
    <3>1. /\ Inbox(c) # <<>> /\ Inbox(c)' = Tail(Inbox(c))
          /\ Head(Inbox(c)) = Received(p, a)
      BY <1>1, <2>4 DEF Dequeue, Inbox, Received
    <3>2. /\ NoneOf(Cmds(c), Inbox(c), c) => NoneOf(Cmds(c), Inbox(c)', c)
          /\ OwnIsLast(Cmds(c), Inbox(c), c) => OwnIsLast(Cmds(c), Inbox(c)', c)
          /\ Quiet(Cmds(c), Inbox(c)) => Quiet(Cmds(c), Inbox(c)')
      BY <2>3, <3>1, DequeueLemma
    <3>3. CASE phase'[c] = phase[c]
      BY <2>1, <2>2, <3>2, <3>3 DEF PollInv, PollView
    <3>4. CASE /\ phase[c] = "subscribing" /\ phase'[c] = "arming"
               /\ IsReply(Received(p, a)) /\ Received(p, a).by = c
      <4>1. OwnIsLast(Cmds(c), Inbox(c), c) => Quiet(Cmds(c), Inbox(c)')
        BY <2>3, <3>1, <3>4, DequeueLemma
      <4>2. QED
        BY <2>1, <2>2, <3>2, <3>4, <4>1 DEF PollInv, PollView, NotRegistered, Registered
    <3>5. QED
      BY <3>3, <3>4
  <2>5. CASE ~(CallerProc[c] = p /\ CallerAgent[c] = a)
    <3>1. Inbox(c)' = Inbox(c)
      BY <1>1, <2>5, CallerPlaces DEF Dequeue, Inbox
    <3>2. NoneOf(cmds[p][a], inbox[p][a], c) /\ 1 \in DOMAIN inbox[p][a]
      BY <1>1, <2>5 DEF Inv, Body, Channels, ChannelInv
    <3>3. ~(IsReply(Received(p, a)) /\ Received(p, a).by = c)
      BY <1>1, <3>2 DEF NoneOf, Received
    <3>4. QED
      BY <2>1, <2>2, <3>1, <3>3 DEF PollInv
  <2>6. QED
    BY <2>4, <2>5
<1>3. ASSUME NEW q \in Procs, NEW b \in Agents PROVE ChannelInv(q, b)'
  <2>1. ChannelInv(q, b)
    BY DEF Inv, Body, Channels
  <2>2. cmds[q][b] \in Seq(Command) /\ inbox[q][b] \in Seq(Event)
    BY DEF Inv, TypeOK, RedisTypeOK
  <2>3. \A c \in Polls : NoneOf(cmds[q][b], inbox[q][b], c) => NoneOf(cmds[q][b], inbox'[q][b], c)
    <3>1. inbox'[q][b] = inbox[q][b] \/ (inbox[q][b] # <<>> /\ inbox'[q][b] = Tail(inbox[q][b]))
      BY <1>1 DEF Dequeue
    <3>2. QED
      BY <2>2, <3>1, DequeueLemma
  <2>4. QED
    BY <2>1, <2>3 DEF ChannelInv
<1>4. QED
  BY <1>2, <1>3 DEF Channels

\* Redis executes a command of the subscriber connection.
LEMMA CommandChannels ==
  ASSUME Inv, NEW p \in Procs, NEW a \in Agents, CommandExecuted(p, a)
  PROVE  Channels'
<1> DEFINE cmd == Head(cmds[p][a])
<1>1. TypeOK
  BY DEF Inv
<1>2. /\ cmds[p][a] # <<>> /\ cmds' = [cmds EXCEPT ![p][a] = Tail(@)]
      /\ inbox' = [inbox EXCEPT ![p][a] = Append(@, ReplyTo(cmd))]
      /\ subscribed' = [subscribed EXCEPT ![p][a] = (cmd.op = "subscribe")]
      /\ UNCHANGED <<agentSubscriptions, phase, answer, losses>>
  BY DEF CommandExecuted, RedisCommand, ReplyTo, serviceVars, boundVars
<1>3. /\ cmds \in [Procs -> [Agents -> Seq(Command)]]
      /\ inbox \in [Procs -> [Agents -> Seq(Event)]]
      /\ subscribed \in [Procs -> [Agents -> BOOLEAN]]
  BY <1>1 DEF TypeOK, RedisTypeOK
<1>4. /\ cmds'[p][a] = Tail(cmds[p][a])
      /\ inbox'[p][a] = Append(inbox[p][a], ReplyTo(cmd))
      /\ subscribed'[p][a] = (cmd.op = "subscribe")
      /\ cmds[p][a] \in Seq(Command) /\ inbox[p][a] \in Seq(Event)
  BY <1>2, <1>3
<1>5. ASSUME NEW c
      PROVE  /\ NoneOf(cmds[p][a], inbox[p][a], c) => NoneOf(cmds'[p][a], inbox'[p][a], c)
             /\ OwnIsLast(cmds[p][a], inbox[p][a], c) => OwnIsLast(cmds'[p][a], inbox'[p][a], c)
             /\ \A s : Intended(cmds'[p][a], subscribed'[p][a]) <=> Intended(cmds[p][a], s)
  <2> DEFINE q == cmds[p][a]
             n == inbox[p][a]
             q1 == Tail(q)
             n1 == Append(n, ReplyTo(Head(q)))
  <2>1. q \in Seq(Command) /\ n \in Seq(Event) /\ q # <<>>
    BY <1>2, <1>4
  <2>2. /\ NoneOf(q, n, c) => NoneOf(q1, n1, c)
        /\ OwnIsLast(q, n, c) => OwnIsLast(q1, n1, c)
        /\ \A s : Intended(q1, Head(q).op = "subscribe") <=> Intended(q, s)
    BY <2>1, ExecuteLemma
  <2>3. QED
    BY <1>4, <2>2
<1>6. ASSUME NEW c \in Polls PROVE PollInv(c)'
  <2>1. PollInv(c)
    BY DEF Inv, Body, Channels
  <2>2. Entry(c)' = Entry(c) /\ phase'[c] = phase[c] /\ answer'[c] = answer[c]
    BY <1>2 DEF Entry
  <2>3. CASE CallerProc[c] = p /\ CallerAgent[c] = a
    <3>1. /\ Cmds(c) = cmds[p][a] /\ Inbox(c) = inbox[p][a]
          /\ Cmds(c)' = cmds'[p][a] /\ Inbox(c)' = inbox'[p][a] /\ Sub(c)' = subscribed'[p][a]
      BY <2>3 DEF Cmds, Inbox, Sub
    <3>2. ~Quiet(Cmds(c), Inbox(c))
      BY <1>2, <3>1 DEF Quiet
    <3>3. QED
      BY <1>5, <2>1, <2>2, <3>1, <3>2 DEF PollInv, PollView
  <2>4. CASE ~(CallerProc[c] = p /\ CallerAgent[c] = a)
    <3>1. Cmds(c)' = Cmds(c) /\ Inbox(c)' = Inbox(c) /\ Sub(c)' = Sub(c)
      BY <1>2, <1>3, <2>4, CallerPlaces DEF Cmds, Inbox, Sub
    <3>2. QED
      BY <2>1, <2>2, <3>1 DEF PollInv
  <2>5. QED
    BY <2>3, <2>4
<1>7. ASSUME NEW q \in Procs, NEW b \in Agents PROVE ChannelInv(q, b)'
  <2>1. ChannelInv(q, b)
    BY DEF Inv, Body, Channels
  <2>2. CASE q = p /\ b = a
    BY <1>2, <1>5, <2>1, <2>2 DEF ChannelInv
  <2>3. CASE ~(q = p /\ b = a)
    <3>1. /\ cmds'[q][b] = cmds[q][b] /\ inbox'[q][b] = inbox[q][b]
          /\ subscribed'[q][b] = subscribed[q][b]
      BY <1>2, <1>3, <2>3
    <3>2. QED
      BY <1>2, <2>1, <3>1 DEF ChannelInv
  <2>4. QED
    BY <2>2, <2>3
<1>8. QED
  BY <1>6, <1>7 DEF Channels

\* Redis announces a write to the key a.
LEMMA PublishChannels ==
  ASSUME Inv, NEW a \in Agents, NEW type \in {"set", "del"}, Publish(a, type),
         UNCHANGED <<cmds, subscribed, agentSubscriptions, losses, answer>>,
         \A c \in Polls : phase'[c] = phase[c]
  PROVE  Channels'
<1>1. /\ TypeOK /\ inbox \in [Procs -> [Agents -> Seq(Event)]]
      /\ cmds \in [Procs -> [Agents -> Seq(Command)]]
  BY DEF Inv, TypeOK, RedisTypeOK
<1>2. ASSUME NEW q \in Procs, NEW b \in Agents
      PROVE  \/ inbox'[q][b] = Append(inbox[q][b], [type |-> type])
             \/ inbox'[q][b] = inbox[q][b]
  BY <1>1 DEF Publish
<1>3. ASSUME NEW q \in Seq(Command), NEW n \in Seq(Event), NEW c, NEW m,
             m = n \/ m = Append(n, [type |-> type])
      PROVE  /\ NoneOf(q, n, c) => NoneOf(q, m, c)
             /\ OwnIsLast(q, n, c) => OwnIsLast(q, m, c)
             /\ Quiet(q, n) => Quiet(q, m)
  <2> DEFINE n1 == Append(n, [type |-> type])
  <2>1. /\ NoneOf(q, n, c) => NoneOf(q, n1, c)
        /\ OwnIsLast(q, n, c) => OwnIsLast(q, n1, c)
        /\ Quiet(q, n) => Quiet(q, n1)
    BY PublishLemma
  <2>2. QED
    BY <1>3, <2>1
<1>4. ASSUME NEW c \in Polls PROVE PollInv(c)'
  <2>1. PollInv(c)
    BY DEF Inv, Body, Channels
  <2>2. /\ Cmds(c)' = Cmds(c) /\ Sub(c)' = Sub(c) /\ Entry(c)' = Entry(c)
        /\ phase'[c] = phase[c] /\ answer'[c] = answer[c]
        /\ Cmds(c) \in Seq(Command) /\ Inbox(c) \in Seq(Event)
    BY <1>1, ViewTyped DEF Cmds, Sub, Entry
  <2>3. Inbox(c)' = Append(Inbox(c), [type |-> type]) \/ Inbox(c)' = Inbox(c)
    BY <1>1, <1>2, ViewTyped DEF Inbox
  <2>4. /\ NoneOf(Cmds(c), Inbox(c), c) => NoneOf(Cmds(c), Inbox(c)', c)
        /\ OwnIsLast(Cmds(c), Inbox(c), c) => OwnIsLast(Cmds(c), Inbox(c)', c)
        /\ Quiet(Cmds(c), Inbox(c)) => Quiet(Cmds(c), Inbox(c)')
    BY <1>3, <2>2, <2>3
  <2>5. QED
    BY <2>1, <2>2, <2>4 DEF PollInv, PollView
<1>5. ASSUME NEW q \in Procs, NEW b \in Agents PROVE ChannelInv(q, b)'
  <2>1. ChannelInv(q, b) /\ cmds[q][b] \in Seq(Command) /\ inbox[q][b] \in Seq(Event)
    BY <1>1 DEF Inv, Body, Channels
  <2>2. \A c \in Polls : NoneOf(cmds[q][b], inbox[q][b], c) => NoneOf(cmds[q][b], inbox'[q][b], c)
    BY <1>2, <1>3, <2>1
  <2>3. QED
    BY <2>1, <2>2 DEF ChannelInv
<1>6. QED
  BY <1>4, <1>5 DEF Channels

\* A lost connection takes what is on its way with it; a poll whose timer is set had
\* nothing on its way but events, so that its subscription is made again.
LEMMA LoseChannels ==
  ASSUME Inv, NEW p \in Procs, LoseConnection(p)
  PROVE  Channels'
<1>1. TypeOK
  BY DEF Inv
<1>2. /\ cmds' = [cmds EXCEPT ![p] = [a \in Agents |-> <<>>]]
      /\ inbox' = [inbox EXCEPT ![p] = [a \in Agents |-> <<>>]]
      /\ UNCHANGED agentSubscriptions
      /\ losses' = [losses EXCEPT ![p] = @ + 1]
      /\ \A a \in Agents : ~InDoubt(p, a) => subscribed'[p][a] = subscribed[p][a]
      /\ \A q \in Procs : q # p => subscribed'[q] = subscribed[q]
  BY <1>1 DEF LoseConnection, ConnectionLost, TypeOK, RedisTypeOK
<1>3. \A c \in Polls :
        \/ /\ CallerProc[c] = p /\ phase[c] = "subscribing"
           /\ phase'[c] = "over" /\ answer'[c] = Failed
        \/ ~(CallerProc[c] = p /\ phase[c] = "subscribing") /\ Stays(c)
  <2>1. ASSUME NEW c \in Polls PROVE c \in Callers /\ phase[c] # "unsubscribing"
    BY CallerPlaces DEF Inv, Body, Channels, PollInv, PollView, NotRegistered, Registered
  <2>2. QED
    BY <2>1 DEF LoseConnection, Stays
<1>4. ASSUME NEW c \in Polls PROVE PollInv(c)'
  <2>1. PollInv(c) /\ CallerProc[c] \in Procs /\ CallerAgent[c] \in Agents /\ Entry(c)' = Entry(c)
    BY <1>2, CallerPlaces DEF Inv, Body, Channels, Entry
  <2>2. CASE CallerProc[c] = p
    <3>1. Cmds(c)' = <<>> /\ Inbox(c)' = <<>>
      BY <1>1, <1>2, <2>1, <2>2 DEF Cmds, Inbox, TypeOK, RedisTypeOK
    <3>2. Quiet(Cmds(c), Inbox(c)) => Sub(c)' = Sub(c) /\ Cmds(c) = <<>>
      <4>1. Quiet(Cmds(c), Inbox(c)) => ~InDoubt(CallerProc[c], CallerAgent[c])
        BY DEF Quiet, InDoubt, Unanswered, Cmds, Inbox
      <4>2. QED
        BY <1>2, <2>1, <2>2, <4>1 DEF Sub, Quiet
    <3>3. (Intended(<<>>, Sub(c)) <=> Sub(c)) /\ (Intended(<<>>, Sub(c)') <=> Sub(c)')
      BY DEF Intended
    <3>4. QED
      BY <1>3, <2>1, <2>2, <3>1, <3>2, <3>3, EmptyLemma, AnswersDiffer
      DEF PollInv, PollView, NotRegistered, Registered, Stays
  <2>3. CASE CallerProc[c] # p
    <3>1. Cmds(c)' = Cmds(c) /\ Inbox(c)' = Inbox(c) /\ Sub(c)' = Sub(c)
      BY <1>1, <1>2, <2>1, <2>3 DEF Cmds, Inbox, Sub, TypeOK, RedisTypeOK
    <3>2. QED
      BY <1>3, <2>1, <2>3, <3>1 DEF PollInv, PollView, Stays
  <2>4. QED
    BY <2>2, <2>3
<1>5. ASSUME NEW q \in Procs, NEW b \in Agents PROVE ChannelInv(q, b)'
  <2>1. ChannelInv(q, b)
    BY DEF Inv, Body, Channels
  <2>2. CASE q = p
    <3>1. cmds'[q][b] = <<>> /\ inbox'[q][b] = <<>> /\ losses'[q] # 0
      BY <1>1, <1>2, <2>2 DEF TypeOK, RedisTypeOK
    <3>2. QED
      BY <1>2, <2>1, <3>1, EmptyLemma DEF ChannelInv
  <2>3. CASE q # p
    <3>1. /\ cmds'[q][b] = cmds[q][b] /\ inbox'[q][b] = inbox[q][b]
          /\ subscribed'[q][b] = subscribed[q][b] /\ losses'[q] = losses[q]
      BY <1>1, <1>2, <2>3 DEF TypeOK, RedisTypeOK
    <3>2. QED
      BY <1>2, <2>1, <3>1 DEF ChannelInv
  <2>4. QED
    BY <2>2, <2>3
<1>6. QED
  BY <1>4, <1>5 DEF Channels

\* What a crash does to the polls of its process and to the others.
LEMMA CrashedPolls ==
  ASSUME Inv, NEW p \in Procs, Crash(p)
  PROVE  \A c \in Polls :
           /\ CallerProc[c] = p /\ phase[c] # "idle" =>
                /\ phase'[c] = "over" /\ pushed'[c] = <<>>
                /\ answer'[c] = IF answer[c] = Pending THEN Failed ELSE answer[c]
           /\ ~(CallerProc[c] = p /\ phase[c] # "idle") =>
                Stays(c) /\ pushed'[c] = pushed[c]
  BY CallerPlaces DEF Crash, At, Stays

\* A crash leaves nothing of the process but its polls that had not started.
LEMMA CrashChannels ==
  ASSUME Inv, NEW p \in Procs, Crash(p)
  PROVE  Channels'
<1>1. TypeOK
  BY DEF Inv
<1>2. /\ cmds' = [cmds EXCEPT ![p] = [a \in Agents |-> <<>>]]
      /\ inbox' = [inbox EXCEPT ![p] = [a \in Agents |-> <<>>]]
      /\ subscribed' = [subscribed EXCEPT ![p] = [a \in Agents |-> FALSE]]
      /\ agentSubscriptions' = [agentSubscriptions EXCEPT ![p] = [a \in Agents |-> NoPoll]]
      /\ losses' = [losses EXCEPT ![p] = 0]
  BY DEF Crash, ProcessLost
<1>3. ASSUME NEW c \in Polls PROVE PollInv(c)'
  <2>1. PollInv(c) /\ CallerProc[c] \in Procs /\ CallerAgent[c] \in Agents
    BY CallerPlaces DEF Inv, Body, Channels
  <2>2. CASE CallerProc[c] = p
    <3>1. Cmds(c)' = <<>> /\ Inbox(c)' = <<>> /\ Entry(c)' = NoPoll
      BY <1>1, <1>2, <2>1, <2>2 DEF Cmds, Inbox, Entry, TypeOK, RedisTypeOK
    <3>2. QED
      BY <2>1, <2>2, <3>1, CrashedPolls, EmptyLemma, PollsAreNotOthers, AnswersDiffer
      DEF PollInv, PollView, NotRegistered, Registered, Stays
  <2>3. CASE CallerProc[c] # p
    <3>1. /\ Cmds(c)' = Cmds(c) /\ Inbox(c)' = Inbox(c) /\ Sub(c)' = Sub(c)
          /\ Entry(c)' = Entry(c)
      BY <1>1, <1>2, <2>1, <2>3 DEF Cmds, Inbox, Sub, Entry, TypeOK, RedisTypeOK
    <3>2. Stays(c)
      BY <2>3, CrashedPolls
    <3>3. QED
      BY <2>1, <3>1, <3>2 DEF PollInv, PollView, Stays
  <2>4. QED
    BY <2>2, <2>3
<1>4. ASSUME NEW q \in Procs, NEW b \in Agents PROVE ChannelInv(q, b)'
  <2>1. ChannelInv(q, b)
    BY DEF Inv, Body, Channels
  <2>2. CASE q = p
    <3>1. /\ cmds'[q][b] = <<>> /\ inbox'[q][b] = <<>> /\ subscribed'[q][b] = FALSE
          /\ agentSubscriptions'[q][b] = NoPoll
      BY <1>1, <1>2, <2>2 DEF TypeOK, RedisTypeOK
    <3>2. ~Intended(<<>>, FALSE)
      BY DEF Intended
    <3>3. QED
      BY <3>1, <3>2, EmptyLemma, PollsAreNotOthers DEF ChannelInv
  <2>3. CASE q # p
    <3>1. /\ cmds'[q][b] = cmds[q][b] /\ inbox'[q][b] = inbox[q][b]
          /\ subscribed'[q][b] = subscribed[q][b] /\ losses'[q] = losses[q]
          /\ agentSubscriptions'[q][b] = agentSubscriptions[q][b]
      BY <1>1, <1>2, <2>3 DEF TypeOK, RedisTypeOK
    <3>2. QED
      BY <2>1, <3>1 DEF ChannelInv
  <2>4. QED
    BY <2>2, <2>3
<1>5. QED
  BY <1>3, <1>4 DEF Channels

-----------------------------------------------------------------------------
(* The requests on rw.                                                     *)

\* A caller that stays, a registered poll that stays one, or a caller without request.
Steady(c) ==
  \/ phase'[c] = phase[c]
  \/ c \in Polls /\ phase[c] \in Registered /\ phase'[c] \in Registered
  \/ ~MayRequest(c, phase[c])

\* A request is that of a caller which may have one, and keeps its place when the
\* caller is steady.
LEMMA RequestKept ==
  ASSUME Inv, NEW p \in Procs, NEW i \in DOMAIN rw[p], rw[p][i].op # "set"
  PROVE  LET r == rw[p][i] IN
         /\ r \in Request /\ r.by \in Callers /\ CallerProc[r.by] = p
         /\ MayRequest(r.by, phase[r.by])
         /\ Steady(r.by) => /\ RequestView(p, r, phase'[r.by])
                            /\ phase'[r.by] \in Awaiting => phase[r.by] \in Awaiting
<1> DEFINE r == rw[p][i]
<1>1. r \in Request /\ r.op \in {"get", "del"} /\ r.by \in Callers
  <2>1. r \in Request
    BY DEF Inv, TypeOK, RedisTypeOK
  <2>2. QED
    BY <2>1 DEF Request
<1>2. RequestView(p, r, phase[r.by])
  BY DEF Inv, Body, Requests
<1>3. MayRequest(r.by, phase[r.by])
  BY <1>1, <1>2 DEF RequestView, MayRequest, Awaiting
<1>4. ASSUME Steady(r.by)
      PROVE  /\ RequestView(p, r, phase'[r.by])
             /\ phase'[r.by] \in Awaiting => phase[r.by] \in Awaiting
  BY <1>1, <1>2, <1>3, <1>4, PollsAreNotOthers
  DEF Steady, RequestView, MayRequest, Awaiting, Registered
<1>5. QED
  BY <1>1, <1>2, <1>3, <1>4 DEF RequestView

\* No request is sent or executed, and everybody is steady.
LEMMA FrameRequests ==
  ASSUME Inv, UNCHANGED rw, \A c \in Callers : Steady(c)
  PROVE  Requests'
<1> SUFFICES ASSUME NEW p \in Procs, NEW i \in DOMAIN rw[p], rw[p][i].op # "set"
             PROVE  /\ RequestView(p, rw[p][i], phase'[rw[p][i].by])
                    /\ \A j \in DOMAIN rw[p] :
                         /\ rw[p][j].op # "set" /\ rw[p][j].by = rw[p][i].by
                         /\ phase'[rw[p][i].by] \in Awaiting
                         => i = j
  BY DEF Requests, RequestView
<1> DEFINE r == rw[p][i]
<1>1. /\ r.by \in Callers /\ RequestView(p, r, phase'[r.by])
      /\ phase'[r.by] \in Awaiting => phase[r.by] \in Awaiting
  BY RequestKept
<1>2. QED
  BY <1>1 DEF Inv, Body, Requests

\* A request r of process p is sent; everybody else is steady.
LEMMA SendRequests ==
  ASSUME Inv, NEW p \in Procs, NEW r \in Request,
         rw' = [rw EXCEPT ![p] = Append(@, r)],
         \A c \in Callers : Steady(c) \/ (r.op # "set" /\ c = r.by /\ ~MayRequest(c, phase[c])),
         r.op # "set" => /\ RequestView(p, r, phase'[r.by])
                         /\ phase'[r.by] \in Awaiting => ~MayRequest(r.by, phase[r.by])
  PROVE  Requests'
<1>1. /\ \A q \in Procs : rw[q] \in Seq(Request)
      /\ \A q \in Procs : q # p => rw'[q] = rw[q]
      /\ rw'[p] = Append(rw[p], r)
  BY DEF Inv, TypeOK, RedisTypeOK
<1>2. /\ DOMAIN rw'[p] = DOMAIN rw[p] \cup {Len(rw[p]) + 1}
      /\ Len(rw[p]) + 1 \notin DOMAIN rw[p]
      /\ rw'[p][Len(rw[p]) + 1] = r
      /\ \A j \in DOMAIN rw[p] : rw'[p][j] = rw[p][j]
  BY <1>1
<1>3. ASSUME NEW q \in Procs, NEW i \in DOMAIN rw[q], rw[q][i].op # "set"
      PROVE  /\ rw[q][i].by \in Callers /\ CallerProc[rw[q][i].by] = q
             /\ MayRequest(rw[q][i].by, phase[rw[q][i].by])
             /\ RequestView(q, rw[q][i], phase'[rw[q][i].by])
             /\ phase'[rw[q][i].by] \in Awaiting => phase[rw[q][i].by] \in Awaiting
  <2>1. /\ rw[q][i].by \in Callers /\ CallerProc[rw[q][i].by] = q
        /\ MayRequest(rw[q][i].by, phase[rw[q][i].by])
    BY <1>3, RequestKept
  <2>2. Steady(rw[q][i].by)
    BY <2>1
  <2>3. QED
    BY <1>3, <2>1, <2>2, RequestKept
<1> SUFFICES ASSUME NEW q \in Procs, NEW i \in DOMAIN rw'[q], rw'[q][i].op # "set"
             PROVE  /\ RequestView(q, rw'[q][i], phase'[rw'[q][i].by])
                    /\ \A j \in DOMAIN rw'[q] :
                         /\ rw'[q][j].op # "set" /\ rw'[q][j].by = rw'[q][i].by
                         /\ phase'[rw'[q][i].by] \in Awaiting
                         => i = j
  BY DEF Requests, RequestView
<1>4. CASE q # p
  BY <1>1, <1>3, <1>4 DEF Inv, Body, Requests
<1>5. CASE q = p /\ i = Len(rw[p]) + 1
  BY <1>2, <1>3, <1>5
<1>6. CASE q = p /\ i \in DOMAIN rw[p]
  BY <1>2, <1>3, <1>6 DEF Inv, Body, Requests
<1>7. QED
  BY <1>2, <1>4, <1>5, <1>6

\* Redis executes the oldest request of p, for which its caller waited if it moves.
LEMMA ExecuteRequests ==
  ASSUME Inv, NEW p \in Procs, rw[p] # <<>>, Executed(p),
         \A c \in Callers :
           Steady(c) \/ (Head(rw[p]).op # "set" /\ c = Head(rw[p]).by /\ phase[c] \in Awaiting)
  PROVE  Requests'
<1>1. /\ rw[p] \in Seq(Request) /\ rw'[p] = Tail(rw[p])
      /\ \A q \in Procs : q # p => rw'[q] = rw[q]
  BY DEF Inv, TypeOK, RedisTypeOK, Executed
<1>2. /\ Head(rw[p]) = rw[p][1] /\ 1 \in DOMAIN rw[p]
      /\ \A i \in DOMAIN rw'[p] : /\ rw'[p][i] = rw[p][i + 1] /\ i + 1 \in DOMAIN rw[p]
                                  /\ i + 1 # 1 /\ i \in Nat
  BY <1>1
<1>3. ASSUME NEW q \in Procs, NEW i \in DOMAIN rw[q], rw[q][i].op # "set", q # p \/ i # 1
      PROVE  /\ RequestView(q, rw[q][i], phase'[rw[q][i].by])
             /\ phase'[rw[q][i].by] \in Awaiting => phase[rw[q][i].by] \in Awaiting
  <2> DEFINE c == rw[q][i].by
  <2>1. c \in Callers /\ CallerProc[c] = q
    BY <1>3, RequestKept
  <2>2. ~(Head(rw[p]).op # "set" /\ c = Head(rw[p]).by /\ phase[c] \in Awaiting)
    <3>1. SUFFICES ASSUME Head(rw[p]).op # "set", c = Head(rw[p]).by, phase[c] \in Awaiting
                   PROVE  FALSE
      OBVIOUS
    <3>2. CallerProc[c] = p
      BY <1>2, <3>1, RequestKept
    <3>3. i = 1
      BY <1>2, <1>3, <2>1, <3>1, <3>2 DEF Inv, Body, Requests
    <3>4. QED
      BY <1>3, <2>1, <3>2, <3>3
  <2>3. Steady(c)
    BY <2>1, <2>2
  <2>4. QED
    BY <1>3, <2>3, RequestKept
<1> SUFFICES ASSUME NEW q \in Procs, NEW i \in DOMAIN rw'[q], rw'[q][i].op # "set"
             PROVE  /\ RequestView(q, rw'[q][i], phase'[rw'[q][i].by])
                    /\ \A j \in DOMAIN rw'[q] :
                         /\ rw'[q][j].op # "set" /\ rw'[q][j].by = rw'[q][i].by
                         /\ phase'[rw'[q][i].by] \in Awaiting
                         => i = j
  BY DEF Requests, RequestView
<1>4. CASE q # p
  BY <1>1, <1>3, <1>4 DEF Inv, Body, Requests
<1>5. CASE q = p
  <2>1. RequestView(p, rw'[p][i], phase'[rw'[p][i].by])
    BY <1>2, <1>3, <1>5
  <2>2. ASSUME NEW j \in DOMAIN rw'[p], rw'[p][j].op # "set", rw'[p][j].by = rw'[p][i].by,
               phase'[rw'[p][i].by] \in Awaiting
        PROVE  i = j
    <3>1. /\ i + 1 \in DOMAIN rw[p] /\ j + 1 \in DOMAIN rw[p] /\ i \in Nat /\ j \in Nat
          /\ rw[p][i + 1].op # "set" /\ rw[p][j + 1].op # "set"
          /\ rw[p][j + 1].by = rw[p][i + 1].by /\ phase'[rw[p][i + 1].by] \in Awaiting
      BY <1>2, <1>5, <2>2
    <3>2. phase[rw[p][i + 1].by] \in Awaiting
      BY <1>2, <1>3, <1>5, <3>1
    <3>3. i + 1 = j + 1
      BY <3>1, <3>2 DEF Inv, Body, Requests
    <3>4. QED
      BY <3>1, <3>3
  <2>3. QED
    BY <1>5, <2>1, <2>2
<1>6. QED
  BY <1>4, <1>5

-----------------------------------------------------------------------------
(* Polls that were woken, what polls have seen, and acks.                  *)

\* A poll keeps being requested while its request is not executed.
LEMMA RequestedKept ==
  ASSUME TypeOK, NEW c \in Polls, Requested(c)
  PROVE  /\ UNCHANGED rw => Requested(c)'
         /\ \A p \in Procs : rw'[p] = rw[p] => CallerProc[c] # p \/ Requested(c)'
         /\ \A p \in Procs, r \in Request :
              rw' = [rw EXCEPT ![p] = Append(@, r)] => Requested(c)'
         /\ \A p \in Procs : Executed(p) /\ rw[p] # <<>> =>
              \/ Requested(c)'
              \/ CallerProc[c] = p /\ Head(rw[p]).op = "get" /\ Head(rw[p]).by = c
<1> DEFINE q == CallerProc[c]
<1>1. q \in Procs /\ rw[q] \in Seq(Request) /\ rw \in [Procs -> Seq(Request)]
  BY CallerPlaces DEF TypeOK, RedisTypeOK
<1>2. PICK i \in DOMAIN rw[q] : rw[q][i].op = "get" /\ rw[q][i].by = c
  BY DEF Requested
<1>3. UNCHANGED rw => Requested(c)'
  BY DEF Requested
<1>4. ASSUME rw'[q] = rw[q] PROVE Requested(c)'
  BY <1>2, <1>4 DEF Requested
<1>5. ASSUME NEW p \in Procs, NEW r \in Request, rw' = [rw EXCEPT ![p] = Append(@, r)]
      PROVE  Requested(c)'
  <2>1. i \in DOMAIN rw'[q] /\ rw'[q][i] = rw[q][i]
    BY <1>1, <1>2, <1>5
  <2>2. QED
    BY <1>2, <2>1 DEF Requested
<1>6. ASSUME NEW p \in Procs, Executed(p), rw[p] # <<>>
      PROVE  \/ Requested(c)'
             \/ CallerProc[c] = p /\ Head(rw[p]).op = "get" /\ Head(rw[p]).by = c
  <2>1. CASE q # p
    BY <1>1, <1>4, <1>6, <2>1 DEF Executed
  <2>2. CASE q = p /\ i = 1
    BY <1>1, <1>2, <2>2
  <2>3. CASE q = p /\ i # 1
    <3>1. i - 1 \in DOMAIN rw'[q] /\ rw'[q][i - 1] = rw[q][i]
      BY <1>1, <1>2, <1>6, <2>3 DEF Executed
    <3>2. QED
      BY <1>2, <3>1 DEF Requested
  <2>4. QED
    BY <2>1, <2>2, <2>3
<1>7. QED
  BY <1>3, <1>4, <1>5, <1>6

\* The steps of a poll after its GET.
Moves(c) ==
  \/ phase'[c] = phase[c]
  \/ phase[c] = "got" /\ phase'[c] = "subscribing"
  \/ phase[c] = "subscribing" /\ phase'[c] = "arming"
  \/ phase[c] = "arming" /\ phase'[c] = "armed"
  \/ phase[c] \in {"got"} \cup Registered /\ phase'[c] = "over"

\* A woken poll whose message stays on its way, or who loses its entry.
LEMMA WokenKept ==
  ASSUME Inv, NEW c \in Polls,
         c \in woken' => c \in woken,
         phase[c] \in Registered => phase'[c] \in Registered,
         Entry(c)' = c /\ c \in woken' =>
           /\ Entry(c) = c
           /\ HasSet(Inbox(c)) => HasSet(Inbox(c)') \/ Requested(c)'
           /\ Requested(c) => Requested(c)' \/ pushed'[c] # <<>>
           /\ pushed[c] # <<>> => pushed'[c] # <<>>
  PROVE  WokenInv(c)'
<1>1. WokenInv(c)
  BY DEF Inv, Body
<1>2. QED
  BY <1>1 DEF WokenInv

AnswerSeen(c) == answer'[c] = answer[c] \/ (answer'[c] # Pending /\ Seen(c, answer'[c]))

\* A poll that moves on with what it has seen.
LEMMA FreshKept ==
  ASSUME Inv, NEW c \in Polls, Moves(c), AnswerSeen(c),
         store'[CallerAgent[c]] \in {store[CallerAgent[c]], Nil},
         saw'[c] = saw[c],
         current[c] \subseteq current'[c],
         \/ pushed'[c] = pushed[c]
         \/ pushed'[c] = <<>>
         \/ pushed[c] # <<>> /\ pushed'[c] = Tail(pushed[c])
  PROVE  FreshInv(c)'
<1>1. FreshInv(c) /\ pushed[c] \in Seq(Value \cup {Nil}) /\ Nil \notin Value
  BY ValueAssumption DEF Inv, Body, TypeOK
<1>2. /\ phase'[c] \notin {"idle", "over"} => Seen(c, store[CallerAgent[c]])'
      /\ phase'[c] = "got" => Seen(c, saw[c])'
      /\ Seen(c, answer[c])'
  BY <1>1 DEF FreshInv, Seen, Moves, AnswerSeen, Registered
<1>3. phase'[c] \in NotRegistered => pushed'[c] = <<>>
  BY <1>1 DEF FreshInv, Moves, NotRegistered, Registered
<1>4. answer'[c] = Pending => \A i \in DOMAIN pushed'[c] : Seen(c, pushed[c][i])'
  <2> SUFFICES ASSUME answer'[c] = Pending, NEW i \in DOMAIN pushed'[c]
               PROVE  Seen(c, pushed[c][i])'
    OBVIOUS
  <2>1. answer[c] = Pending
    BY DEF AnswerSeen
  <2>2. \E j \in DOMAIN pushed[c] : pushed'[c][i] = pushed[c][j]
    <3>1. CASE pushed'[c] = pushed[c]
      BY <3>1
    <3>2. CASE pushed[c] # <<>> /\ pushed'[c] = Tail(pushed[c])
      <4>1. i + 1 \in DOMAIN pushed[c] /\ pushed'[c][i] = pushed[c][i + 1]
        BY <1>1, <3>2
      <4>2. QED
        BY <4>1
    <3>3. QED
      BY <3>1, <3>2
  <2>3. QED
    BY <1>1, <2>1, <2>2 DEF FreshInv, Seen
<1>5. QED
  BY <1>2, <1>3, <1>4 DEF FreshInv

AckMoves(k) ==
  \/ phase'[k] = phase[k] /\ ackUtime'[k] = ackUtime[k]
  \/ phase'[k] \notin {"got", "deleting"}

\* An ack whose decision is not touched.
LEMMA AckKept ==
  ASSUME Inv, NEW k \in Acks, AckMoves(k),
         store'[CallerAgent[k]] \in {store[CallerAgent[k]], Nil},
         saw'[k] = saw[k], raced \subseteq raced'
  PROVE  AckInv(k)'
<1>1. AckInv(k)
  BY DEF Inv, Body
<1>2. QED
  BY <1>1 DEF AckInv, AckMoves

\* The steps that leave redis, what was read and what is on its way alone.
LEMMA FrameRest ==
  ASSUME Inv, UNCHANGED <<store, saw, woken, current, raced, pushed, inbox>>,
         \A c \in Polls : Moves(c) /\ AnswerSeen(c),
         \A c \in Polls : Requested(c) => Requested(c)',
         \A c \in Polls : c \in woken /\ Entry(c)' = c => Entry(c) = c,
         \A k \in Acks : AckMoves(k)
  PROVE  /\ \A c \in Polls : WokenInv(c)' /\ FreshInv(c)'
         /\ \A k \in Acks : AckInv(k)'
<1>1. ASSUME NEW c \in Polls PROVE WokenInv(c)'
  <2>1. Inbox(c)' = Inbox(c)
    BY DEF Inbox
  <2>2. phase[c] \in Registered => phase'[c] \in Registered
    BY DEF Moves, Registered
  <2>3. QED
    BY <2>1, <2>2, WokenKept
<1>2. ASSUME NEW c \in Polls PROVE FreshInv(c)'
  BY FreshKept
<1>3. ASSUME NEW k \in Acks PROVE AckInv(k)'
  BY AckKept
<1>4. QED
  BY <1>1, <1>2, <1>3

-----------------------------------------------------------------------------
(* Every step keeps the invariant.                                         *)

\* What the invariant says of one poll.
LEMMA PollFacts ==
  ASSUME Inv, NEW c \in Polls
  PROVE  /\ c \in Callers /\ CallerProc[c] \in Procs /\ CallerAgent[c] \in Agents
         /\ phase[c] \in NotRegistered \cup Registered
         /\ phase[c] \in NotRegistered =>
              Entry(c) # c /\ answer[c] = Pending /\ pushed[c] = <<>> /\ c \notin woken
         /\ phase[c] = "over" => answer[c] # Pending
         /\ Entry(c) = c => answer[c] \in {Pending, Failed}
         /\ saw[c] \in Value \cup {Nil} /\ pushed[c] \in Seq(Value \cup {Nil})
  BY CallerPlaces
  DEF Inv, Body, Channels, PollInv, PollView, FreshInv, WokenInv, NotRegistered, Registered, TypeOK

\* One caller moves, the others stay.
LEMMA OneMoves ==
  ASSUME TypeOK, NEW c \in Callers, NEW ph, phase' = [phase EXCEPT ![c] = ph]
  PROVE  phase'[c] = ph /\ \A d \in Callers : d # c => phase'[d] = phase[d]
  BY DEF TypeOK

\* An answer given once stays, whatever is resolved later.
LEMMA ResolveLemma ==
  ASSUME TypeOK, NEW c \in Polls, NEW result \in Value \cup {NoMessage, NotANumber},
         Resolve(c, result)
  PROVE  /\ answer'[c] # Pending
         /\ \/ answer[c] = Pending /\ answer'[c] = result
            \/ answer[c] # Pending /\ answer'[c] = answer[c]
         /\ \A d \in Polls : d # c => answer'[d] = answer[d]
  BY AnswersDiffer DEF Resolve, TypeOK

\* The end of poll c, with its own callback cleaned up.
LEMMA CallbackChannels ==
  ASSUME Inv, NEW c \in Polls, cleanupCallback(c), UNCHANGED <<inbox, subscribed, losses>>,
         Ends(c), \A d \in Polls : d # c => Stays(d)
  PROVE  /\ Channels'
         /\ Entry(c)' # c
         /\ \A d \in Polls : Entry(d)' = d => Entry(d) = d
<1>1. TypeOK /\ CallerProc[c] \in Procs /\ CallerAgent[c] \in Agents
  BY CallerPlaces DEF Inv
<1>2. CASE cleanupSubscription(CallerProc[c], CallerAgent[c], NoCaller)
  <2>1. Channels'
    BY <1>1, <1>2, CleanupChannels
  <2>2. \A d \in Polls : Entry(d)' = NoPoll \/ Entry(d)' = Entry(d)
    BY <1>1, <1>2, CallerPlaces DEF cleanupSubscription, Entry, TypeOK
  <2>3. Entry(c)' = NoPoll
    BY <1>1, <1>2 DEF cleanupSubscription, Entry, TypeOK
  <2>4. QED
    BY <2>1, <2>2, <2>3, PollsAreNotOthers
<1>3. CASE Entry(c) # c /\ UNCHANGED <<agentSubscriptions, cmds>>
  <2>1. Channels'
    BY <1>3, FrameChannels
  <2>2. QED
    BY <1>3, <2>1 DEF Entry
<1>4. QED
  BY <1>2, <1>3 DEF cleanupCallback

\* A poll starts.
LEMMA StartBody ==
  ASSUME Inv, NEW c \in Polls, longpollNotificationsV2(c)
  PROVE  Body'
<1> DEFINE r == [op |-> "get", key |-> CallerAgent[c], by |-> c]
<1>1. /\ TypeOK /\ c \in Callers /\ CallerProc[c] \in Procs /\ CallerAgent[c] \in Agents
      /\ phase[c] = "idle" /\ answer[c] = Pending /\ pushed[c] = <<>>
  BY PollFacts DEF Inv, longpollNotificationsV2, At, NotRegistered
<1>2. /\ r \in Request /\ r.op = "get" /\ r.by = c
      /\ rw' = [rw EXCEPT ![CallerProc[c]] = Append(@, r)]
      /\ UNCHANGED <<store, cmds, inbox, subscribed, agentSubscriptions, losses, woken, raced>>
      /\ UNCHANGED <<answer, saw, pushed, ackUtime>>
      /\ current' = [current EXCEPT ![c] = {store[CallerAgent[c]]} \ {Nil}]
  BY <1>1 DEF longpollNotificationsV2, getValue, Request, boundVars
<1>3. phase'[c] = "getting" /\ \A d \in Callers : d # c => phase'[d] = phase[d]
  BY <1>1, OneMoves DEF longpollNotificationsV2
<1>4. Channels'
  BY <1>1, <1>2, <1>3, FrameChannels, CallerPlaces DEF Stays, NotRegistered
<1>5. Requests'
  <2>1. ~MayRequest(c, phase[c]) /\ RequestView(CallerProc[c], r, phase'[c])
    BY <1>1, <1>2, <1>3 DEF MayRequest, Awaiting, Registered, RequestView
  <2>2. QED
    BY <1>1, <1>2, <1>3, <2>1, SendRequests DEF Steady
<1>6. ASSUME NEW d \in Polls PROVE WokenInv(d)'
  <2>1. phase[d] \in Registered => phase'[d] \in Registered
    BY <1>1, <1>3, CallerPlaces DEF Registered
  <2>2. Requested(d) => Requested(d)'
    BY <1>1, <1>2, RequestedKept
  <2>3. QED
    BY <1>2, <2>1, <2>2, WokenKept DEF Entry, Inbox
<1>7. ASSUME NEW d \in Polls PROVE FreshInv(d)'
  <2>1. CASE d = c
    <3>1. current'[c] = {store[CallerAgent[c]]} \ {Nil} /\ Nil \notin Value /\ Pending \notin Value
      BY <1>1, <1>2, AnswersDiffer, ValueAssumption DEF TypeOK
    <3>2. QED
      BY <1>1, <1>2, <1>3, <2>1, <3>1 DEF FreshInv, Seen
  <2>2. CASE d # c
    <3>1. current'[d] = current[d] /\ phase'[d] = phase[d]
      BY <1>1, <1>2, <1>3, <2>2, CallerPlaces DEF TypeOK
    <3>2. QED
      BY <1>2, <3>1, FreshKept DEF Moves, AnswerSeen
  <2>3. QED
    BY <2>1, <2>2
<1>8. ASSUME NEW k \in Acks PROVE AckInv(k)'
  BY <1>1, <1>2, <1>3, AckKept, CallerPlaces, PollsAreNotOthers DEF AckMoves
<1>9. QED
  BY <1>4, <1>5, <1>6, <1>7, <1>8 DEF Body

\* A poll goes on.
LEMMA PollStepBody ==
  ASSUME Inv, NEW c \in Polls, PollStep(c)
  PROVE  Body'
<1>1. /\ TypeOK /\ c \in Callers /\ CallerProc[c] \in Procs /\ CallerAgent[c] \in Agents
      /\ UNCHANGED <<store, rw, saw, woken, current, raced, pushed, inbox, ackUtime>>
      /\ UNCHANGED <<subscribed, losses>>
  BY PollFacts
  DEF Inv, PollStep, AnswerAtOnce, WaitForMessage, SetTimer, reactOnTimeout, redisVars,
      historyVars, boundVars
<1>2. /\ \A d \in Callers : d # c => phase'[d] = phase[d]
      /\ \/ phase[c] = "got" /\ phase'[c] \in {"over", "subscribing"}
         \/ phase[c] = "arming" /\ phase'[c] = "armed"
         \/ phase[c] = "armed" /\ phase'[c] = "over"
  BY <1>1, OneMoves DEF PollStep, AnswerAtOnce, WaitForMessage, SetTimer, reactOnTimeout, At
<1>3. /\ AnswerSeen(c)
      /\ \A d \in Polls : d # c => answer'[d] = answer[d]
      /\ phase'[c] = "over" => answer'[c] # Pending
      /\ phase'[c] # "over" => answer'[c] = answer[c]
  <2>1. CASE AnswerAtOnce(c)
    <3>1. Resolve(c, saw[c]) /\ saw[c] \in Value /\ phase[c] = "got" /\ phase'[c] = "over"
      BY <1>1, <2>1, PollFacts, OneMoves DEF AnswerAtOnce, At
    <3>2. Seen(c, saw[c])
      BY <3>1 DEF Inv, Body, FreshInv
    <3>3. QED
      BY <1>1, <1>2, <3>1, <3>2, ResolveLemma DEF AnswerSeen, Seen
  <2>2. CASE reactOnTimeout(c)
    <3>1. Resolve(c, NoMessage) /\ NoMessage \notin Value
      BY <2>2, AnswersDiffer DEF reactOnTimeout
    <3>2. QED
      BY <1>1, <1>2, <2>2, <3>1, ResolveLemma DEF AnswerSeen, Seen, reactOnTimeout, At
  <2>3. CASE WaitForMessage(c) \/ SetTimer(c)
    <3>1. UNCHANGED answer /\ phase'[c] # "over"
      BY <1>1, <1>2, <2>3 DEF WaitForMessage, SetTimer, At, TypeOK
    <3>2. QED
      BY <3>1 DEF AnswerSeen
  <2>4. QED
    BY <2>1, <2>2, <2>3 DEF PollStep
<1>4. /\ Channels'
      /\ \A d \in Polls : d \in woken /\ Entry(d)' = d => Entry(d) = d
  <2>1. CASE WaitForMessage(c)
    <3>1. Channels'
      BY <2>1, RegisterChannels
    <3>2. c \notin woken
      BY <2>1, PollFacts DEF WaitForMessage, At, NotRegistered
    <3>3. \A d \in Polls : Entry(d)' = c \/ Entry(d)' = Entry(d)
      BY <1>1, <2>1, CallerPlaces DEF WaitForMessage, registerCallback, Entry, TypeOK
    <3>4. QED
      BY <3>1, <3>2, <3>3
  <2>2. CASE AnswerAtOnce(c) \/ SetTimer(c)
    <3>1. UNCHANGED <<cmds, agentSubscriptions>>
      BY <2>2 DEF AnswerAtOnce, SetTimer, redisVars
    <3>2. phase'[c] = "over" => Entry(c) # c
      BY <1>1, <1>2, <2>2, PollFacts DEF AnswerAtOnce, SetTimer, At, NotRegistered, TypeOK
    <3>3. phase'[c] # "subscribing"
      BY <1>1, <2>2, OneMoves DEF AnswerAtOnce, SetTimer
    <3>4. \A d \in Polls :
            \/ Stays(d)
            \/ phase[d] = "arming" /\ phase'[d] = "armed" /\ answer'[d] = answer[d]
            \/ Entry(d) # d /\ Ends(d)
      <4>1. \A d \in Polls : d # c => Stays(d)
        BY <1>2, <1>3, CallerPlaces DEF Stays
      <4>2. QED
        BY <1>2, <1>3, <2>2, <3>2, <4>1, <3>3 DEF Ends
    <3>5. QED
      BY <1>1, <3>1, <3>4, FrameChannels DEF Entry
  <2>3. CASE reactOnTimeout(c)
    <3>1. cleanupCallback(c) /\ phase'[c] = "over"
      BY <1>1, <2>3, OneMoves DEF reactOnTimeout
    <3>2. Ends(c) /\ \A d \in Polls : d # c => Stays(d)
      BY <1>2, <1>3, <3>1, CallerPlaces DEF Ends, Stays
    <3>3. QED
      BY <1>1, <3>1, <3>2, CallbackChannels
  <2>4. QED
    BY <2>1, <2>2, <2>3 DEF PollStep
<1>5. Requests'
  <2>1. Steady(c)
    BY <1>2 DEF Steady, MayRequest, Awaiting, Registered
  <2>2. QED
    BY <1>1, <1>2, <2>1, FrameRequests DEF Steady
<1>6. /\ \A d \in Polls : WokenInv(d)' /\ FreshInv(d)'
      /\ \A k \in Acks : AckInv(k)'
  <2>1. ASSUME NEW d \in Polls PROVE Moves(d) /\ AnswerSeen(d)
    BY <1>2, <1>3, CallerPlaces DEF Moves, Registered, AnswerSeen
  <2>2. ASSUME NEW d \in Polls, Requested(d) PROVE Requested(d)'
    BY <1>1, <2>2, RequestedKept
  <2>3. \A k \in Acks : AckMoves(k)
    BY <1>1, <1>2, CallerPlaces, PollsAreNotOthers DEF AckMoves
  <2>4. QED
    BY <1>1, <1>4, <2>1, <2>2, <2>3, FrameRest
<1>7. QED
  BY <1>4, <1>5, <1>6 DEF Body

\* A handler calls back the poll whose callback it took.
LEMMA CallBackBody ==
  ASSUME Inv, NEW c \in Polls, CallBack(c)
  PROVE  Body'
<1> DEFINE result == parsed(Head(pushed[c]))
<1>1. /\ TypeOK /\ c \in Callers /\ CallerProc[c] \in Procs /\ CallerAgent[c] \in Agents
      /\ UNCHANGED <<store, rw, saw, woken, current, raced, inbox, ackUtime>>
      /\ UNCHANGED <<subscribed, losses>>
      /\ pushed[c] # <<>> /\ pushed' = [pushed EXCEPT ![c] = Tail(@)]
      /\ phase[c] \in Registered
  BY PollFacts DEF Inv, CallBack, historyVars, boundVars
<1>2. pushed'[c] = Tail(pushed[c]) /\ \A d \in Polls : d # c => pushed'[d] = pushed[d]
  BY <1>1 DEF TypeOK
<1>3. /\ \A d \in Polls : d # c => Stays(d)
      /\ phase'[c] \in {phase[c], "over"}
      /\ \A k \in Acks : phase'[k] = phase[k]
      /\ AnswerSeen(c)
      /\ Channels'
      /\ Entry(c)' # c
      /\ \A d \in Polls : Entry(d)' = d => Entry(d) = d
  <2>1. CASE ~wasResponseSent(c)
    <3>1. /\ cleanupCallback(c) /\ Resolve(c, result)
          /\ phase' = [phase EXCEPT ![c] = "over"]
      BY <2>1 DEF CallBack, reactOnNewMessage
    <3>2. result \in Value \cup {NotANumber} /\ NotANumber \notin Value
      <4>1. Head(pushed[c]) \in Value \cup {Nil}
        BY <1>1, PollFacts
      <4>2. QED
        BY <4>1, AnswersDiffer DEF parsed
    <3>3. answer[c] = Pending => Seen(c, result)
      <4>1. SUFFICES ASSUME answer[c] = Pending, result \in Value PROVE Seen(c, result)
        BY DEF Seen
      <4>2. result = pushed[c][1] /\ 1 \in DOMAIN pushed[c]
        <5>1. Head(pushed[c]) = pushed[c][1] /\ 1 \in DOMAIN pushed[c]
          BY <1>1, PollFacts
        <5>2. QED
          BY <3>2, <4>1, <5>1 DEF parsed
      <4>3. QED
        BY <4>1, <4>2 DEF Inv, Body, FreshInv
    <3>4. /\ phase'[c] = "over" /\ \A d \in Callers : d # c => phase'[d] = phase[d]
      BY <1>1, <3>1, OneMoves
    <3>5. /\ answer'[c] # Pending
          /\ answer'[c] = answer[c] \/ (answer[c] = Pending /\ answer'[c] = result)
          /\ \A d \in Polls : d # c => answer'[d] = answer[d]
      BY <1>1, <3>1, <3>2, ResolveLemma
    <3>6. Ends(c) /\ \A d \in Polls : d # c => Stays(d)
      BY <3>4, <3>5, CallerPlaces DEF Ends, Stays
    <3>7. AnswerSeen(c)
      BY <3>3, <3>5 DEF AnswerSeen, Seen
    <3>8. /\ Channels'
          /\ Entry(c)' # c
          /\ \A d \in Polls : Entry(d)' = d => Entry(d) = d
      BY <1>1, <3>1, <3>6, CallbackChannels
    <3>9. \A k \in Acks : phase'[k] = phase[k]
      BY <3>4, CallerPlaces, PollsAreNotOthers
    <3>10. QED
      BY <3>4, <3>6, <3>7, <3>8, <3>9
  <2>2. CASE wasResponseSent(c)
    <3>1. UNCHANGED <<agentSubscriptions, cmds, answer, phase>>
      BY <2>2 DEF CallBack, reactOnNewMessage
    <3>2. Entry(c) # c
      BY <2>2, PollFacts DEF wasResponseSent
    <3>3. \A d \in Polls : Stays(d)
      BY <3>1 DEF Stays
    <3>4. QED
      BY <1>1, <3>1, <3>2, <3>3, FrameChannels DEF Entry, AnswerSeen
  <2>3. QED
    BY <2>1, <2>2
<1>4. Requests'
  <2>1. \A d \in Callers : d # c => phase'[d] = phase[d]
    BY <1>3, CallersAreRequests DEF Stays
  <2>2. Steady(c)
    BY <1>1, <1>3 DEF Steady, Registered
  <2>3. QED
    BY <1>1, <2>1, <2>2, FrameRequests DEF Steady
<1>5. ASSUME NEW d \in Polls PROVE WokenInv(d)' /\ FreshInv(d)'
  <2>1. Moves(d) /\ AnswerSeen(d)
    BY <1>1, <1>3 DEF Moves, Stays, AnswerSeen
  <2>2. FreshInv(d)'
    BY <1>1, <1>2, <2>1, FreshKept
  <2>3. Requested(d) => Requested(d)'
    BY <1>1, RequestedKept
  <2>4. phase[d] \in Registered => phase'[d] \in Registered
    BY <2>1 DEF Moves, Registered
  <2>5. WokenInv(d)'
    BY <1>1, <1>2, <1>3, <2>3, <2>4, WokenKept DEF Inbox
  <2>6. QED
    BY <2>2, <2>5
<1>6. ASSUME NEW k \in Acks PROVE AckInv(k)'
  BY <1>1, <1>3, AckKept DEF AckMoves
<1>7. QED
  BY <1>3, <1>4, <1>5, <1>6 DEF Body

\* An ack starts, decides or cleans up.
LEMMA AckBody ==
  ASSUME Inv, NEW k \in Acks, AckStep(k) \/ \E t \in Value : ackNewMessage(k, t)
  PROVE  Body'
<1>1. /\ TypeOK /\ k \in Callers /\ k \notin Polls
      /\ CallerProc[k] \in Procs /\ CallerAgent[k] \in Agents
      /\ UNCHANGED <<store, saw, woken, current, raced, pushed, inbox, answer>>
      /\ UNCHANGED <<subscribed, losses>>
  BY CallerPlaces, PollsAreNotOthers
  DEF Inv, AckStep, ackNewMessage, AckDecided, AckCleanup, boundVars, historyVars
<1>2. /\ phase' \in [Callers -> Phase] /\ \A d \in Callers : d # k => phase'[d] = phase[d]
      /\ \A d \in Acks : d # k => ackUtime'[d] = ackUtime[d]
  BY <1>1 DEF AckStep, ackNewMessage, AckDecided, AckCleanup, TypeOK, Phase
<1>3. \A d \in Polls : Stays(d) /\ Moves(d) /\ AnswerSeen(d)
  BY <1>1, <1>2, CallerPlaces DEF Stays, Moves, AnswerSeen
<1>4. /\ Channels'
      /\ \A d \in Polls : Entry(d)' = d => Entry(d) = d
  <2>1. CASE cleanupSubscription(CallerProc[k], CallerAgent[k], k)
    <3>1. Channels'
      BY <1>1, <1>3, <2>1, CleanupChannels
    <3>2. \A d \in Polls : Entry(d)' = NoPoll \/ Entry(d)' = Entry(d)
      BY <1>1, <2>1, CallerPlaces DEF cleanupSubscription, Entry, TypeOK
    <3>3. QED
      BY <3>1, <3>2, PollsAreNotOthers
  <2>2. CASE UNCHANGED <<agentSubscriptions, cmds>>
    BY <1>1, <1>3, <2>2, FrameChannels DEF Entry
  <2>3. QED
    BY <2>1, <2>2 DEF AckStep, ackNewMessage, AckDecided, AckCleanup
<1> DEFINE p == CallerProc[k]
           a == CallerAgent[k]
<1>5. /\ Requests'
      /\ \A d \in Polls : Requested(d) => Requested(d)'
      /\ AckInv(k)'
  <2>1. CASE /\ UNCHANGED rw
             /\ phase[k] \in {"idle", "got", "deleted"} /\ phase'[k] \in {"over", "unsubscribing"}
    <3>1. Steady(k)
      BY <1>1, <2>1 DEF Steady, MayRequest, Awaiting
    <3>2. QED
      BY <1>1, <1>2, <2>1, <3>1, FrameRequests, RequestedKept DEF Steady, AckInv
  <2>2. ASSUME NEW op \in {"get", "del"},
               rw' = [rw EXCEPT ![p] = Append(@, [op |-> op, key |-> a, by |-> k])],
               \/ op = "get" /\ phase[k] = "idle" /\ phase'[k] = "getting"
               \/ op = "del" /\ phase[k] = "got" /\ phase'[k] = "deleting"
        PROVE  /\ Requests'
               /\ \A d \in Polls : Requested(d) => Requested(d)'
    <3> DEFINE r == [op |-> op, key |-> a, by |-> k]
    <3>1. r \in Request /\ r.op = op /\ r.by = k /\ r.key = a
      BY <1>1 DEF Request
    <3>2. ~MayRequest(k, phase[k]) /\ RequestView(p, r, phase'[k])
      BY <1>1, <2>2, <3>1 DEF MayRequest, Awaiting, RequestView
    <3>3. Requests'
      BY <1>1, <1>2, <2>2, <3>1, <3>2, SendRequests DEF Steady
    <3>4. QED
      BY <1>1, <2>2, <3>1, <3>3, RequestedKept
  <2>3. ASSUME NEW t \in Value, ackNewMessage(k, t)
        PROVE  /\ Requests'
               /\ \A d \in Polls : Requested(d) => Requested(d)'
               /\ AckInv(k)'
    <3>1. /\ phase[k] = "idle"
          /\ \/ phase'[k] = "over" /\ UNCHANGED rw
             \/ phase'[k] = "getting" /\ getValue(p, a, k)
      BY <1>1, <2>3 DEF ackNewMessage, At, TypeOK
    <3>2. CASE phase'[k] = "over" /\ UNCHANGED rw
      BY <2>1, <3>1, <3>2
    <3>3. CASE phase'[k] = "getting" /\ getValue(p, a, k)
      BY <2>2, <3>1, <3>3 DEF getValue, AckInv
    <3>4. QED
      BY <3>1, <3>2, <3>3
  <2>4. CASE AckDecided(k)
    <3>1. /\ phase[k] = "got" /\ UNCHANGED ackUtime
          /\ \/ phase'[k] = "over" /\ UNCHANGED rw
             \/ phase'[k] = "deleting" /\ deleteValue(p, a, k) /\ isAccepted(k)
      BY <1>1, <2>4 DEF AckDecided, At, TypeOK
    <3>2. CASE phase'[k] = "over" /\ UNCHANGED rw
      BY <2>1, <3>1, <3>2
    <3>3. CASE phase'[k] = "deleting" /\ deleteValue(p, a, k) /\ isAccepted(k)
      <4>1. AckInv(k)'
        BY <1>1, <3>1, <3>3 DEF Inv, Body, AckInv, isAccepted, TypeOK
      <4>2. QED
        BY <2>2, <3>1, <3>3, <4>1 DEF deleteValue
    <3>4. QED
      BY <3>1, <3>2, <3>3
  <2>5. CASE AckCleanup(k)
    <3>1. UNCHANGED rw /\ phase[k] = "deleted" /\ phase'[k] \in {"over", "unsubscribing"}
      BY <1>1, <2>5 DEF AckCleanup, At, TypeOK
    <3>2. QED
      BY <2>1, <3>1
  <2>6. QED
    BY <2>3, <2>4, <2>5 DEF AckStep
<1>6. ASSUME NEW d \in Acks, d # k PROVE AckInv(d)'
  BY <1>1, <1>2, <1>6, AckKept, CallerPlaces DEF AckMoves
<1>7. ASSUME NEW d \in Polls PROVE WokenInv(d)' /\ FreshInv(d)'
  <2>1. phase[d] \in Registered => phase'[d] \in Registered
    BY <1>3 DEF Stays
  <2>2. WokenInv(d)'
    BY <1>1, <1>4, <1>5, <2>1, WokenKept DEF Inbox
  <2>3. FreshInv(d)'
    BY <1>1, <1>3, FreshKept
  <2>4. QED
    BY <2>2, <2>3
<1>8. QED
  BY <1>4, <1>5, <1>6, <1>7 DEF Body

\* Redis answers a GET, to the request or to the handler of an event.
LEMMA GetBody ==
  ASSUME Inv, NEW p \in Procs, GetExecuted(p)
  PROVE  Body'
<1> DEFINE c == Head(rw[p]).by
           value == store[CallerAgent[c]]
<1>1. /\ TypeOK /\ rw[p] # <<>> /\ Executed(p) /\ Head(rw[p]).op = "get"
      /\ UNCHANGED <<store, cmds, inbox, subscribed, agentSubscriptions, losses, answer>>
      /\ UNCHANGED <<woken, current, raced, ackUtime>>
  BY DEF Inv, GetExecuted, RedisGet, HeadIs, boundVars, historyVars
<1>2. /\ c \in Callers /\ CallerProc[c] = p
      /\ phase[c] = "getting" \/ (c \in Polls /\ phase[c] \in Registered)
  <2>1. 1 \in DOMAIN rw[p] /\ Head(rw[p]) = rw[p][1]
    BY <1>1 DEF TypeOK, RedisTypeOK
  <2>2. c \in Callers
    BY <1>1, <2>1, RequestKept
  <2>3. QED
    BY <1>1, <2>1, <2>2 DEF Inv, Body, Requests, RequestView
<1>3. value \in Value \cup {Nil}
  BY <1>1, <1>2, CallerPlaces DEF TypeOK, RedisTypeOK
<1>4. /\ \A d \in Callers : d # c => phase'[d] = phase[d] /\ saw'[d] = saw[d]
      /\ \A d \in Polls : d # c => pushed'[d] = pushed[d]
      /\ phase[c] = "getting" =>
           phase'[c] = "got" /\ saw'[c] = value /\ (c \in Polls => pushed'[c] = pushed[c])
      /\ phase[c] # "getting" =>
           /\ phase[c] \in Registered /\ c \in Polls
           /\ phase'[c] = phase[c] /\ saw'[c] = saw[c]
           /\ pushed'[c] = Append(pushed[c], value)
  <2>1. CASE At(c, "getting")
    BY <1>1, <1>2, <2>1 DEF GetExecuted, At, TypeOK
  <2>2. CASE ~At(c, "getting")
    <3>1. pushed' = [pushed EXCEPT ![c] = Append(@, value)] /\ UNCHANGED <<saw, phase>>
      BY <2>2 DEF GetExecuted
    <3>2. c \in Polls /\ phase[c] \in Registered
      BY <1>2, <2>2 DEF At
    <3>3. /\ pushed'[c] = Append(pushed[c], value)
          /\ \A d \in Polls : d # c => pushed'[d] = pushed[d]
      BY <1>1, <3>1, <3>2 DEF TypeOK
    <3>4. /\ \A d \in Callers : phase'[d] = phase[d] /\ saw'[d] = saw[d]
          /\ phase'[c] = phase[c] /\ saw'[c] = saw[c] /\ phase[c] # "getting"
      BY <2>2, <3>1 DEF At
    <3> HIDE DEF c, value
    <3>5. QED
      BY <3>2, <3>3, <3>4, Zenon
  <2>3. QED
    BY <2>1, <2>2
<1>5. Channels'
  BY <1>1, <1>4, FrameChannels, CallerPlaces DEF Stays, NotRegistered
<1>6. Requests'
  BY <1>1, <1>4, ExecuteRequests DEF Steady, Awaiting
<1>7. ASSUME NEW d \in Polls PROVE WokenInv(d)'
  <2>1. CASE d = c /\ phase[c] = "getting"
    BY <1>1, <2>1, PollFacts DEF WokenInv, NotRegistered
  <2>2. CASE d # c \/ phase[c] # "getting"
    <3>1. phase'[d] = phase[d] /\ (d # c => pushed'[d] = pushed[d])
      BY <1>4, <2>2, CallerPlaces DEF Registered
    <3>2. d = c => pushed'[d] # <<>>
      <4>1. ASSUME NEW s \in Seq(Value \cup {Nil}) PROVE Append(s, value) # <<>>
        BY <1>3
      <4>2. QED
        <5>1. ASSUME d = c PROVE pushed'[c] # <<>>
          <6>1. pushed'[c] = Append(pushed[c], value) /\ pushed[c] \in Seq(Value \cup {Nil})
            BY <1>4, <2>2, <5>1, PollFacts
          <6>2. QED
            BY <4>1, <6>1
        <5>2. QED
          BY <5>1
    <3>3. Requested(d) => Requested(d)' \/ pushed'[d] # <<>>
      BY <1>1, <3>2, RequestedKept
    <3>4. QED
      BY <1>1, <3>1, <3>2, <3>3, WokenKept DEF Entry, Inbox
  <2>3. QED
    BY <2>1, <2>2
<1>8. ASSUME NEW d \in Polls PROVE FreshInv(d)'
  <2>1. CASE d # c
    <3>1. phase'[d] = phase[d] /\ saw'[d] = saw[d] /\ pushed'[d] = pushed[d]
      BY <1>4, <2>1, CallerPlaces
    <3>2. QED
      BY <1>1, <3>1, FreshKept DEF Moves, AnswerSeen
  <2>2. CASE d = c /\ phase[c] = "getting"
    <3>1. phase'[c] = "got" /\ saw'[c] = value /\ pushed'[c] = pushed[c]
      BY <1>4, <2>2 DEF Registered
    <3>2. FreshInv(c) /\ pushed[c] = <<>>
      BY <2>2, PollFacts DEF Inv, Body, NotRegistered
    <3>3. QED
      BY <1>1, <2>2, <3>1, <3>2 DEF FreshInv, Seen
  <2>3. CASE d = c /\ phase[c] # "getting"
    <3>1. /\ phase[c] \in Registered /\ phase'[c] = phase[c] /\ saw'[c] = saw[c]
          /\ pushed'[c] = Append(pushed[c], value)
      BY <1>4, <2>3
    <3>2. FreshInv(c) /\ pushed[c] \in Seq(Value \cup {Nil})
      BY <2>3, PollFacts DEF Inv, Body
    <3>3. answer[c] = Pending => Seen(c, value)
      BY <2>3, <3>1, <3>2, PollFacts DEF FreshInv, Registered
    <3> HIDE DEF c, value
    <3>4. \A i \in DOMAIN pushed'[c] :
            pushed'[c][i] = value \/ (i \in DOMAIN pushed[c] /\ pushed'[c][i] = pushed[c][i])
      BY <1>3, <3>1, <3>2
    <3>5. /\ store' = store /\ answer'[d] = answer[d] /\ current'[d] = current[d]
          /\ phase'[d] = phase[d] /\ saw'[d] = saw[d] /\ phase[d] \notin NotRegistered
      BY <1>1, <2>3, <3>1 DEF NotRegistered, Registered
    <3>6. answer[d] = Pending => \A i \in DOMAIN pushed'[d] : Seen(d, pushed'[d][i])
      BY <2>3, <3>2, <3>3, <3>4 DEF FreshInv
    <3>7. /\ FreshInv(d)
          /\ answer[d] = Pending => \A i \in DOMAIN pushed'[d] : Seen(d, pushed[d][i])'
      BY <2>3, <3>2, <3>5, <3>6 DEF Seen
    <3>8. QED
      BY <3>5, <3>7 DEF FreshInv, Seen
  <2>4. QED
    BY <2>1, <2>2, <2>3
<1>9. ASSUME NEW k \in Acks PROVE AckInv(k)'
  <2>1. CASE k # c
    BY <1>1, <1>4, <2>1, AckKept, CallerPlaces DEF AckMoves
  <2>2. CASE k = c
    BY <1>1, <1>4, <2>2, PollsAreNotOthers DEF AckInv
  <2>3. QED
    BY <2>1, <2>2
<1>10. QED
  BY <1>5, <1>6, <1>7, <1>8, <1>9 DEF Body

\* Redis announces a write to who is subscribed, and takes no event away.
LEMMA PublishKept ==
  ASSUME TypeOK, NEW a \in Agents, NEW type \in {"set", "del"}, Publish(a, type), NEW c \in Polls
  PROVE  /\ HasSet(Inbox(c)) => HasSet(Inbox(c)')
         /\ type = "set" /\ CallerAgent[c] = a /\ up[CallerProc[c]] /\ Sub(c) => HasSet(Inbox(c)')
<1> DEFINE n1 == Append(Inbox(c), [type |-> type])
<1>1. /\ Cmds(c) \in Seq(Command) /\ Inbox(c) \in Seq(Event)
      /\ CallerProc[c] \in Procs /\ CallerAgent[c] \in Agents
  BY ViewTyped
<1>2. Inbox(c)' = IF CallerAgent[c] = a /\ up[CallerProc[c]] /\ Sub(c) THEN n1 ELSE Inbox(c)
  BY <1>1 DEF Publish, Inbox, Sub
<1>3. (HasSet(Inbox(c)) => HasSet(n1)) /\ (type = "set" => HasSet(n1))
  BY <1>1, PublishLemma
<1>4. QED
  BY <1>2, <1>3

\* Redis executes a SET: the message is on its way to who listens, and is a flag of
\* every poll of its agent.
LEMMA SetBody ==
  ASSUME Inv, NEW p \in Procs, SetExecuted(p)
  PROVE  Body'
<1> DEFINE a == Head(rw[p]).key
           value == Head(rw[p]).value
<1>1. /\ TypeOK /\ rw[p] # <<>> /\ Executed(p) /\ Head(rw[p]).op = "set"
      /\ a \in Agents /\ value \in Value /\ Publish(a, "set")
      /\ store' = [store EXCEPT ![a] = value]
      /\ UNCHANGED <<cmds, subscribed, agentSubscriptions, losses, answer>>
      /\ UNCHANGED <<phase, saw, pushed, ackUtime>>
      /\ woken' = woken \cup {d \in Polls : CallerAgent[d] = a /\ Listening(d)}
  BY HeadOfRw DEF Inv, TypeOK, SetExecuted, RedisSet, HeadIs, serviceVars, boundVars
<1>2. Channels'
  BY <1>1, PublishChannels
<1>3. Requests'
  BY <1>1, ExecuteRequests DEF Steady
<1>4. ASSUME NEW d \in Polls PROVE WokenInv(d)'
  <2>1. CASE d \in woken
    <3>1. HasSet(Inbox(d)) => HasSet(Inbox(d)')
      BY <1>1, PublishKept
    <3>2. Requested(d) => Requested(d)'
      BY <1>1, RequestedKept
    <3>3. QED
      BY <1>1, <2>1, <3>1, <3>2, WokenKept DEF Entry
  <2>2. CASE d \in woken' /\ d \notin woken
    <3>1. CallerAgent[d] = a /\ Listening(d)
      BY <1>1, <2>2
    <3>2. HasSet(Inbox(d)') /\ phase[d] \in Registered
      BY <1>1, <3>1, PublishKept DEF Listening, Sub, Registered
    <3>3. QED
      BY <1>1, <3>2 DEF WokenInv
  <2>3. QED
    BY <2>1, <2>2 DEF WokenInv
<1>5. ASSUME NEW d \in Polls PROVE FreshInv(d)'
  <2>1. /\ current'[d] = IF CallerAgent[d] = a /\ phase[d] \notin {"idle", "over"}
                         THEN current[d] \cup {value} ELSE current[d]
        /\ store'[CallerAgent[d]] = IF CallerAgent[d] = a THEN value ELSE store[CallerAgent[d]]
    BY <1>1, CallerPlaces DEF SetExecuted, TypeOK, RedisTypeOK
  <2>2. FreshInv(d)
    BY DEF Inv, Body
  <2>3. QED
    BY <1>1, <2>1, <2>2 DEF FreshInv, Seen
<1>6. ASSUME NEW k \in Acks PROVE AckInv(k)'
  <2>1. AckInv(k) /\ CallerAgent[k] \in Agents
    BY CallerPlaces DEF Inv, Body
  <2>2. store'[CallerAgent[k]] = IF CallerAgent[k] = a THEN value ELSE store[CallerAgent[k]]
    BY <1>1, <2>1 DEF TypeOK, RedisTypeOK
  <2>3. raced' = raced \cup {d \in Acks : CallerAgent[d] = a /\ phase[d] \in {"got", "deleting"}}
    BY DEF SetExecuted
  <2>4. QED
    BY <1>1, <2>1, <2>2, <2>3 DEF AckInv
<1>7. QED
  BY <1>2, <1>3, <1>4, <1>5, <1>6 DEF Body

\* The DEL redis is about to execute.
LEMMA DelFacts ==
  ASSUME Inv, NEW p \in Procs, DelExecuted(p)
  PROVE  LET k == Head(rw[p]).by IN
         /\ k \in Acks /\ phase[k] = "deleting" /\ Head(rw[p]).key = CallerAgent[k]
         /\ AckInv(k)
<1>1. rw[p] # <<>> /\ Head(rw[p]).op = "del" /\ rw[p] \in Seq(Request)
  BY DEF Inv, TypeOK, RedisTypeOK, DelExecuted, RedisDel, HeadIs
<1>2. 1 \in DOMAIN rw[p] /\ Head(rw[p]) = rw[p][1]
  BY <1>1
<1>3. QED
  BY <1>1, <1>2 DEF Inv, Body, Requests, RequestView

\* Redis executes a DEL.
LEMMA DelBody ==
  ASSUME Inv, NEW p \in Procs, DelExecuted(p)
  PROVE  Body'
<1> DEFINE k == Head(rw[p]).by
           a == Head(rw[p]).key
<1>1. /\ TypeOK /\ rw[p] # <<>> /\ Executed(p) /\ Head(rw[p]).op = "del"
      /\ k \in Acks /\ k \in Callers /\ k \notin Polls /\ phase[k] = "deleting" /\ a \in Agents
      /\ Publish(a, "del") \/ UNCHANGED inbox
      /\ store' = [store EXCEPT ![a] = Nil]
      /\ UNCHANGED <<cmds, subscribed, agentSubscriptions, losses, answer>>
      /\ UNCHANGED <<woken, current, raced, saw, pushed, ackUtime>>
  BY DelFacts, CallerPlaces, PollsAreNotOthers
  DEF Inv, DelExecuted, RedisDel, HeadIs, boundVars, historyVars
<1>2. phase'[k] = "deleted" /\ \A d \in Callers : d # k => phase'[d] = phase[d]
  BY <1>1, OneMoves DEF DelExecuted
<1>3. \A d \in Polls : phase'[d] = phase[d]
  BY <1>1, <1>2, CallerPlaces
<1>4. Channels'
  <2>1. CASE Publish(a, "del")
    BY <1>1, <1>3, <2>1, PublishChannels
  <2>2. CASE UNCHANGED inbox
    BY <1>1, <1>3, <2>2, FrameChannels DEF Stays
  <2>3. QED
    BY <1>1, <2>1, <2>2
<1>5. Requests'
  BY <1>1, <1>2, ExecuteRequests DEF Steady, Awaiting
<1>6. \A d \in Callers : store'[CallerAgent[d]] \in {store[CallerAgent[d]], Nil}
  BY <1>1, CallerPlaces DEF TypeOK, RedisTypeOK
<1>7. ASSUME NEW d \in Polls PROVE WokenInv(d)' /\ FreshInv(d)'
  <2>1. HasSet(Inbox(d)) => HasSet(Inbox(d)')
    <3>1. CASE Publish(a, "del")
      BY <1>1, <3>1, PublishKept
    <3>2. CASE UNCHANGED inbox
      BY <3>2 DEF Inbox
    <3>3. QED
      BY <1>1, <3>1, <3>2
  <2>2. Requested(d) => Requested(d)'
    BY <1>1, RequestedKept
  <2>3. WokenInv(d)'
    BY <1>1, <1>3, <2>1, <2>2, WokenKept DEF Entry
  <2>4. FreshInv(d)'
    BY <1>1, <1>3, <1>6, FreshKept, CallerPlaces DEF Moves, AnswerSeen
  <2>5. QED
    BY <2>3, <2>4
<1>8. ASSUME NEW d \in Acks PROVE AckInv(d)'
  BY <1>1, <1>2, <1>6, AckKept, CallerPlaces DEF AckMoves
<1>9. QED
  BY <1>4, <1>5, <1>7, <1>8 DEF Body

\* The handler of an event takes the callback and asks for the flag: the message goes
\* on as a GET.
LEMMA EventBody ==
  ASSUME Inv, NEW p \in Procs, NEW a \in Agents, OnEvent(p, a)
  PROVE  Body'
<1> DEFINE c == agentSubscriptions[p][a]
           r == [op |-> "get", key |-> a, by |-> c]
<1>1. /\ TypeOK /\ inbox[p][a] # <<>> /\ Dequeue(p, a)
      /\ UNCHANGED <<store, cmds, subscribed, agentSubscriptions, losses, answer, phase>>
      /\ UNCHANGED <<saw, pushed, ackUtime, woken, current, raced>>
  BY DEF Inv, OnEvent, serviceVars, boundVars, historyVars
<1>2. \/ /\ Received(p, a).type = "set" /\ c \in Polls /\ CallerProc[c] = p
         /\ rw' = [rw EXCEPT ![p] = Append(@, r)] /\ r \in Request
      \/ (Received(p, a).type = "set" => c = NoPoll) /\ UNCHANGED rw
  <2>1. CASE Received(p, a).type = "set" /\ c # NoPoll
    <3>1. c \in Polls
      BY <1>1, <2>1 DEF TypeOK
    <3>2. CallerProc[c] = p
      BY <3>1 DEF Inv, Body, Channels, ChannelInv
    <3>3. r \in Request
      BY <3>1, CallerPlaces DEF Request
    <3>4. rw' = [rw EXCEPT ![p] = Append(@, r)]
      BY <2>1 DEF OnEvent, isOurKeyspaceSetNotification, getValue
    <3>5. QED
      BY <2>1, <3>1, <3>2, <3>3, <3>4
  <2>2. CASE ~(Received(p, a).type = "set" /\ c # NoPoll)
    BY <2>2 DEF OnEvent, isOurKeyspaceSetNotification
  <2>3. QED
    BY <2>1, <2>2
<1>3. Channels'
  BY <1>1, DequeueChannels
<1>4. /\ Requests'
      /\ \A d \in Polls : Requested(d) => Requested(d)'
      /\ Received(p, a).type = "set" => \A d \in Polls : d = c => Requested(d)'
  <2>1. CASE /\ Received(p, a).type = "set" /\ c \in Polls /\ CallerProc[c] = p
             /\ rw' = [rw EXCEPT ![p] = Append(@, r)] /\ r \in Request
    <3>1. r.op = "get" /\ r.by = c
      OBVIOUS
    <3>2. phase[c] \in Registered
      BY <2>1, PollFacts DEF Entry, Inv, Body, Channels, ChannelInv
    <3> HIDE DEF r, c
    <3>3. RequestView(p, r, phase'[c]) /\ phase'[c] \notin Awaiting
      BY <1>1, <2>1, <3>1, <3>2 DEF RequestView, Awaiting, Registered
    <3>4. Requests'
      BY <1>1, <2>1, <3>1, <3>3, SendRequests DEF Steady
    <3>5. \A d \in Polls : Requested(d) => Requested(d)'
      BY <1>1, <2>1, RequestedKept
    <3>6. rw'[p] = Append(rw[p], r) /\ rw[p] \in Seq(Request)
      BY <1>1, <2>1 DEF TypeOK, RedisTypeOK
    <3>7. Len(rw[p]) + 1 \in DOMAIN rw'[p] /\ rw'[p][Len(rw[p]) + 1] = r
      BY <2>1, <3>6
    <3>8. ASSUME NEW d \in Polls, d = c PROVE Requested(d)'
      BY <2>1, <3>1, <3>7, <3>8 DEF Requested
    <3>9. QED
      BY <3>4, <3>5, <3>8
  <2>2. CASE (Received(p, a).type = "set" => c = NoPoll) /\ UNCHANGED rw
    BY <1>1, <2>2, FrameRequests, RequestedKept, PollsAreNotOthers DEF Steady
  <2>3. QED
    BY <1>2, <2>1, <2>2
<1>5. ASSUME NEW d \in Polls PROVE WokenInv(d)'
  <2>1. ASSUME Entry(d) = d, HasSet(Inbox(d)) PROVE HasSet(Inbox(d)') \/ Requested(d)'
    <3>1. CASE CallerProc[d] = p /\ CallerAgent[d] = a
      <4>1. /\ Inbox(d) \in Seq(Event) /\ Inbox(d) # <<>> /\ Inbox(d)' = Tail(Inbox(d))
            /\ Head(Inbox(d)) = Received(p, a) /\ Cmds(d) \in Seq(Command)
        BY <1>1, <3>1, ViewTyped DEF TypeOK, RedisTypeOK, Dequeue, Inbox, Received
      <4>2. CASE Received(p, a).type = "set"
        <5>1. d = c
          BY <2>1, <3>1 DEF Entry
        <5>2. QED
          BY <1>4, <4>2, <5>1, Zenon
      <4>3. CASE Received(p, a).type # "set"
        <5>1. HasSet(Inbox(d)) /\ Head(Inbox(d)).type # "set" => HasSet(Tail(Inbox(d)))
          BY <4>1, DequeueLemma
        <5>2. QED
          BY <2>1, <4>1, <4>3, <5>1, Zenon
      <4>4. QED
        BY <4>2, <4>3
    <3>2. CASE ~(CallerProc[d] = p /\ CallerAgent[d] = a)
      <4>1. Inbox(d)' = Inbox(d)
        BY <1>1, <3>2, CallerPlaces DEF TypeOK, RedisTypeOK, Dequeue, Inbox
      <4>2. QED
        BY <2>1, <4>1
    <3>3. QED
      BY <3>1, <3>2
  <2>2. QED
    BY <1>1, <1>4, <2>1, WokenKept DEF Entry
<1>6. ASSUME NEW d \in Polls PROVE FreshInv(d)'
  BY <1>1, FreshKept DEF Moves, AnswerSeen
<1>7. ASSUME NEW k \in Acks PROVE AckInv(k)'
  BY <1>1, AckKept DEF AckMoves
<1>8. QED
  BY <1>3, <1>4, <1>5, <1>6, <1>7 DEF Body

\* A reply on the subscriber connection: the caller that waits for it goes on.
LEMMA ReplyBody ==
  ASSUME Inv, NEW p \in Procs, NEW a \in Agents, OnReply(p, a)
  PROVE  Body'
<1>1. /\ TypeOK /\ inbox[p][a] # <<>> /\ Dequeue(p, a)
      /\ Received(p, a).type \in {"subscribe", "unsubscribe"}
      /\ UNCHANGED <<store, rw, cmds, subscribed, agentSubscriptions, losses, answer>>
      /\ UNCHANGED <<saw, pushed, ackUtime, woken, current, raced>>
  BY DEF Inv, OnReply, boundVars, historyVars
<1>2. \A c \in Callers :
        \/ phase'[c] = phase[c]
        \/ /\ phase[c] = "subscribing" /\ phase'[c] = "arming"
           /\ IsReply(Received(p, a)) /\ Received(p, a).by = c
        \/ phase[c] = "unsubscribing" /\ phase'[c] = "over"
  BY DEF OnReply, At, IsReply
<1>3. \A c \in Polls :
        \/ phase'[c] = phase[c]
        \/ /\ phase[c] = "subscribing" /\ phase'[c] = "arming"
           /\ IsReply(Received(p, a)) /\ Received(p, a).by = c
  BY <1>2, PollFacts DEF NotRegistered, Registered
<1>4. Channels'
  BY <1>1, <1>3, DequeueChannels
<1>5. Requests'
  <2>1. ASSUME NEW c \in Callers PROVE Steady(c)
    <3>1. CASE c \in Polls
      BY <1>3, <3>1 DEF Steady, Registered
    <3>2. CASE c \notin Polls
      BY <1>2, <3>2 DEF Steady, MayRequest, Awaiting
    <3>3. QED
      BY <3>1, <3>2
  <2>2. QED
    BY <1>1, <2>1, FrameRequests
<1>6. ASSUME NEW d \in Polls PROVE WokenInv(d)' /\ FreshInv(d)'
  <2>1. HasSet(Inbox(d)) => HasSet(Inbox(d)')
    <3>1. CASE CallerProc[d] = p /\ CallerAgent[d] = a
      <4>1. /\ Inbox(d) \in Seq(Event) /\ Inbox(d) # <<>> /\ Inbox(d)' = Tail(Inbox(d))
            /\ Head(Inbox(d)).type # "set" /\ Cmds(d) \in Seq(Command)
        BY <1>1, <3>1, ViewTyped DEF TypeOK, RedisTypeOK, Dequeue, Inbox, Received
      <4>2. QED
        BY <4>1, DequeueLemma
    <3>2. CASE ~(CallerProc[d] = p /\ CallerAgent[d] = a)
      BY <1>1, <3>2, CallerPlaces DEF TypeOK, RedisTypeOK, Dequeue, Inbox
    <3>3. QED
      BY <3>1, <3>2
  <2>2. Requested(d) => Requested(d)'
    BY <1>1, RequestedKept
  <2>3. phase[d] \in Registered => phase'[d] \in Registered
    BY <1>3 DEF Registered
  <2>4. WokenInv(d)'
    BY <1>1, <2>1, <2>2, <2>3, WokenKept DEF Entry
  <2>5. FreshInv(d)'
    BY <1>1, <1>3, FreshKept DEF Moves, AnswerSeen
  <2>6. QED
    BY <2>4, <2>5
<1>7. ASSUME NEW k \in Acks PROVE AckInv(k)'
  BY <1>1, <1>2, AckKept, CallerPlaces DEF AckMoves
<1>8. QED
  BY <1>4, <1>5, <1>6, <1>7 DEF Body

\* Redis executes a command of the subscriber connection.
LEMMA CommandBody ==
  ASSUME Inv, NEW p \in Procs, NEW a \in Agents, CommandExecuted(p, a)
  PROVE  Body'
<1>1. /\ TypeOK /\ cmds[p][a] # <<>>
      /\ inbox' = [inbox EXCEPT ![p][a] = Append(@, ReplyTo(Head(cmds[p][a])))]
      /\ UNCHANGED <<store, rw, agentSubscriptions, answer, phase>>
      /\ UNCHANGED <<saw, pushed, ackUtime, woken, current, raced>>
  BY DEF Inv, CommandExecuted, RedisCommand, ReplyTo, serviceVars, boundVars, historyVars
<1>2. Channels'
  BY CommandChannels
<1>3. Requests'
  BY <1>1, FrameRequests DEF Steady
<1>4. ASSUME NEW d \in Polls PROVE WokenInv(d)' /\ FreshInv(d)'
  <2>1. HasSet(Inbox(d)) => HasSet(Inbox(d)')
    <3>1. CASE CallerProc[d] = p /\ CallerAgent[d] = a
      <4>1. /\ Inbox(d)' = Append(Inbox(d), ReplyTo(Head(Cmds(d))))
            /\ Inbox(d) \in Seq(Event) /\ Cmds(d) \in Seq(Command) /\ Cmds(d) # <<>>
        BY <1>1, <3>1, ViewTyped DEF TypeOK, RedisTypeOK, Inbox, Cmds
      <4>2. QED
        BY <4>1, ExecuteLemma
    <3>2. CASE ~(CallerProc[d] = p /\ CallerAgent[d] = a)
      BY <1>1, <3>2, CallerPlaces DEF TypeOK, RedisTypeOK, Inbox
    <3>3. QED
      BY <3>1, <3>2
  <2>2. Requested(d) => Requested(d)'
    BY <1>1, RequestedKept
  <2>3. WokenInv(d)'
    BY <1>1, <2>1, <2>2, WokenKept DEF Entry
  <2>4. FreshInv(d)'
    BY <1>1, FreshKept DEF Moves, AnswerSeen
  <2>5. QED
    BY <2>3, <2>4
<1>5. ASSUME NEW k \in Acks PROVE AckInv(k)'
  BY <1>1, AckKept DEF AckMoves
<1>6. QED
  BY <1>2, <1>3, <1>4, <1>5 DEF Body

\* A message is flagged: its SET is sent.
LEMMA FlagBody ==
  ASSUME Inv, NEW p \in Procs, NEW a \in Agents, flagNewMessage(p, a)
  PROVE  Body'
<1> DEFINE r == [op |-> "set", key |-> a, value |-> clock]
<1>1. /\ TypeOK /\ r \in Request /\ r.op = "set"
      /\ rw' = [rw EXCEPT ![p] = Append(@, r)]
      /\ UNCHANGED <<store, cmds, inbox, subscribed, agentSubscriptions, losses, answer>>
      /\ UNCHANGED <<phase, saw, pushed, ackUtime, woken, current, raced>>
  BY DEF Inv, TypeOK, flagNewMessage, setValue, Request, serviceVars, historyVars
<1>2. Channels'
  BY <1>1, FrameChannels DEF Stays
<1>3. Requests'
  BY <1>1, SendRequests DEF Steady
<1>4. /\ \A d \in Polls : WokenInv(d)' /\ FreshInv(d)'
      /\ \A k \in Acks : AckInv(k)'
  <2>1. ASSUME NEW d \in Polls, Requested(d) PROVE Requested(d)'
    BY <1>1, <2>1, RequestedKept
  <2>2. QED
    BY <1>1, <2>1, FrameRest DEF Moves, AnswerSeen, AckMoves, Entry
<1>5. QED
  BY <1>2, <1>3, <1>4 DEF Body

\* A lost connection takes the events with it, and nobody of the process is woken.
LEMMA LoseBody ==
  ASSUME Inv, NEW p \in Procs, LoseConnection(p)
  PROVE  Body'
<1>1. /\ TypeOK /\ inbox' = [inbox EXCEPT ![p] = [a \in Agents |-> <<>>]]
      /\ UNCHANGED <<store, rw, agentSubscriptions, saw, pushed, ackUtime, current, raced>>
      /\ woken' = {c \in woken : CallerProc[c] # p}
  BY DEF Inv, LoseConnection, ConnectionLost
<1>2. \A c \in Callers :
        \/ phase'[c] = phase[c] /\ (c \in Polls => answer'[c] = answer[c])
        \/ /\ phase[c] \in {"subscribing", "unsubscribing"} /\ phase'[c] = "over"
           /\ c \in Polls => answer'[c] = Failed
  BY DEF LoseConnection
<1>3. \A c \in Polls : Moves(c) /\ AnswerSeen(c)
  BY <1>2, PollFacts, AnswersDiffer
  DEF Moves, AnswerSeen, Seen, NotRegistered, Registered
<1>4. Channels'
  BY LoseChannels
<1>5. Requests'
  <2>1. ASSUME NEW c \in Callers PROVE Steady(c)
    BY <1>2 DEF Steady, MayRequest, Awaiting, Registered
  <2>2. QED
    BY <1>1, <2>1, FrameRequests
<1>6. ASSUME NEW d \in Polls PROVE WokenInv(d)' /\ FreshInv(d)'
  <2>1. d \in woken' => d \in woken /\ Inbox(d)' = Inbox(d)
    BY <1>1, CallerPlaces DEF Inbox, TypeOK, RedisTypeOK
  <2>2. Requested(d) => Requested(d)'
    BY <1>1, RequestedKept
  <2>3. phase[d] \in Registered => phase'[d] \in Registered
    BY <1>3 DEF Moves, Registered
  <2>4. WokenInv(d)'
    BY <1>1, <2>1, <2>2, <2>3, WokenKept DEF Entry
  <2>5. FreshInv(d)'
    BY <1>1, <1>3, FreshKept
  <2>6. QED
    BY <2>4, <2>5
<1>7. ASSUME NEW k \in Acks PROVE AckInv(k)'
  <2>1. phase'[k] = phase[k] \/ phase'[k] = "over"
    BY <1>2, CallerPlaces
  <2>2. QED
    BY <1>1, <2>1, AckKept DEF AckMoves
<1>8. QED
  BY <1>4, <1>5, <1>6, <1>7 DEF Body

\* A crash ends what its process had started and takes what was on its way.
LEMMA CrashBody ==
  ASSUME Inv, NEW p \in Procs, Crash(p)
  PROVE  Body'
<1>1. /\ TypeOK /\ inbox' = [inbox EXCEPT ![p] = [a \in Agents |-> <<>>]]
      /\ rw' = [rw EXCEPT ![p] = <<>>]
      /\ agentSubscriptions' = [agentSubscriptions EXCEPT ![p] = [a \in Agents |-> NoPoll]]
      /\ UNCHANGED <<store, saw, ackUtime, current, raced>>
      /\ woken' = {c \in woken : CallerProc[c] # p}
  BY DEF Inv, Crash, ProcessLost
<1>2. \A c \in Callers :
        \/ phase'[c] = phase[c]
        \/ CallerProc[c] = p /\ phase'[c] = "over"
  BY DEF Crash
<1>3. /\ rw'[p] = <<>> /\ \A q \in Procs : q # p => rw'[q] = rw[q]
      /\ \A c \in Polls : CallerProc[c] # p =>
           Inbox(c)' = Inbox(c) /\ Entry(c)' = Entry(c)
  BY <1>1, CallerPlaces DEF TypeOK, RedisTypeOK, Inbox, Entry
<1>4. Channels'
  BY CrashChannels
<1>5. Requests'
  <2> SUFFICES ASSUME NEW q \in Procs, NEW i \in DOMAIN rw'[q], rw'[q][i].op # "set"
               PROVE  /\ RequestView(q, rw'[q][i], phase'[rw'[q][i].by])
                      /\ \A j \in DOMAIN rw'[q] :
                           /\ rw'[q][j].op # "set" /\ rw'[q][j].by = rw'[q][i].by
                           /\ phase'[rw'[q][i].by] \in Awaiting
                           => i = j
    BY DEF Requests, RequestView
  <2>1. q # p /\ rw'[q] = rw[q]
    BY <1>3
  <2>2. rw[q][i].by \in Callers /\ CallerProc[rw[q][i].by] = q
    BY <2>1, RequestKept
  <2>3. phase'[rw[q][i].by] = phase[rw[q][i].by]
    BY <1>2, <2>1, <2>2
  <2>4. QED
    BY <2>1, <2>3 DEF Inv, Body, Requests
<1>6. ASSUME NEW d \in Polls PROVE WokenInv(d)' /\ FreshInv(d)'
  <2>1. CASE CallerProc[d] = p /\ phase[d] # "idle"
    <3>1. /\ phase'[d] = "over" /\ pushed'[d] = <<>>
          /\ answer'[d] = IF answer[d] = Pending THEN Failed ELSE answer[d]
      BY <2>1, CrashedPolls
    <3>2. d \notin woken' /\ FreshInv(d) /\ saw'[d] = saw[d] /\ current'[d] = current[d]
      BY <1>1, <2>1 DEF Inv, Body
    <3>3. phase'[d] # "idle" /\ AnswerSeen(d) /\ (phase[d] = "getting" \/ Moves(d))
      BY <2>1, <3>1, PollFacts, AnswersDiffer
      DEF AnswerSeen, Seen, Moves, NotRegistered, Registered
    <3>4. QED
      BY <3>1, <3>2, <3>3 DEF WokenInv, FreshInv, Seen, NotRegistered, AnswerSeen
  <2>2. CASE ~(CallerProc[d] = p /\ phase[d] # "idle")
    <3>1. Stays(d) /\ pushed'[d] = pushed[d]
      BY <2>2, CrashedPolls
    <3>2. FreshInv(d)'
      BY <1>1, <3>1, FreshKept DEF Moves, AnswerSeen, Stays
    <3>3. CallerProc[d] # p => (Requested(d) => Requested(d)')
      BY <1>3, CallerPlaces DEF Requested
    <3>4. WokenInv(d)'
      BY <1>1, <1>3, <3>1, <3>3, WokenKept DEF Stays, WokenInv
    <3>5. QED
      BY <3>2, <3>4
  <2>3. QED
    BY <2>1, <2>2
<1>7. ASSUME NEW k \in Acks PROVE AckInv(k)'
  <2>1. phase'[k] = phase[k] \/ phase'[k] = "over"
    BY <1>2, CallerPlaces
  <2>2. QED
    BY <1>1, <2>1, AckKept DEF AckMoves
<1>8. QED
  BY <1>4, <1>5, <1>6, <1>7 DEF Body

\* Time passes, a connection comes back, or nothing happens.
LEMMA QuietBody ==
  ASSUME Inv, Tick \/ (\E p \in Procs : Reconnect(p)) \/ UNCHANGED vars
  PROVE  Body'
<1>1. /\ TypeOK
      /\ UNCHANGED <<store, rw, cmds, inbox, subscribed, agentSubscriptions, losses, answer>>
      /\ UNCHANGED <<phase, saw, pushed, ackUtime, woken, current, raced>>
  BY DEF Inv, Tick, Reconnect, Reconnected, vars, redisVars, serviceVars, boundVars, historyVars
<1>2. Channels'
  BY <1>1, FrameChannels DEF Stays
<1>3. Requests'
  BY <1>1, FrameRequests DEF Steady
<1>4. \A d \in Polls : Requested(d) => Requested(d)'
  BY <1>1, RequestedKept
<1>5. /\ \A d \in Polls : WokenInv(d)' /\ FreshInv(d)'
      /\ \A k \in Acks : AckInv(k)'
  BY <1>1, <1>4, FrameRest DEF Moves, AnswerSeen, AckMoves, Entry
<1>6. QED
  BY <1>2, <1>3, <1>5 DEF Body

\* The invariant holds at first, when nothing is on its way.
LEMMA InitInv == Init => Inv
<1> SUFFICES ASSUME Init PROVE Inv
  OBVIOUS
<1>1. TypeOK
  BY InitTyped
<1>2. /\ \A p \in Procs : rw[p] = <<>>
      /\ \A p \in Procs, a \in Agents :
           cmds[p][a] = <<>> /\ inbox[p][a] = <<>> /\ ~subscribed[p][a]
           /\ agentSubscriptions[p][a] = NoPoll
      /\ \A c \in Callers : phase[c] = "idle"
      /\ \A c \in Polls : answer[c] = Pending /\ pushed[c] = <<>> /\ c \notin woken
  BY CallerPlaces DEF Init, RedisInit
<1>3. Channels
  <2>1. ASSUME NEW c \in Polls PROVE PollInv(c)
    <3>1. Cmds(c) = <<>> /\ Inbox(c) = <<>> /\ Entry(c) = NoPoll
      BY <1>2, CallerPlaces DEF Cmds, Inbox, Entry
    <3>2. QED
      BY <1>2, <3>1, CallerPlaces, EmptyLemma, PollsAreNotOthers
      DEF PollInv, PollView, NotRegistered, Registered
  <2>2. ASSUME NEW p \in Procs, NEW a \in Agents PROVE ChannelInv(p, a)
    BY <1>2, EmptyLemma, PollsAreNotOthers DEF ChannelInv
  <2>3. QED
    BY <2>1, <2>2 DEF Channels
<1>4. Requests
  BY <1>2 DEF Requests
<1>5. ASSUME NEW c \in Polls PROVE WokenInv(c) /\ FreshInv(c)
  BY <1>2, CallerPlaces, AnswersDiffer DEF WokenInv, FreshInv, Seen
<1>6. ASSUME NEW k \in Acks PROVE AckInv(k)
  BY <1>2, CallerPlaces DEF AckInv
<1>7. QED
  BY <1>1, <1>3, <1>4, <1>5, <1>6 DEF Inv, Body

\* Every step keeps the invariant.
LEMMA StepInv == ASSUME Inv, [Next]_vars PROVE Inv'
<1>1. TypeOK'
  BY StepTyped DEF Inv
<1>2. Body'
  BY StartBody, PollStepBody, CallBackBody, AckBody, GetBody, SetBody, DelBody, EventBody,
     ReplyBody, CommandBody, FlagBody, LoseBody, CrashBody, QuietBody
  DEF Next, RedisStep
<1>3. QED
  BY <1>1, <1>2 DEF Inv

\* The invariant holds in every state the service reaches.
THEOREM Invariance == Spec => []Inv
  BY InitInv, StepInv, PTL DEF Spec

-----------------------------------------------------------------------------
(* What it is for.                                                         *)

\* A poll is only answered with a time that was the flag of its agent during the poll
\* (service-new-messages-v2.js:37-53, longpoll-v2.js:29-43).
THEOREM AnswersAreFresh == Spec => []AnswerFresh
<1>1. Inv => AnswerFresh
  BY DEF Inv, Body, FreshInv, Seen, AnswerFresh
<1>2. QED
  BY <1>1, Invariance, PTL

\* The map of callbacks and the subscriptions of redis agree once redis has caught up
\* (service-new-messages-v2.js:55-94,115-121).
THEOREM SubscriptionsAgree == Spec => []SubscriptionAgreement
<1>1. Inv => SubscriptionAgreement
  <2> SUFFICES ASSUME Inv, NEW p \in Procs, NEW a \in Agents
               PROVE  /\ losses[p] = 0 => (Intended(cmds[p][a], subscribed[p][a])
                                             <=> agentSubscriptions[p][a] # NoPoll)
                      /\ \A c \in Polls : agentSubscriptions[p][a] = c /\ ~At(c, "over") =>
                           Intended(cmds[p][a], subscribed[p][a])
    BY DEF SubscriptionAgreement
  <2>1. ChannelInv(p, a) /\ \A c \in Polls : PollInv(c)
    BY DEF Inv, Body, Channels
  <2>2. ASSUME NEW c \in Polls, agentSubscriptions[p][a] = c, ~At(c, "over")
        PROVE  Intended(cmds[p][a], subscribed[p][a])
    <3>1. CallerProc[c] = p /\ CallerAgent[c] = a
      BY <2>1, <2>2 DEF ChannelInv
    <3>2. QED
      BY <2>1, <2>2, <3>1 DEF PollInv, PollView, Entry, Cmds, Sub, At
  <2>3. QED
    BY <2>1, <2>2 DEF ChannelInv
<1>2. QED
  BY <1>1, Invariance, PTL

\* A message flagged after a poll's SUBSCRIBE was executed stays on its way to it: as
\* an event, as the GET of its handler or as what that returned
\* (service-new-messages-v2.js:37-53).
THEOREM WakeupsReachPolls == Spec => []WakeupNotLost
<1>1. Inv => WakeupNotLost
  <2> SUFFICES ASSUME Inv, NEW c \in woken, Entry(c) = c
               PROVE  HasSet(Inbox(c)) \/ Requested(c) \/ pushed[c] # <<>>
    BY DEF WakeupNotLost, HasSet, Inbox, Requested
  <2>1. c \in Polls
    BY DEF Inv, TypeOK
  <2>2. QED
    BY <2>1 DEF Inv, Body, WokenInv
<1>2. QED
  BY <1>1, Invariance, PTL

\* An ack erases a flag later than its own time only if that flag was set between the
\* GET and the DEL of the ack (service-new-messages-v2.js:96-121).
THEOREM LaterFlagOnlyByRace == Spec => LaterFlagLostOnlyByRace
<1> DEFINE A == \A p \in Procs : DelExecuted(p) =>
       LET del == Head(rw[p]) IN
         store[del.key] \in Value /\ store[del.key] > ackUtime[del.by] => del.by \in raced
<1>1. Inv /\ [Next]_vars => [A]_vars
  <2> SUFFICES ASSUME Inv, NEW p \in Procs, DelExecuted(p),
                      store[Head(rw[p]).key] \in Value,
                      store[Head(rw[p]).key] > ackUtime[Head(rw[p]).by]
               PROVE  Head(rw[p]).by \in raced
    OBVIOUS
  <2> DEFINE k == Head(rw[p]).by
             a == Head(rw[p]).key
  <2>1. /\ k \in Acks /\ phase[k] = "deleting" /\ a = CallerAgent[k] /\ AckInv(k)
        /\ ackUtime[k] \in Nat
    BY DelFacts, TimesAreValues DEF Inv, TypeOK
  <2>2. SUFFICES ASSUME k \notin raced PROVE FALSE
    OBVIOUS
  <2>3. store[a] = saw[k] /\ saw[k] \in Nat /\ ackUtime[k] >= saw[k]
    BY <2>1, <2>2, ValueAssumption, TimesAreValues DEF AckInv
  <2>4. QED
    BY <2>1, <2>3
<1>2. QED
  BY Invariance, <1>1, PTL DEF Spec, LaterFlagLostOnlyByRace

-----------------------------------------------------------------------------
(* The service implements LongPollV2.  A poll is settled exactly when it   *)
(* is over, and one that has read a flag does nothing but answer with it.  *)

Waits(c) ==
  /\ answer[c] # Pending => phase[c] = "over"
  /\ saw[c] # Nil => phase[c] \in {"got", "over"}

WaitInv == \A c \in Polls : Waits(c)

GetsOf(c) == Cardinality(Gets(rw[CallerProc[c]], c))

Implemented == [LP!Next]_(LP!vars)

\* The steps of LongPollV2 on these values, and its stuttering.
LEMMA Stutters ==
  ASSUME UNCHANGED <<store, StartedPolls, answer, FoundFlags, current, OnTheWay, Calls>>
  PROVE  Implemented
  BY DEF Implemented, LP!vars

\* A poll is started.
LEMMA Starts ==
  ASSUME NEW c \in Polls, c \notin StartedPolls, StartedPolls' = StartedPolls \cup {c},
         current' = [current EXCEPT ![c] = {store[CallerAgent[c]]} \ {Nil}],
         UNCHANGED <<store, answer, FoundFlags, OnTheWay, Calls>>
  PROVE  Implemented
<1>1. LP!Start(c)
  BY DEF LP!Start
<1>2. QED
  BY <1>1 DEF LP!Next, Implemented

\* It reads the flag.
LEMMA ReadsFlag ==
  ASSUME NEW c \in Polls, c \in StartedPolls, answer[c] = Pending, FoundFlags[c] = Nil,
         FoundFlags' = [FoundFlags EXCEPT ![c] = store[CallerAgent[c]]],
         UNCHANGED <<store, StartedPolls, answer, current, OnTheWay, Calls>>
  PROVE  Implemented
<1>1. LP!ReadFlag(c)
  BY DEF LP!ReadFlag, LP!Waiting
<1>2. QED
  BY <1>1 DEF LP!Next, Implemented

\* It is answered with the flag it has read, or times out without one.
LEMMA Answers ==
  ASSUME NEW c \in Polls, c \in StartedPolls, answer[c] = Pending,
         \/ FoundFlags[c] \in current[c] /\ answer' = [answer EXCEPT ![c] = FoundFlags[c]]
         \/ FoundFlags[c] = Nil /\ answer' = [answer EXCEPT ![c] = NoMessage],
         UNCHANGED <<store, StartedPolls, FoundFlags, current, OnTheWay, Calls>>
  PROVE  Implemented
<1>1. LP!AnswerFound(c) \/ LP!TimeOut(c)
  BY DEF LP!AnswerFound, LP!TimeOut, LP!Waiting
<1>2. QED
  BY <1>1 DEF LP!Next, Implemented

\* A flag goes up and is sent to the processes that listen.
LEMMA Raises ==
  ASSUME NEW a \in Agents, NEW t \in Value, NEW reached \in SUBSET Procs,
         store' = [store EXCEPT ![a] = t],
         current' = [c \in Polls |->
           IF CallerAgent[c] = a /\ c \in StartedPolls /\ answer[c] = Pending
           THEN current[c] \cup {t} ELSE current[c]],
         OnTheWay' = [p \in Procs |-> [b \in Agents |->
           IF b = a /\ p \in reached THEN OnTheWay[p][b] + 1 ELSE OnTheWay[p][b]]],
         UNCHANGED <<StartedPolls, answer, FoundFlags, Calls>>
  PROVE  Implemented
<1>1. LP!Raise(a, t, reached)
  BY DEF LP!Raise, LP!Waiting
<1>2. QED
  BY <1>1 DEF LP!Next, Implemented

\* It goes down.
LEMMA Lowers ==
  ASSUME NEW a \in Agents, store' = [store EXCEPT ![a] = Nil],
         UNCHANGED <<StartedPolls, answer, FoundFlags, current, OnTheWay, Calls>>
  PROVE  Implemented
<1>1. LP!Lower(a)
  BY DEF LP!Lower
<1>2. QED
  BY <1>1 DEF LP!Next, Implemented

\* A flagging reaches a process.
LEMMA WakesUp ==
  ASSUME NEW p \in Procs, NEW a \in Agents, OnTheWay[p][a] > 0,
         OnTheWay' = [OnTheWay EXCEPT ![p][a] = @ - 1],
         \/ UNCHANGED Calls
         \/ \E c \in Polls : /\ c \in StartedPolls /\ CallerProc[c] = p /\ CallerAgent[c] = a
                             /\ Calls' = [Calls EXCEPT ![c] = @ + 1],
         UNCHANGED <<store, StartedPolls, answer, FoundFlags, current>>
  PROVE  Implemented
<1> DEFINE procs == [c \in Polls |-> CallerProc[c]]
           agents == [c \in Polls |-> CallerAgent[c]]
<1>1. \A c \in Polls : procs[c] = CallerProc[c] /\ agents[c] = CallerAgent[c]
  OBVIOUS
<1> HIDE DEF procs, agents
<1>2. \/ UNCHANGED Calls
      \/ \E c \in StartedPolls : /\ procs[c] = p /\ agents[c] = a
                                 /\ Calls' = [Calls EXCEPT ![c] = @ + 1]
  BY <1>1, Zenon
<1>3. LP!Wake(p, a)
  BY <1>2, Zenon DEF LP!Wake, procs, agents
<1>4. QED
  BY <1>3 DEF LP!Next, Implemented

\* A callback answers a poll that still waits.
LEMMA CallsBack ==
  ASSUME NEW c \in Polls, Calls[c] > 0, Calls' = [Calls EXCEPT ![c] = @ - 1],
         c \in StartedPolls,
         \/ answer[c] # Pending /\ UNCHANGED answer
         \/ /\ answer[c] = Pending
            /\ \E t \in current[c] \cup {NotANumber} : answer' = [answer EXCEPT ![c] = t],
         UNCHANGED <<store, StartedPolls, FoundFlags, current, OnTheWay>>
  PROVE  Implemented
<1>1. LP!CallBack(c)
  BY DEF LP!CallBack, LP!Waiting
<1>2. QED
  BY <1>1 DEF LP!Next, Implemented

\* Some polls of a process fail, and what was on its way to it is lost.
LEMMA Fails ==
  ASSUME NEW p \in Procs,
         NEW failed \in SUBSET Polls,
         \A c \in failed : c \in StartedPolls /\ CallerProc[c] = p /\ answer[c] = Pending,
         answer' = [c \in Polls |-> IF c \in failed THEN Failed ELSE answer[c]],
         OnTheWay' = [OnTheWay EXCEPT ![p] = [a \in Agents |-> 0]],
         \/ UNCHANGED Calls
         \/ Calls' = [c \in Polls |-> IF CallerProc[c] = p THEN 0 ELSE Calls[c]],
         UNCHANGED <<store, StartedPolls, FoundFlags, current>>
  PROVE  Implemented
<1> DEFINE procs == [c \in Polls |-> CallerProc[c]]
<1>1. \A c \in Polls : procs[c] = CallerProc[c]
  OBVIOUS
<1> HIDE DEF procs
<1>2. failed \in SUBSET {c \in Polls : procs[c] = p /\ LP!Waiting(c)}
  BY <1>1 DEF LP!Waiting, StartedPolls
<1>3. \/ UNCHANGED Calls
      \/ Calls' = [c \in Polls |-> IF procs[c] = p THEN 0 ELSE Calls[c]]
  BY <1>1
<1>4. LP!Fail(p)
  BY <1>2, <1>3, Zenon DEF LP!Fail, procs
<1>5. QED
  BY <1>4 DEF LP!Next, Implemented

\* What a step does to the GETs of a poll.
LEMMA QueueLemma ==
  ASSUME TypeOK, NEW c \in Polls
  PROVE  /\ GetsOf(c) \in Nat
         /\ UNCHANGED rw => GetsOf(c)' = GetsOf(c)
         /\ \A p \in Procs, r \in Request : rw' = [rw EXCEPT ![p] = Append(@, r)] =>
              GetsOf(c)' = GetsOf(c) + (IF CallerProc[c] = p /\ IsGetOf(r, c) THEN 1 ELSE 0)
         /\ \A p \in Procs : rw[p] # <<>> /\ Executed(p) =>
              /\ GetsOf(c)' \in Nat
              /\ GetsOf(c) = GetsOf(c)'
                   + (IF CallerProc[c] = p /\ IsGetOf(Head(rw[p]), c) THEN 1 ELSE 0)
         /\ \A p \in Procs : rw' = [rw EXCEPT ![p] = <<>>] =>
              GetsOf(c)' = IF CallerProc[c] = p THEN 0 ELSE GetsOf(c)
<1> DEFINE P == CallerProc[c]
           N(q) == Cardinality(Gets(q, c))
<1>1. P \in Procs /\ rw \in [Procs -> Seq(Request)] /\ rw[P] \in Seq(Request)
  BY CallerPlaces DEF TypeOK, RedisTypeOK
<1>2. GetsOf(c) = N(rw[P]) /\ GetsOf(c)' = N(rw'[P])
  BY DEF GetsOf
<1>3. /\ N(rw[P]) \in Nat /\ N(<<>>) = 0
      /\ \A r \in Request : N(Append(rw[P], r)) = N(rw[P]) + (IF IsGetOf(r, c) THEN 1 ELSE 0)
      /\ rw[P] # <<>> => /\ N(Tail(rw[P])) \in Nat
                         /\ N(rw[P]) = N(Tail(rw[P])) + (IF IsGetOf(Head(rw[P]), c) THEN 1 ELSE 0)
  BY <1>1, GetsLemma
<1> HIDE DEF N, P
<1>4. ASSUME NEW p \in Procs, NEW r \in Request, rw' = [rw EXCEPT ![p] = Append(@, r)]
      PROVE  GetsOf(c)' = GetsOf(c) + (IF P = p /\ IsGetOf(r, c) THEN 1 ELSE 0)
  <2>1. rw'[P] = IF P = p THEN Append(rw[P], r) ELSE rw[P]
    BY <1>1, <1>4
  <2>2. QED
    BY <1>2, <1>3, <2>1
<1>5. ASSUME NEW p \in Procs, rw[p] # <<>>, Executed(p)
      PROVE  /\ GetsOf(c)' \in Nat
             /\ GetsOf(c) = GetsOf(c)' + (IF P = p /\ IsGetOf(Head(rw[p]), c) THEN 1 ELSE 0)
  <2>1. rw'[P] = IF P = p THEN Tail(rw[P]) ELSE rw[P]
    BY <1>1, <1>5 DEF Executed
  <2>2. QED
    BY <1>2, <1>3, <1>5, <2>1
<1>6. ASSUME NEW p \in Procs, rw' = [rw EXCEPT ![p] = <<>>]
      PROVE  GetsOf(c)' = IF P = p THEN 0 ELSE GetsOf(c)
  BY <1>1, <1>2, <1>3, <1>6
<1>7. QED
  BY <1>2, <1>3, <1>4, <1>5, <1>6 DEF P

\* A poll that was not started has no GET on its way, one that waits for its own has no other.
LEMMA OwnGet ==
  ASSUME Inv, NEW c \in Polls
  PROVE  /\ phase[c] = "idle" => GetsOf(c) = 0
         /\ \A p \in Procs :
              phase[c] = "getting" /\ CallerProc[c] = p /\ rw[p] # <<>> /\ IsGetOf(Head(rw[p]), c)
                => GetsOf(c) = 1
<1> DEFINE q == rw[CallerProc[c]]
<1>1. CallerProc[c] \in Procs /\ q \in Seq(Request)
  BY CallerPlaces DEF Inv, TypeOK, RedisTypeOK
<1>2. \A i \in Gets(q, c) :
        /\ i \in DOMAIN q /\ q[i].op # "set" /\ q[i].by = c
        /\ phase[c] = "getting" \/ phase[c] \in Registered
        /\ phase[c] = "getting" => \A j \in Gets(q, c) : i = j
  <2>1. ASSUME NEW i \in Gets(q, c)
        PROVE  i \in DOMAIN q /\ q[i].op = "get" /\ q[i].by = c /\ q[i].op # "set"
    BY DEF Gets
  <2>2. \A i \in DOMAIN q : q[i].op # "set" =>
          /\ RequestView(CallerProc[c], q[i], phase[q[i].by])
          /\ \A j \in DOMAIN q : /\ q[j].op # "set" /\ q[j].by = q[i].by
                                 /\ phase[q[i].by] \in Awaiting
                                 => i = j
    BY <1>1 DEF Inv, Body, Requests
  <2> HIDE DEF q
  <2>3. QED
    BY <2>1, <2>2 DEF RequestView, Awaiting
<1>3. ASSUME phase[c] = "idle" PROVE GetsOf(c) = 0
  <2>1. Gets(q, c) = {}
    BY <1>2, <1>3 DEF Registered
  <2>2. QED
    BY <2>1, FS_EmptySet DEF GetsOf
<1>4. ASSUME NEW p \in Procs, phase[c] = "getting", CallerProc[c] = p, rw[p] # <<>>,
             IsGetOf(Head(rw[p]), c)
      PROVE  GetsOf(c) = 1
  <2>1. 1 \in Gets(q, c)
    BY <1>1, <1>4 DEF Gets, IsGetOf
  <2>2. Gets(q, c) = {1}
    BY <1>2, <1>4, <2>1
  <2>3. QED
    BY <2>2, FS_Singleton DEF GetsOf
<1>5. QED
  BY <1>3, <1>4

\* The callbacks on their way to c, as Calls has them.
CallsOf(c) == Len(pushed[c]) + (IF phase[c] = "getting" THEN 0 ELSE GetsOf(c))

\* What the invariants say of one poll.
LEMMA WaitFacts ==
  ASSUME Inv, WaitInv, NEW c \in Polls
  PROVE  /\ TypeOK /\ Waits(c) /\ FreshInv(c)
         /\ c \in StartedPolls <=> phase[c] # "idle"
         /\ answer[c] = Pending <=> phase[c] # "over"
         /\ FoundFlags[c] = saw[c]
         /\ Calls[c] = Len(pushed[c]) + (IF phase[c] = "getting" THEN 0 ELSE GetsOf(c))
         /\ GetsOf(c) \in Nat /\ Len(pushed[c]) \in Nat
         /\ c \in Callers /\ CallerProc[c] \in Procs /\ CallerAgent[c] \in Agents
  BY PollFacts, QueueLemma
  DEF Inv, Body, WaitInv, Waits, StartedPolls, FoundFlags, Calls, GetsOf, At

\* What a step may do to a poll for WaitInv.
Progress(c) ==
  \/ phase'[c] = phase[c] /\ answer'[c] = answer[c] /\ saw'[c] = saw[c]
  \/ phase'[c] = "over" /\ saw'[c] = saw[c]
  \/ phase[c] # "over" /\ answer'[c] = answer[c] /\ (saw'[c] # Nil => phase'[c] = "got")

LEMMA ProgressKept == ASSUME WaitInv, \A c \in Polls : Progress(c) PROVE WaitInv'
  BY DEF WaitInv, Waits, Progress

\* What a step may do to a poll without its caller or the abstract poll noticing.
Quietly(c) ==
  /\ answer'[c] = answer[c] /\ saw'[c] = saw[c] /\ pushed'[c] = pushed[c]
  /\ GetsOf(c)' = GetsOf(c)
  /\ \/ phase'[c] = phase[c]
     \/ /\ phase[c] \notin {"idle", "getting", "over"} /\ phase'[c] \notin {"idle", "getting"}
        /\ saw[c] = Nil

\* The images of polls that move quietly.
LEMMA QuietImage ==
  ASSUME \A c \in Polls : Quietly(c)
  PROVE  UNCHANGED <<StartedPolls, FoundFlags, Calls>>
<1>1. UNCHANGED StartedPolls
  BY DEF StartedPolls, Quietly, At
<1>2. UNCHANGED FoundFlags
  BY DEF FoundFlags, Quietly
<1>3. Calls = [c \in Polls |-> CallsOf(c)] /\ Calls' = [c \in Polls |-> CallsOf(c)']
  BY DEF Calls, CallsOf, GetsOf, At
<1>4. \A c \in Polls : CallsOf(c)' = CallsOf(c)
  BY DEF Quietly, CallsOf
<1>5. QED
  BY <1>1, <1>2, <1>3, <1>4

\* A step in which every poll moves quietly is none of LongPollV2.
LEMMA SilentStep ==
  ASSUME Inv, WaitInv, UNCHANGED <<store, answer, current, OnTheWay>>, \A c \in Polls : Quietly(c)
  PROVE  WaitInv' /\ Implemented
<1>1. \A c \in Polls : Progress(c)
  BY DEF Quietly, Progress
<1>2. QED
  BY <1>1, ProgressKept, QuietImage, Stutters

\* One poll ends, the others move quietly.
LEMMA OneEnds ==
  ASSUME Inv, WaitInv, NEW c \in Polls, phase[c] # "idle", phase'[c] = "over",
         phase[c] # "getting", saw'[c] = saw[c], pushed'[c] = pushed[c], GetsOf(c)' = GetsOf(c),
         \A d \in Polls : d # c => Quietly(d)
  PROVE  WaitInv' /\ UNCHANGED <<StartedPolls, FoundFlags, Calls>>
<1>1. \A d \in Polls : Progress(d)
  BY DEF Quietly, Progress
<1>2. UNCHANGED StartedPolls /\ UNCHANGED FoundFlags
  BY DEF StartedPolls, FoundFlags, Quietly, At
<1>3. Calls = [d \in Polls |-> CallsOf(d)] /\ Calls' = [d \in Polls |-> CallsOf(d)']
  BY DEF Calls, CallsOf, GetsOf, At
<1>4. \A d \in Polls : CallsOf(d)' = CallsOf(d)
  BY DEF Quietly, CallsOf
<1>5. QED
  BY <1>1, <1>2, <1>3, <1>4, ProgressKept


\* What becomes of the images when one poll moves and the others do so quietly.
LEMMA OneChanges ==
  ASSUME NEW c \in Polls, \A d \in Polls : d # c => Quietly(d)
  PROVE  /\ Calls' = [Calls EXCEPT ![c] = CallsOf(c)']
         /\ CallsOf(c)' = Calls[c] => UNCHANGED Calls
         /\ FoundFlags' = [FoundFlags EXCEPT ![c] = saw'[c]]
         /\ saw'[c] = saw[c] => UNCHANGED FoundFlags
         /\ phase[c] # "idle" /\ phase'[c] # "idle" => UNCHANGED StartedPolls
         /\ phase[c] = "idle" /\ phase'[c] # "idle" => StartedPolls' = StartedPolls \cup {c}
<1>1. Calls = [d \in Polls |-> CallsOf(d)] /\ Calls' = [d \in Polls |-> CallsOf(d)']
  BY DEF Calls, CallsOf, GetsOf, At
<1>2. ASSUME NEW d \in Polls, d # c
      PROVE  /\ CallsOf(d)' = CallsOf(d)
             /\ phase'[d] = "idle" <=> phase[d] = "idle"
             /\ saw'[d] = saw[d]
  BY <1>2 DEF Quietly, CallsOf
<1> HIDE DEF CallsOf
<1>3. Calls' = [Calls EXCEPT ![c] = CallsOf(c)'] /\ (CallsOf(c)' = Calls[c] => UNCHANGED Calls)
  BY <1>1, <1>2
<1>4. /\ FoundFlags' = [FoundFlags EXCEPT ![c] = saw'[c]]
      /\ saw'[c] = saw[c] => UNCHANGED FoundFlags
  BY <1>2 DEF FoundFlags
<1>5. /\ phase[c] # "idle" /\ phase'[c] # "idle" => UNCHANGED StartedPolls
      /\ phase[c] = "idle" /\ phase'[c] # "idle" => StartedPolls' = StartedPolls \cup {c}
  BY <1>2 DEF StartedPolls, At
<1>6. QED
  BY <1>3, <1>4, <1>5

\* A poll starts: its GET is none of a handler.
LEMMA StartImplements ==
  ASSUME Inv, WaitInv, NEW c \in Polls, longpollNotificationsV2(c)
  PROVE  WaitInv' /\ Implemented
<1> DEFINE r == [op |-> "get", key |-> CallerAgent[c], by |-> c]
<1>1. /\ TypeOK /\ c \in Callers /\ CallerProc[c] \in Procs /\ CallerAgent[c] \in Agents
      /\ phase[c] = "idle" /\ answer[c] = Pending /\ pushed[c] = <<>> /\ saw[c] = Nil
  BY PollFacts DEF Inv, longpollNotificationsV2, At, NotRegistered, WaitInv, Waits
<1>2. /\ r \in Request /\ r.by = c
      /\ rw' = [rw EXCEPT ![CallerProc[c]] = Append(@, r)]
      /\ UNCHANGED <<store, inbox, answer, saw, pushed>>
      /\ current' = [current EXCEPT ![c] = {store[CallerAgent[c]]} \ {Nil}]
  BY <1>1 DEF longpollNotificationsV2, getValue, Request
<1>3. phase'[c] = "getting" /\ \A d \in Polls : d # c => phase'[d] = phase[d]
  BY <1>1, OneMoves, CallerPlaces DEF longpollNotificationsV2
<1> HIDE DEF r
<1>4. ASSUME NEW d \in Polls, d # c PROVE Quietly(d)
  <2>1. ~IsGetOf(r, d) /\ GetsOf(d) \in Nat
    BY <1>1, <1>2, <1>4, QueueLemma DEF IsGetOf
  <2>2. GetsOf(d)' = GetsOf(d) + (IF CallerProc[d] = CallerProc[c] /\ IsGetOf(r, d) THEN 1 ELSE 0)
    BY <1>1, <1>2, QueueLemma
  <2>3. QED
    BY <1>2, <1>3, <1>4, <2>1, <2>2 DEF Quietly
<1>5. WaitInv'
  BY <1>1, <1>2, <1>3, <1>4, ProgressKept DEF Progress, Quietly
<1>6. Calls[c] = 0 /\ c \notin StartedPolls
  BY <1>1, WaitFacts, OwnGet
<1>7. StartedPolls' = StartedPolls \cup {c} /\ UNCHANGED <<Calls, FoundFlags, OnTheWay>>
  <2>1. CallsOf(c)' = Calls[c]
    BY <1>1, <1>2, <1>3, <1>6 DEF CallsOf
  <2>2. UNCHANGED OnTheWay
    BY <1>1, <1>2, WayLemma DEF TypeOK
  <2>3. QED
    BY <1>1, <1>2, <1>3, <1>4, <2>1, <2>2, OneChanges
<1>8. QED
  BY <1>2, <1>5, <1>6, <1>7, Starts

\* A poll answers with what it has read or times out; to wait and to set the timer is
\* none of its callers' business.
LEMMA PollStepImplements ==
  ASSUME Inv, WaitInv, NEW c \in Polls, PollStep(c)
  PROVE  WaitInv' /\ Implemented
<1>1. /\ TypeOK /\ c \in Callers /\ UNCHANGED <<store, rw, saw, current, pushed, inbox>>
      /\ \A d \in Polls : GetsOf(d)' = GetsOf(d)
      /\ UNCHANGED OnTheWay
  <2>1. TypeOK /\ c \in Callers /\ UNCHANGED <<store, rw, saw, current, pushed, inbox>>
    BY PollFacts
    DEF Inv, PollStep, AnswerAtOnce, WaitForMessage, SetTimer, reactOnTimeout, redisVars,
        historyVars
  <2>2. QED
    BY <2>1, QueueLemma, WayLemma DEF TypeOK
<1>2. \A d \in Polls : d # c => phase'[d] = phase[d]
  BY <1>1, OneMoves, CallerPlaces DEF PollStep, AnswerAtOnce, WaitForMessage, SetTimer, reactOnTimeout
<1>3. CASE WaitForMessage(c) \/ SetTimer(c)
  <2>1. /\ UNCHANGED answer /\ saw[c] = Nil
        /\ phase[c] \in {"got", "arming"} /\ phase'[c] \in {"subscribing", "armed"}
    BY <1>1, <1>3, OneMoves DEF WaitForMessage, SetTimer, At, WaitInv, Waits
  <2>2. \A d \in Polls : Quietly(d)
    BY <1>1, <1>2, <2>1 DEF Quietly
  <2>3. QED
    BY <1>1, <2>1, <2>2, SilentStep
<1>4. CASE AnswerAtOnce(c) \/ reactOnTimeout(c)
  <2>1. /\ phase[c] \in {"got", "armed"} /\ phase'[c] = "over" /\ answer[c] = Pending
    BY <1>1, <1>4, OneMoves, WaitFacts DEF AnswerAtOnce, reactOnTimeout, At
  <2>2. \/ FoundFlags[c] \in current[c] /\ answer' = [answer EXCEPT ![c] = FoundFlags[c]]
        \/ FoundFlags[c] = Nil /\ answer' = [answer EXCEPT ![c] = NoMessage]
    <3>1. CASE AnswerAtOnce(c)
      <4>1. phase[c] = "got" /\ saw[c] \in Value /\ FoundFlags[c] = saw[c]
        BY <3>1, WaitFacts DEF AnswerAtOnce, At, TypeOK
      <4>2. saw[c] \in current[c]
        BY <4>1, WaitFacts DEF FreshInv, Seen
      <4>3. QED
        BY <2>1, <3>1, <4>1, <4>2 DEF AnswerAtOnce, Resolve
    <3>2. CASE reactOnTimeout(c)
      <4>1. phase[c] = "armed" /\ FoundFlags[c] = Nil
        BY <3>2, WaitFacts DEF reactOnTimeout, At, Waits
      <4>2. QED
        BY <2>1, <3>2, <4>1 DEF reactOnTimeout, Resolve
    <3>3. QED
      BY <1>4, <3>1, <3>2
  <2>3. ASSUME NEW d \in Polls, d # c PROVE Quietly(d)
    BY <1>1, <1>2, <2>2, <2>3 DEF Quietly, TypeOK
  <2>4. WaitInv' /\ UNCHANGED <<StartedPolls, FoundFlags, Calls>>
    BY <1>1, <2>1, <2>3, OneEnds
  <2>5. c \in StartedPolls
    BY <2>1, WaitFacts
  <2>6. QED
    BY <1>1, <2>1, <2>2, <2>4, <2>5, Answers
<1>5. QED
  BY <1>3, <1>4 DEF PollStep

\* A handler calls back the poll it has read the flag for.
LEMMA CallBackImplements ==
  ASSUME Inv, WaitInv, NEW c \in Polls, CallBack(c)
  PROVE  WaitInv' /\ Implemented
<1> DEFINE result == parsed(Head(pushed[c]))
<1>1. /\ TypeOK /\ c \in Callers /\ UNCHANGED <<store, rw, saw, current, inbox>>
      /\ pushed[c] # <<>> /\ pushed' = [pushed EXCEPT ![c] = Tail(@)]
      /\ phase[c] \in Registered
      /\ \A d \in Polls : GetsOf(d)' = GetsOf(d)
      /\ UNCHANGED OnTheWay
  <2>1. /\ TypeOK /\ c \in Callers /\ UNCHANGED <<store, rw, saw, current, inbox>>
        /\ pushed[c] # <<>> /\ pushed' = [pushed EXCEPT ![c] = Tail(@)]
        /\ phase[c] \in Registered
    BY PollFacts DEF Inv, CallBack, historyVars
  <2>2. QED
    BY <2>1, QueueLemma, WayLemma DEF TypeOK
<1>2. /\ Len(pushed'[c]) = Len(pushed[c]) - 1 /\ Len(pushed[c]) \in Nat \ {0}
      /\ \A d \in Polls : d # c => pushed'[d] = pushed[d]
  BY <1>1 DEF TypeOK
<1>3. phase[c] \notin {"idle", "getting", "got"} /\ c \in StartedPolls
  BY <1>1, WaitFacts DEF Registered
<1>4. CASE wasResponseSent(c)
  <2>1. UNCHANGED <<answer, phase>> /\ answer[c] # Pending
    BY <1>4 DEF CallBack, reactOnNewMessage, wasResponseSent
  <2>2. ASSUME NEW d \in Polls, d # c PROVE Quietly(d)
    BY <1>1, <1>2, <2>1, <2>2 DEF Quietly
  <2>3. WaitInv'
    BY <1>1, <2>1, ProgressKept DEF Progress
  <2>4. /\ Calls[c] > 0 /\ Calls' = [Calls EXCEPT ![c] = @ - 1]
        /\ UNCHANGED <<FoundFlags, StartedPolls>>
    <3>1. CallsOf(c)' = Calls[c] - 1 /\ Calls[c] > 0
      BY <1>1, <1>2, <1>3, <2>1, WaitFacts DEF CallsOf
    <3>2. phase[c] # "idle" /\ phase'[c] # "idle" /\ saw'[c] = saw[c]
      BY <1>1, <1>3, <2>1
    <3>3. QED
      BY <2>2, <3>1, <3>2, OneChanges
  <2>5. QED
    BY <1>1, <1>3, <2>1, <2>3, <2>4, CallsBack
<1>5. CASE ~wasResponseSent(c)
  <2>1. /\ Resolve(c, result) /\ phase' = [phase EXCEPT ![c] = "over"]
    BY <1>5 DEF CallBack, reactOnNewMessage
  <2>2. phase'[c] = "over" /\ \A d \in Polls : d # c => phase'[d] = phase[d]
    BY <1>1, <2>1, OneMoves, CallerPlaces
  <2>3. \/ answer[c] # Pending /\ UNCHANGED answer
        \/ /\ answer[c] = Pending
           /\ \E t \in current[c] \cup {NotANumber} : answer' = [answer EXCEPT ![c] = t]
    <3>1. ASSUME answer[c] = Pending PROVE result \in current[c] \cup {NotANumber}
      <4>1. /\ Head(pushed[c]) = pushed[c][1] /\ 1 \in DOMAIN pushed[c]
            /\ Head(pushed[c]) \in Value \cup {Nil}
        BY <1>1, PollFacts
      <4>2. Seen(c, Head(pushed[c]))
        BY <3>1, <4>1, WaitFacts DEF FreshInv
      <4>3. QED
        BY <4>1, <4>2 DEF parsed, Seen
    <3> HIDE DEF result
    <3>2. QED
      BY <1>1, <2>1, <3>1 DEF Resolve, TypeOK
  <2>4. ASSUME NEW d \in Polls, d # c PROVE Quietly(d)
    <3>1. answer'[d] = answer[d]
      BY <1>1, <2>1, <2>4 DEF Resolve, TypeOK
    <3>2. QED
      BY <1>1, <1>2, <2>2, <2>4, <3>1 DEF Quietly
  <2>5. WaitInv'
    BY <1>1, <2>2, <2>4, ProgressKept DEF Progress, Quietly
  <2>6. /\ Calls[c] > 0 /\ Calls' = [Calls EXCEPT ![c] = @ - 1]
        /\ UNCHANGED <<FoundFlags, StartedPolls>>
    <3>1. CallsOf(c)' = Calls[c] - 1 /\ Calls[c] > 0
      BY <1>1, <1>2, <1>3, <2>2, WaitFacts DEF CallsOf
    <3>2. phase[c] # "idle" /\ phase'[c] # "idle" /\ saw'[c] = saw[c]
      BY <1>1, <1>3, <2>2
    <3>3. QED
      BY <2>4, <3>1, <3>2, OneChanges
  <2>7. QED
    BY <1>1, <1>3, <2>3, <2>5, <2>6, CallsBack
<1>6. QED
  BY <1>4, <1>5

\* A step of a process that sends or executes a request of somebody else.
LEMMA ForeignRequest ==
  ASSUME TypeOK, NEW p \in Procs, NEW r, NEW d \in Polls, ~IsGetOf(r, d),
         \/ UNCHANGED rw
         \/ r \in Request /\ rw' = [rw EXCEPT ![p] = Append(@, r)]
         \/ rw[p] # <<>> /\ Head(rw[p]) = r /\ Executed(p)
  PROVE  GetsOf(d)' = GetsOf(d)
<1>1. CASE UNCHANGED rw
  BY <1>1, QueueLemma
<1>2. CASE r \in Request /\ rw' = [rw EXCEPT ![p] = Append(@, r)]
  <2>1. GetsOf(d)' = GetsOf(d) + (IF CallerProc[d] = p /\ IsGetOf(r, d) THEN 1 ELSE 0)
    BY <1>2, QueueLemma
  <2>2. QED
    BY <2>1, QueueLemma
<1>3. CASE rw[p] # <<>> /\ Head(rw[p]) = r /\ Executed(p)
  BY <1>3, QueueLemma
<1>4. QED
  BY <1>1, <1>2, <1>3

\* An ack moves.
LEMMA AckImplements ==
  ASSUME Inv, WaitInv, NEW k \in Acks, AckStep(k) \/ \E t \in Value : ackNewMessage(k, t)
  PROVE  WaitInv' /\ Implemented
<1> DEFINE get == [op |-> "get", key |-> CallerAgent[k], by |-> k]
           del == [op |-> "del", key |-> CallerAgent[k], by |-> k]
<1>1. /\ TypeOK /\ k \in Callers /\ k \notin Polls
      /\ CallerProc[k] \in Procs /\ CallerAgent[k] \in Agents
      /\ UNCHANGED <<store, saw, current, pushed, inbox, answer>>
      /\ \E r \in {get, del} : UNCHANGED rw \/ rw' = [rw EXCEPT ![CallerProc[k]] = Append(@, r)]
  BY CallerPlaces, PollsAreNotOthers
  DEF Inv, AckStep, ackNewMessage, AckDecided, AckCleanup, getValue, deleteValue, historyVars
<1>2. \A d \in Polls : phase'[d] = phase[d]
  BY <1>1, CallerPlaces DEF AckStep, ackNewMessage, AckDecided, AckCleanup, TypeOK
<1>3. \A r \in {get, del} : r \in Request /\ \A d \in Polls : ~IsGetOf(r, d)
  BY <1>1 DEF Request, IsGetOf
<1> HIDE DEF get, del
<1>4. \A d \in Polls : GetsOf(d)' = GetsOf(d)
  BY <1>1, <1>3, ForeignRequest
<1>5. \A d \in Polls : Quietly(d)
  BY <1>1, <1>2, <1>4 DEF Quietly
<1>6. QED
  BY <1>1, <1>5, SilentStep, WayLemma DEF TypeOK

\* The GET of a poll reads the flag; that of a handler is on its way to the callback
\* before and after, and that of an ack is none of the polls' business.
LEMMA GetImplements ==
  ASSUME Inv, WaitInv, NEW p \in Procs, GetExecuted(p)
  PROVE  WaitInv' /\ Implemented
<1>1. /\ TypeOK /\ rw[p] # <<>> /\ Executed(p) /\ Head(rw[p]).op = "get"
      /\ UNCHANGED <<store, inbox, answer, current>>
  BY DEF Inv, GetExecuted, RedisGet, HeadIs, historyVars
<1>2. PICK c \in Callers : /\ c = Head(rw[p]).by /\ CallerProc[c] = p
                           /\ phase[c] = "getting" \/ (c \in Polls /\ phase[c] \in Registered)
  <2>1. 1 \in DOMAIN rw[p] /\ Head(rw[p]) = rw[p][1]
    BY <1>1 DEF TypeOK, RedisTypeOK
  <2>2. Head(rw[p]).by \in Callers
    BY <1>1, <2>1, RequestKept
  <2>3. QED
    BY <1>1, <2>1, <2>2 DEF Inv, Body, Requests, RequestView
<1> DEFINE r == Head(rw[p])
           value == store[CallerAgent[c]]
<1>3. \/ /\ phase[c] = "getting" /\ UNCHANGED pushed
         /\ saw' = [saw EXCEPT ![c] = value] /\ phase' = [phase EXCEPT ![c] = "got"]
      \/ /\ phase[c] # "getting" /\ UNCHANGED <<saw, phase>>
         /\ pushed' = [pushed EXCEPT ![c] = Append(@, value)]
  <2>1. CASE At(c, "getting")
    BY <1>2, <2>1, Zenon DEF GetExecuted, At
  <2>2. CASE ~At(c, "getting")
    BY <1>2, <2>2, Zenon DEF GetExecuted, At
  <2>3. QED
    BY <2>1, <2>2
<1>4. value \in Value \cup {Nil}
  BY <1>1, <1>2, CallerPlaces DEF TypeOK, RedisTypeOK
<1>5. UNCHANGED OnTheWay
  BY <1>1, WayLemma DEF TypeOK
<1>6. \A d \in Polls : IsGetOf(r, d) <=> d = c
  BY <1>1, <1>2 DEF IsGetOf
<1> HIDE DEF r, value
<1>7. ASSUME NEW d \in Polls, d # c PROVE Quietly(d)
  <2>1. GetsOf(d)' = GetsOf(d)
    BY <1>1, <1>6, <1>7, ForeignRequest DEF r
  <2>2. phase'[d] = phase[d] /\ saw'[d] = saw[d] /\ pushed'[d] = pushed[d]
    BY <1>1, <1>2, <1>3, <1>7, CallerPlaces DEF TypeOK
  <2>3. QED
    BY <1>1, <2>1, <2>2 DEF Quietly
<1>8. CASE c \notin Polls
  BY <1>1, <1>5, <1>7, <1>8, SilentStep
<1>9. CASE c \in Polls /\ phase[c] = "getting"
  <2>1. phase'[c] = "got" /\ saw'[c] = value /\ pushed'[c] = pushed[c]
    BY <1>1, <1>2, <1>3, <1>9 DEF TypeOK
  <2>2. WaitInv'
    BY <1>1, <1>7, <1>9, <2>1, ProgressKept DEF Progress, Quietly
  <2>3. IsGetOf(Head(rw[p]), c)
    BY <1>6, <1>9 DEF r
  <2>4. GetsOf(c) = 1
    BY <1>1, <1>2, <1>9, <2>3, OwnGet, CallerPlaces
  <2>5. /\ GetsOf(c)' \in Nat
        /\ GetsOf(c) = GetsOf(c)' + (IF CallerProc[c] = p /\ IsGetOf(r, c) THEN 1 ELSE 0)
    BY <1>1, <1>9, QueueLemma DEF r
  <2>6. CallsOf(c)' = Calls[c]
    BY <1>2, <1>6, <1>9, <2>1, <2>4, <2>5, WaitFacts DEF CallsOf
  <2>7. /\ UNCHANGED <<Calls, StartedPolls>> /\ FoundFlags' = [FoundFlags EXCEPT ![c] = value]
    BY <1>7, <1>9, <2>1, <2>6, OneChanges
  <2>8. c \in StartedPolls /\ answer[c] = Pending /\ FoundFlags[c] = Nil
    BY <1>9, WaitFacts DEF Waits
  <2>9. QED
    BY <1>1, <1>5, <1>9, <2>2, <2>7, <2>8, ReadsFlag DEF value
<1>10. CASE c \in Polls /\ phase[c] # "getting"
  <2>1. phase'[c] = phase[c] /\ saw'[c] = saw[c] /\ pushed'[c] = Append(pushed[c], value)
    BY <1>1, <1>3, <1>10 DEF TypeOK
  <2>2. WaitInv'
    BY <1>1, <1>7, <1>10, <2>1, ProgressKept DEF Progress, Quietly
  <2>3. Len(pushed'[c]) = Len(pushed[c]) + 1 /\ pushed[c] \in Seq(Value \cup {Nil})
    BY <1>4, <1>10, <2>1, PollFacts
  <2>4. /\ GetsOf(c)' \in Nat
        /\ GetsOf(c) = GetsOf(c)' + (IF CallerProc[c] = p /\ IsGetOf(r, c) THEN 1 ELSE 0)
    BY <1>1, <1>10, QueueLemma DEF r
  <2>5. CallsOf(c)' = Calls[c]
    <3>1. GetsOf(c) = GetsOf(c)' + 1 /\ GetsOf(c)' \in Nat
      BY <1>2, <1>6, <1>10, <2>4
    <3>2. CallsOf(c)' = Len(pushed'[c]) + GetsOf(c)'
      BY <1>10, <2>1 DEF CallsOf
    <3>3. Calls[c] = Len(pushed[c]) + GetsOf(c) /\ Len(pushed[c]) \in Nat
      BY <1>10, WaitFacts
    <3>4. QED
      BY <2>3, <3>1, <3>2, <3>3
  <2>6. UNCHANGED <<Calls, StartedPolls, FoundFlags>>
    <3>1. phase[c] # "idle"
      BY <1>2, <1>10 DEF Registered
    <3>2. QED
      BY <1>7, <1>10, <2>1, <2>5, <3>1, OneChanges
  <2>7. QED
    BY <1>1, <1>5, <2>2, <2>6, Stutters
<1>11. QED
  BY <1>8, <1>9, <1>10

\* Redis executes a SET: the flag goes up and reaches the processes subscribed then.
LEMMA SetImplements ==
  ASSUME Inv, WaitInv, NEW p \in Procs, SetExecuted(p)
  PROVE  WaitInv' /\ Implemented
<1> DEFINE a == Head(rw[p]).key
           value == Head(rw[p]).value
           reached == {q \in Procs : up[q] /\ subscribed[q][a]}
<1>1. /\ TypeOK /\ rw[p] # <<>> /\ Executed(p) /\ Head(rw[p]).op = "set"
      /\ a \in Agents /\ value \in Value /\ Publish(a, "set")
      /\ store' = [store EXCEPT ![a] = value]
      /\ UNCHANGED <<answer, phase, saw, pushed>>
      /\ current' = [c \in Polls |-> IF CallerAgent[c] = a /\ phase[c] \notin {"idle", "over"}
                                     THEN current[c] \cup {value} ELSE current[c]]
  BY HeadOfRw DEF Inv, TypeOK, SetExecuted, RedisSet, HeadIs, serviceVars
<1>2. OnTheWay' = [q \in Procs |-> [b \in Agents |->
        IF b = a /\ q \in reached THEN OnTheWay[q][b] + 1 ELSE OnTheWay[q][b]]]
  BY <1>1, WayLemma DEF TypeOK
<1>3. \A d \in Polls : ~IsGetOf(Head(rw[p]), d)
  BY <1>1 DEF IsGetOf
<1> HIDE DEF a, value, reached
<1>4. \A d \in Polls : Quietly(d)
  BY <1>1, <1>3, ForeignRequest DEF Quietly
<1>5. UNCHANGED <<StartedPolls, FoundFlags, Calls>>
  BY <1>4, QuietImage
<1>6. WaitInv'
  BY <1>4, ProgressKept DEF Progress, Quietly
<1>7. \A c \in Polls : phase[c] \notin {"idle", "over"} <=> c \in StartedPolls /\ answer[c] = Pending
  BY WaitFacts
<1>8. current' = [c \in Polls |-> IF CallerAgent[c] = a /\ c \in StartedPolls /\ answer[c] = Pending
                                  THEN current[c] \cup {value} ELSE current[c]]
  BY <1>1, <1>7
<1>9. reached \in SUBSET Procs
  BY DEF reached
<1>10. QED
  BY <1>1, <1>2, <1>5, <1>6, <1>8, <1>9, Raises

\* Redis executes a DEL: the flag is down.
LEMMA DelImplements ==
  ASSUME Inv, WaitInv, NEW p \in Procs, DelExecuted(p)
  PROVE  WaitInv' /\ Implemented
<1> DEFINE k == Head(rw[p]).by
           a == Head(rw[p]).key
<1>1. /\ TypeOK /\ rw[p] # <<>> /\ Executed(p) /\ Head(rw[p]).op = "del"
      /\ k \in Acks /\ k \in Callers /\ k \notin Polls /\ a \in Agents
      /\ Publish(a, "del") \/ UNCHANGED inbox
      /\ store' = [store EXCEPT ![a] = Nil]
      /\ phase' = [phase EXCEPT ![k] = "deleted"]
      /\ UNCHANGED <<answer, current, saw, pushed>>
  BY DelFacts, CallerPlaces, PollsAreNotOthers
  DEF Inv, DelExecuted, RedisDel, HeadIs, historyVars
<1>2. \A d \in Polls : ~IsGetOf(Head(rw[p]), d)
  BY <1>1 DEF IsGetOf
<1>3. UNCHANGED OnTheWay
  BY <1>1, WayLemma DEF TypeOK
<1>4. \A d \in Polls : phase'[d] = phase[d]
  BY <1>1, CallerPlaces DEF TypeOK
<1> HIDE DEF k, a
<1>5. \A d \in Polls : Quietly(d)
  BY <1>1, <1>2, <1>4, ForeignRequest DEF Quietly
<1>6. UNCHANGED <<StartedPolls, FoundFlags, Calls>>
  BY <1>5, QuietImage
<1>7. WaitInv'
  BY <1>5, ProgressKept DEF Progress, Quietly
<1>8. QED
  BY <1>1, <1>3, <1>6, <1>7, Lowers

\* A `set' event leads to one callback of the poll in the map, or to none.
LEMMA EventImplements ==
  ASSUME Inv, WaitInv, NEW p \in Procs, NEW a \in Agents, OnEvent(p, a)
  PROVE  WaitInv' /\ Implemented
<1>1. /\ TypeOK /\ inbox[p][a] # <<>> /\ Dequeue(p, a)
      /\ UNCHANGED <<store, answer, phase, saw, pushed, current>>
  BY DEF Inv, OnEvent, serviceVars, historyVars
<1>2. CASE Received(p, a).type # "set"
  <2>1. UNCHANGED rw
    BY <1>2 DEF OnEvent, isOurKeyspaceSetNotification
  <2>2. \A d \in Polls : Quietly(d)
    BY <1>1, <2>1, QueueLemma DEF Quietly
  <2>3. QED
    BY <1>1, <1>2, <2>2, SilentStep, WayLemma DEF TypeOK
<1>3. CASE Received(p, a).type = "set"
  <2>1. OnTheWay[p][a] > 0 /\ OnTheWay' = [OnTheWay EXCEPT ![p][a] = @ - 1]
    BY <1>1, <1>3, WayLemma DEF TypeOK
  <2>2. \A d \in Polls : Progress(d)
    BY <1>1 DEF Progress
  <2>3. CASE agentSubscriptions[p][a] = NoPoll
    <3>1. UNCHANGED rw
      BY <2>3 DEF OnEvent
    <3>2. \A d \in Polls : Quietly(d)
      BY <1>1, <3>1, QueueLemma DEF Quietly
    <3>3. UNCHANGED <<StartedPolls, FoundFlags, Calls>>
      BY <3>2, QuietImage
    <3>4. QED
      BY <1>1, <2>1, <2>2, <3>3, ProgressKept, WakesUp
  <2>4. CASE agentSubscriptions[p][a] # NoPoll
    <3>1. PICK c \in Polls : agentSubscriptions[p][a] = c
      BY <1>1, <2>4 DEF TypeOK
    <3>2. CallerProc[c] = p /\ CallerAgent[c] = a
      BY <3>1 DEF Inv, Body, Channels, ChannelInv
    <3>3. phase[c] \in Registered /\ phase[c] \notin {"idle", "getting"}
      BY <3>1, <3>2, PollFacts DEF Entry, Registered, NotRegistered
    <3> DEFINE r == [op |-> "get", key |-> a, by |-> c]
    <3>4. /\ r \in Request /\ \A d \in Polls : IsGetOf(r, d) <=> d = c
          /\ rw' = [rw EXCEPT ![p] = Append(@, r)]
      <4>1. rw' = [rw EXCEPT ![p] = Append(@, r)]
        BY <1>3, <2>4, <3>1 DEF OnEvent, isOurKeyspaceSetNotification, getValue
      <4>2. QED
        BY <4>1, CallerPlaces DEF Request, IsGetOf
    <3> HIDE DEF r
    <3>5. ASSUME NEW d \in Polls, d # c PROVE Quietly(d)
      BY <1>1, <3>4, <3>5, ForeignRequest DEF Quietly
    <3>6. CallsOf(c)' = Calls[c] + 1
      <4>1. GetsOf(c)' = GetsOf(c) + (IF CallerProc[c] = p /\ IsGetOf(r, c) THEN 1 ELSE 0)
        BY <1>1, <3>4, QueueLemma
      <4>2. GetsOf(c)' = GetsOf(c) + 1
        BY <3>2, <3>4, <4>1
      <4>3. CallsOf(c)' = Len(pushed[c]) + GetsOf(c)'
        BY <1>1, <3>3 DEF CallsOf
      <4>4. /\ Calls[c] = Len(pushed[c]) + GetsOf(c)
            /\ Len(pushed[c]) \in Nat /\ GetsOf(c) \in Nat
        BY <3>3, WaitFacts
      <4>5. QED
        BY <4>2, <4>3, <4>4
    <3>7. /\ Calls' = [Calls EXCEPT ![c] = @ + 1]
          /\ UNCHANGED <<StartedPolls, FoundFlags>>
      BY <1>1, <3>3, <3>5, <3>6, OneChanges
    <3>8. c \in StartedPolls
      BY <3>3, WaitFacts
    <3>9. QED
      BY <1>1, <2>1, <2>2, <3>2, <3>7, <3>8, ProgressKept, WakesUp
  <2>5. QED
    BY <2>3, <2>4
<1>4. QED
  BY <1>2, <1>3

\* What else happens is none of the polls' business: a reply is handled, a command
\* executed, a SET sent, time passes, a connection comes back.
LEMMA QuietImplements ==
  ASSUME Inv, WaitInv,
         \/ Tick \/ UNCHANGED vars
         \/ \E p \in Procs : Reconnect(p)
         \/ \E p \in Procs, a \in Agents :
              OnReply(p, a) \/ CommandExecuted(p, a) \/ flagNewMessage(p, a)
  PROVE  WaitInv' /\ Implemented
<1>1. TypeOK
  BY DEF Inv
<1>2. CASE Tick \/ UNCHANGED vars \/ \E p \in Procs : Reconnect(p)
  <2>1. UNCHANGED <<store, rw, inbox, phase, saw, pushed, answer, current>>
    BY <1>2 DEF Tick, Reconnect, Reconnected, vars, redisVars, serviceVars, historyVars
  <2>2. \A d \in Polls : Quietly(d)
    BY <1>1, <2>1, QueueLemma DEF Quietly
  <2>3. QED
    BY <1>1, <2>1, <2>2, SilentStep, WayLemma DEF TypeOK
<1>3. ASSUME NEW p \in Procs, NEW a \in Agents, OnReply(p, a) PROVE WaitInv' /\ Implemented
  <2>1. /\ UNCHANGED <<store, rw, saw, pushed, answer, current>>
        /\ inbox[p][a] # <<>> /\ Received(p, a).type # "set" /\ Dequeue(p, a)
    BY <1>3 DEF OnReply, historyVars
  <2>2. ASSUME NEW d \in Polls
        PROVE  \/ phase'[d] = phase[d]
               \/ phase[d] = "subscribing" /\ phase'[d] = "arming" /\ saw[d] = Nil
    <3>1. phase[d] # "unsubscribing" /\ d \in Callers
      BY PollFacts DEF NotRegistered, Registered
    <3>2. QED
      BY <1>3, <3>1, WaitFacts DEF OnReply, At, Waits
  <2>3. \A d \in Polls : Quietly(d)
    BY <1>1, <2>1, <2>2, QueueLemma DEF Quietly
  <2>4. QED
    BY <1>1, <2>1, <2>3, SilentStep, WayLemma DEF TypeOK
<1>4. ASSUME NEW p \in Procs, NEW a \in Agents, CommandExecuted(p, a) PROVE WaitInv' /\ Implemented
  <2>1. /\ UNCHANGED <<store, rw, phase, saw, pushed, answer, current>>
        /\ \E e \in Event : e.type # "set" /\ inbox' = [inbox EXCEPT ![p][a] = Append(@, e)]
    <3>1. Head(cmds[p][a]) \in Command
      BY <1>1, <1>4 DEF CommandExecuted, RedisCommand, TypeOK, RedisTypeOK
    <3>2. QED
      BY <1>4, <3>1 DEF CommandExecuted, RedisCommand, serviceVars, historyVars, Command, Event
  <2>2. \A d \in Polls : Quietly(d)
    BY <1>1, <2>1, QueueLemma DEF Quietly
  <2>3. UNCHANGED OnTheWay
    <3>1. PICK e \in Event :
            e.type # "set" /\ inbox' = [inbox EXCEPT ![p][a] = Append(@, e)]
      BY <2>1
    <3>2. QED
      BY <1>1, <3>1, WayLemma DEF TypeOK
  <2>4. QED
    BY <2>1, <2>2, <2>3, SilentStep
<1>5. ASSUME NEW p \in Procs, NEW a \in Agents, flagNewMessage(p, a) PROVE WaitInv' /\ Implemented
  <2> DEFINE r == [op |-> "set", key |-> a, value |-> clock]
  <2>1. /\ r \in Request /\ \A d \in Polls : ~IsGetOf(r, d)
        /\ rw' = [rw EXCEPT ![p] = Append(@, r)]
        /\ UNCHANGED <<store, inbox, phase, saw, pushed, answer, current>>
    BY <1>1, <1>5
    DEF TypeOK, flagNewMessage, setValue, Request, IsGetOf, serviceVars, historyVars
  <2> HIDE DEF r
  <2>2. \A d \in Polls : Quietly(d)
    BY <1>1, <2>1, ForeignRequest DEF Quietly
  <2>3. QED
    BY <1>1, <2>1, <2>2, SilentStep, WayLemma DEF TypeOK
<1>6. QED
  BY <1>2, <1>3, <1>4, <1>5

\* A lost connection fails the polls that wait for a reply, a crash all that wait, and
\* with them the callbacks on their way.
LEMMA FailureImplements ==
  ASSUME Inv, WaitInv, NEW p \in Procs, LoseConnection(p) \/ Crash(p)
  PROVE  WaitInv' /\ Implemented
<1>1. /\ TypeOK /\ UNCHANGED <<store, saw, current>>
      /\ OnTheWay' = [OnTheWay EXCEPT ![p] = [a \in Agents |-> 0]]
  <2>1. /\ TypeOK /\ UNCHANGED <<store, saw, current>>
        /\ inbox' = [inbox EXCEPT ![p] = [a \in Agents |-> <<>>]]
    BY DEF Inv, LoseConnection, ConnectionLost, Crash, ProcessLost
  <2>2. QED
    BY <2>1, WayLemma DEF TypeOK
<1>2. CASE LoseConnection(p)
  <2> DEFINE failed == {c \in Polls : CallerProc[c] = p /\ phase[c] = "subscribing"}
  <2>1. /\ UNCHANGED <<rw, pushed>>
        /\ \A c \in Polls : phase'[c] = IF c \in failed THEN "over" ELSE phase[c]
        /\ answer' = [c \in Polls |-> IF c \in failed THEN Failed ELSE answer[c]]
    <3>1. \A c \in Polls : phase[c] # "unsubscribing" /\ c \in Callers
      BY PollFacts DEF NotRegistered, Registered
    <3>2. QED
      BY <1>2, <3>1 DEF LoseConnection, ConnectionLost
  <2>2. /\ failed \in SUBSET Polls
        /\ \A c \in failed : c \in StartedPolls /\ CallerProc[c] = p /\ answer[c] = Pending
    BY WaitFacts
  <2>3. ASSUME NEW c \in Polls
        PROVE  /\ Progress(c) /\ CallsOf(c)' = CallsOf(c)
               /\ phase'[c] = "idle" <=> phase[c] = "idle"
    <3>1. GetsOf(c)' = GetsOf(c)
      BY <1>1, <2>1, QueueLemma
    <3>2. QED
      BY <1>1, <2>1, <3>1 DEF Progress, CallsOf
  <2> HIDE DEF failed
  <2>4. UNCHANGED Calls
    <3>1. Calls = [c \in Polls |-> CallsOf(c)] /\ Calls' = [c \in Polls |-> CallsOf(c)']
      BY DEF Calls, CallsOf, GetsOf, At
    <3>2. QED
      BY <2>3, <3>1
  <2>5. UNCHANGED <<StartedPolls, FoundFlags>>
    BY <1>1, <2>3 DEF StartedPolls, FoundFlags, At
  <2>6. WaitInv'
    BY <2>3, ProgressKept
  <2>7. QED
    BY <1>1, <2>1, <2>2, <2>4, <2>5, <2>6, Fails
<1>3. CASE Crash(p)
  <2> DEFINE failed == {c \in Polls : CallerProc[c] = p /\ phase[c] \notin {"idle", "over"}}
  <2>1. /\ rw' = [rw EXCEPT ![p] = <<>>]
        /\ \A c \in Polls :
             /\ CallerProc[c] = p /\ phase[c] # "idle" =>
                  /\ phase'[c] = "over" /\ pushed'[c] = <<>>
                  /\ answer'[c] = IF answer[c] = Pending THEN Failed ELSE answer[c]
             /\ ~(CallerProc[c] = p /\ phase[c] # "idle") =>
                  phase'[c] = phase[c] /\ answer'[c] = answer[c] /\ pushed'[c] = pushed[c]
    BY <1>3, CrashedPolls DEF Crash, ProcessLost, Stays
  <2>2. /\ failed \in SUBSET Polls
        /\ \A c \in failed : c \in StartedPolls /\ CallerProc[c] = p /\ answer[c] = Pending
    BY WaitFacts
  <2>3. answer' = [c \in Polls |-> IF c \in failed THEN Failed ELSE answer[c]]
    <3>1. DOMAIN answer' = Polls /\ answer' = [c \in Polls |-> answer'[c]]
      BY <1>3 DEF Crash
    <3>2. ASSUME NEW c \in Polls PROVE answer'[c] = IF c \in failed THEN Failed ELSE answer[c]
      <4>1. answer[c] = Pending <=> phase[c] # "over"
        BY WaitFacts
      <4>2. QED
        BY <2>1, <4>1
    <3> HIDE DEF failed
    <3>3. QED
      BY <3>1, <3>2
  <2>4. ASSUME NEW c \in Polls
        PROVE  /\ Progress(c)
               /\ CallsOf(c)' = IF CallerProc[c] = p THEN 0 ELSE CallsOf(c)
               /\ phase'[c] = "idle" <=> phase[c] = "idle"
    <3>1. GetsOf(c)' = IF CallerProc[c] = p THEN 0 ELSE GetsOf(c)
      BY <1>1, <2>1, QueueLemma
    <3>2. /\ phase[c] = "idle" => pushed[c] = <<>>
          /\ saw'[c] = saw[c]
      BY <1>1, PollFacts DEF NotRegistered
    <3>3. QED
      BY <2>1, <3>1, <3>2 DEF Progress, CallsOf
  <2>5. Calls' = [c \in Polls |-> IF CallerProc[c] = p THEN 0 ELSE Calls[c]]
    <3>1. Calls = [c \in Polls |-> CallsOf(c)] /\ Calls' = [c \in Polls |-> CallsOf(c)']
      BY DEF Calls, CallsOf, GetsOf, At
    <3>2. QED
      BY <2>4, <3>1
  <2> HIDE DEF failed
  <2>6. UNCHANGED <<StartedPolls, FoundFlags>>
    BY <1>1, <2>4 DEF StartedPolls, FoundFlags, At
  <2>7. WaitInv'
    BY <2>4, ProgressKept
  <2>8. QED
    BY <1>1, <2>2, <2>3, <2>5, <2>6, <2>7, Fails
<1>4. QED
  BY <1>2, <1>3

\* Nobody waits at first.
LEMMA InitImplements == Init => WaitInv /\ LP!Init
<1> SUFFICES ASSUME Init PROVE WaitInv /\ LP!Init
  OBVIOUS
<1>1. /\ \A p \in Procs : rw[p] = <<>>
      /\ \A p \in Procs, a \in Agents : inbox[p][a] = <<>>
      /\ \A c \in Polls : /\ c \in Callers /\ phase[c] = "idle" /\ saw[c] = Nil
                          /\ answer[c] = Pending /\ pushed[c] = <<>>
  BY CallerPlaces DEF Init, RedisInit
<1>2. WaitInv
  BY <1>1 DEF WaitInv, Waits
<1>3. OnTheWay = [p \in Procs |-> [a \in Agents |-> 0]]
  <2>1. ASSUME NEW p \in Procs, NEW a \in Agents PROVE Cardinality(Sets(inbox[p][a])) = 0
    <3>1. Sets(inbox[p][a]) = {}
      BY <1>1 DEF Sets
    <3>2. QED
      BY <3>1, FS_EmptySet
  <2>2. QED
    BY <2>1 DEF OnTheWay
<1>4. Calls = [c \in Polls |-> 0]
  <2>1. ASSUME NEW c \in Polls PROVE Calls[c] = 0
    <3>1. Inv
      BY InitInv
    <3>2. GetsOf(c) = 0 /\ Len(pushed[c]) = 0
      BY <1>1, <3>1, OwnGet
    <3>3. Calls[c] = Len(pushed[c]) + (IF phase[c] = "getting" THEN 0 ELSE GetsOf(c))
      BY DEF Calls, GetsOf, At
    <3>4. QED
      BY <1>1, <3>2, <3>3
  <2>2. Calls = [c \in Polls |-> Calls[c]]
    BY DEF Calls
  <2>3. QED
    BY <2>1, <2>2
<1>5. StartedPolls = {} /\ FoundFlags = [c \in Polls |-> Nil]
  BY <1>1 DEF StartedPolls, FoundFlags, At
<1>6. LP!Init
  BY <1>3, <1>4, <1>5 DEF LP!Init, Init, RedisInit
<1>7. QED
  BY <1>2, <1>6

\* Every step of the service is one of LongPollV2 or none.
LEMMA StepImplements == ASSUME Inv, WaitInv, [Next]_vars PROVE WaitInv' /\ Implemented
  BY StartImplements, PollStepImplements, CallBackImplements, AckImplements, GetImplements,
     SetImplements, DelImplements, EventImplements, QuietImplements, FailureImplements
  DEF Next, RedisStep

\* The service implements LongPollV2: an answer is a flag of the poll's own time, read
\* by the poll itself or by the one handler a flagging leads to in its process, whatever
\* the number of processes, requests and failures (longpoll-v2.js:29-64,
\* service-new-messages-v2.js:37-53).
THEOREM Implementation == Spec => ImplementsLongPoll
<1>1. Init => Inv /\ WaitInv /\ LP!Init
  BY InitInv, InitImplements
<1>2. Inv /\ WaitInv /\ [Next]_vars => Inv' /\ WaitInv' /\ [LP!Next]_(LP!vars)
  BY StepInv, StepImplements DEF Implemented
<1>3. QED
  BY <1>1, <1>2, PTL DEF Spec, ImplementsLongPoll, LP!Spec

-----------------------------------------------------------------------------
(* Nobody waits in vain.  That what is waited for is on its way is         *)
(* inductive: whatever takes a request or a reply off its queue lets its   *)
(* caller go on or ends it.  That a timer may still answer is Waits.       *)

RedisWaits == {"getting", "deleting", "subscribing", "unsubscribing"}

\* A caller goes on waiting for what it has sent, or waits no more.
Served(c) ==
  \/ phase'[c] \notin RedisWaits
  \/ /\ phase'[c] = phase[c]
     /\ RwKept(CallerProc[c], c)
     /\ phase[c] \in {"getting", "deleting"} \/ CmdKept(CallerProc[c], CallerAgent[c], c)

LEMMA ServedLemma ==
  ASSUME NEW c \in Callers, OnItsWay(c), Served(c)
  PROVE  OnItsWay(c)'
  BY DEF OnItsWay, Served, RedisWaits, At, RwKept, CmdKept

\* A step that leaves the queues alone serves whoever stays or waits no more.
LEMMA IdleQueues ==
  ASSUME NEW c \in Callers, UNCHANGED <<rw, cmds, inbox>>
  PROVE  RwKept(CallerProc[c], c) /\ CmdKept(CallerProc[c], CallerAgent[c], c)
  BY DEF RwKept, CmdKept, Commanded

\* Registering and cleaning up keep the commands that are waited for.
LEMMA HandlersKeep ==
  ASSUME TypeOK, NEW c \in Polls,
         registerCallback(c) \/ cleanupCallback(c)
  PROVE  /\ \A q \in Procs, b \in Agents, d \in Callers, op \in {"subscribe", "unsubscribe"} :
              Asked(cmds[q][b], d, op) => Asked(cmds'[q][b], d, op)
         /\ UNCHANGED inbox =>
              \A q \in Procs, b \in Agents, d \in Callers : CmdKept(q, b, d)
<1>1. RedisTypeOK /\ CallerProc[c] \in Procs /\ CallerAgent[c] \in Agents /\ c \in Callers
  BY CallerPlaces DEF TypeOK
<1>2. CASE \E k \in Callers \cup {NoCaller} :
             \/ subscribeKey(CallerProc[c], CallerAgent[c], k)
             \/ unsubscribeKey(CallerProc[c], CallerAgent[c], k)
  BY <1>1, <1>2, CommandKept
<1>3. CASE UNCHANGED cmds
  BY <1>3 DEF CmdKept, Commanded
<1>4. QED
  BY <1>1, <1>2, <1>3
  DEF registerCallback, cleanupCallback, cleanupSubscription

\* The steps of a poll.
LEMMA PollServes ==
  ASSUME TypeOK, NEW c \in Polls, longpollNotificationsV2(c) \/ PollStep(c),
         NEW d \in Callers, OnItsWay(d)
  PROVE  OnItsWay(d)'
<1>1. /\ RedisTypeOK /\ CallerProc[c] \in Procs /\ CallerAgent[c] \in Agents /\ c \in Callers
      /\ CallerProc[d] \in Procs /\ CallerAgent[d] \in Agents /\ phase \in [Callers -> Phase]
  BY CallerPlaces DEF TypeOK
<1>2. CASE longpollNotificationsV2(c)
  <2>1. Asked(rw'[CallerProc[c]], c, "get") /\ RwKept(CallerProc[d], d)
    BY <1>1, <1>2, AskLemma DEF longpollNotificationsV2, RwKept
  <2>2. CmdKept(CallerProc[d], CallerAgent[d], d)
    BY <1>2 DEF longpollNotificationsV2, CmdKept, Commanded
  <2>3. CASE d = c
    BY <1>1, <1>2, <2>1, <2>3 DEF longpollNotificationsV2, OnItsWay, At
  <2>4. CASE d # c
    BY <1>1, <1>2, <2>1, <2>2, <2>4, ServedLemma DEF longpollNotificationsV2, Served
  <2>5. QED
    BY <2>3, <2>4
<1>3. CASE AnswerAtOnce(c) \/ SetTimer(c)
  <2>1. RwKept(CallerProc[d], d) /\ CmdKept(CallerProc[d], CallerAgent[d], d)
    BY <1>3, IdleQueues DEF AnswerAtOnce, SetTimer, redisVars
  <2>2. QED
    BY <1>1, <1>3, <2>1, ServedLemma DEF AnswerAtOnce, SetTimer, Served, RedisWaits
<1>4. CASE WaitForMessage(c)
  <2>1. Asked(cmds'[CallerProc[c]][CallerAgent[c]], c, "subscribe")
    BY <1>1, <1>4, CommandLemma DEF WaitForMessage, registerCallback
  <2>2. RwKept(CallerProc[d], d) /\ CmdKept(CallerProc[d], CallerAgent[d], d)
    BY <1>1, <1>4, HandlersKeep DEF WaitForMessage, RwKept
  <2>3. CASE d = c
    BY <1>1, <1>4, <2>1, <2>3 DEF WaitForMessage, OnItsWay, Commanded, At
  <2>4. CASE d # c
    BY <1>1, <1>4, <2>2, <2>4, ServedLemma DEF WaitForMessage, Served
  <2>5. QED
    BY <2>3, <2>4
<1>5. CASE reactOnTimeout(c)
  <2>1. RwKept(CallerProc[d], d) /\ CmdKept(CallerProc[d], CallerAgent[d], d)
    BY <1>1, <1>5, HandlersKeep DEF reactOnTimeout, RwKept
  <2>2. QED
    BY <1>1, <1>5, <2>1, ServedLemma DEF reactOnTimeout, Served, RedisWaits
<1>6. QED
  BY <1>2, <1>3, <1>4, <1>5 DEF PollStep

\* An event handler calls a poll back, which cleans up if it is answered by that.
LEMMA CallBackServes ==
  ASSUME TypeOK, NEW c \in Polls, CallBack(c), NEW d \in Callers, OnItsWay(d)
  PROVE  OnItsWay(d)'
<1>1. /\ CallerProc[d] \in Procs /\ CallerAgent[d] \in Agents /\ c \in Callers
      /\ phase \in [Callers -> Phase]
  BY CallerPlaces DEF TypeOK
<1>2. UNCHANGED <<rw, inbox>>
  BY DEF CallBack
<1>3. CASE UNCHANGED <<cmds, phase>>
  BY <1>2, <1>3, IdleQueues, ServedLemma DEF Served
<1>4. CASE cleanupCallback(c) /\ phase' = [phase EXCEPT ![c] = "over"]
  <2>1. RwKept(CallerProc[d], d) /\ CmdKept(CallerProc[d], CallerAgent[d], d)
    BY <1>1, <1>2, <1>4, HandlersKeep DEF RwKept
  <2>2. QED
    BY <1>1, <1>4, <2>1, ServedLemma DEF Served, RedisWaits
<1>5. QED
  BY <1>3, <1>4 DEF CallBack, reactOnNewMessage

\* The steps of an ack.
LEMMA AckServes ==
  ASSUME TypeOK, NEW k \in Acks, AckStep(k) \/ \E t \in Value : ackNewMessage(k, t),
         NEW d \in Callers, OnItsWay(d)
  PROVE  OnItsWay(d)'
<1>1. /\ RedisTypeOK /\ CallerProc[k] \in Procs /\ CallerAgent[k] \in Agents /\ k \in Callers
      /\ CallerProc[d] \in Procs /\ CallerAgent[d] \in Agents /\ phase \in [Callers -> Phase]
  BY CallerPlaces DEF TypeOK
<1>2. ASSUME NEW t \in Value, ackNewMessage(k, t) PROVE OnItsWay(d)'
  <2>1. CmdKept(CallerProc[d], CallerAgent[d], d)
    BY <1>2 DEF ackNewMessage, CmdKept, Commanded
  <2>2. CASE UNCHANGED rw /\ phase' = [phase EXCEPT ![k] = "over"]
    BY <1>1, <2>1, <2>2, ServedLemma DEF Served, RwKept, RedisWaits
  <2>3. CASE getValue(CallerProc[k], CallerAgent[k], k) /\ phase' = [phase EXCEPT ![k] = "getting"]
    <3>1. Asked(rw'[CallerProc[k]], k, "get") /\ RwKept(CallerProc[d], d)
      BY <1>1, <2>3, AskLemma DEF RwKept
    <3>2. CASE d = k
      BY <1>1, <2>3, <3>1, <3>2 DEF OnItsWay, At
    <3>3. CASE d # k
      BY <1>1, <2>1, <2>3, <3>1, <3>3, ServedLemma DEF Served
    <3>4. QED
      BY <3>2, <3>3
  <2>4. QED
    BY <1>2, <2>2, <2>3 DEF ackNewMessage
<1>3. CASE AckDecided(k)
  <2>1. CmdKept(CallerProc[d], CallerAgent[d], d)
    BY <1>3 DEF AckDecided, CmdKept, Commanded
  <2>2. CASE UNCHANGED rw /\ phase' = [phase EXCEPT ![k] = "over"]
    BY <1>1, <2>1, <2>2, ServedLemma DEF Served, RwKept, RedisWaits
  <2>3. CASE deleteValue(CallerProc[k], CallerAgent[k], k) /\ phase' = [phase EXCEPT ![k] = "deleting"]
    <3>1. Asked(rw'[CallerProc[k]], k, "del") /\ RwKept(CallerProc[d], d)
      BY <1>1, <2>3, AskLemma DEF RwKept
    <3>2. CASE d = k
      BY <1>1, <2>3, <3>1, <3>2 DEF OnItsWay, At
    <3>3. CASE d # k
      BY <1>1, <2>1, <2>3, <3>1, <3>3, ServedLemma DEF Served
    <3>4. QED
      BY <3>2, <3>3
  <2>4. QED
    BY <1>3, <2>2, <2>3 DEF AckDecided
<1>4. CASE AckCleanup(k) /\ cleanupSubscription(CallerProc[k], CallerAgent[k], k)
                         /\ phase' = [phase EXCEPT ![k] = "unsubscribing"]
  <2>1. Asked(cmds'[CallerProc[k]][CallerAgent[k]], k, "unsubscribe")
    BY <1>1, <1>4, CommandLemma DEF cleanupSubscription
  <2>2. RwKept(CallerProc[d], d) /\ CmdKept(CallerProc[d], CallerAgent[d], d)
    BY <1>1, <1>4, CommandKept DEF AckCleanup, cleanupSubscription, RwKept
  <2>3. CASE d = k
    BY <1>1, <1>4, <2>1, <2>3 DEF OnItsWay, Commanded, At
  <2>4. CASE d # k
    BY <1>1, <1>4, <2>2, <2>4, ServedLemma DEF Served
  <2>5. QED
    BY <2>3, <2>4
<1>5. CASE AckCleanup(k) /\ UNCHANGED <<agentSubscriptions, cmds>>
                         /\ phase' = [phase EXCEPT ![k] = "over"]
  <2>1. RwKept(CallerProc[d], d) /\ CmdKept(CallerProc[d], CallerAgent[d], d)
    BY <1>5, IdleQueues DEF AckCleanup
  <2>2. QED
    BY <1>1, <1>5, <2>1, ServedLemma DEF Served, RedisWaits
<1>6. QED
  BY <1>2, <1>3, <1>4, <1>5 DEF AckStep, AckCleanup

\* Redis executes a request: its caller goes on, the others wait for theirs.
LEMMA RedisServes ==
  ASSUME TypeOK, NEW p \in Procs, RedisStep(p), NEW d \in Callers, OnItsWay(d)
  PROVE  OnItsWay(d)'
<1> DEFINE r == Head(rw[p])
<1>1. /\ RedisTypeOK /\ phase \in [Callers -> Phase]
      /\ CallerProc[d] \in Procs /\ CallerAgent[d] \in Agents
  BY CallerPlaces DEF TypeOK
<1>2. rw[p] # <<>> /\ Executed(p) /\ r.key \in Agents
  BY <1>1, HeadOfRw
  DEF RedisStep, GetExecuted, SetExecuted, DelExecuted, RedisGet, RedisSet, RedisDel, HeadIs
<1>3. (r.op \in {"get", "del"} => r.by # d) => RwKept(CallerProc[d], d)
  BY <1>1, <1>2, AnswerLemma DEF RwKept
<1>4. CmdKept(CallerProc[d], CallerAgent[d], d)
  <2>1. UNCHANGED cmds
    BY DEF RedisStep, GetExecuted, SetExecuted, DelExecuted, RedisGet, RedisSet, RedisDel
  <2>2. UNCHANGED inbox \/ \E type \in {"set", "del"} : Publish(r.key, type)
    BY DEF RedisStep, GetExecuted, SetExecuted, DelExecuted, RedisGet, RedisSet, RedisDel
  <2>3. \A op \in {"subscribe", "unsubscribe"} :
          Replied(inbox[CallerProc[d]][CallerAgent[d]], d, op) =>
            Replied(inbox'[CallerProc[d]][CallerAgent[d]], d, op)
    BY <1>1, <1>2, <2>2, ReplyLemma
  <2>4. QED
    BY <2>1, <2>3 DEF CmdKept, Commanded
<1>5. CASE GetExecuted(p)
  <2>1. r.op = "get" /\ r.by \in Callers
    BY <1>1, <1>2, <1>5, HeadOfRw DEF GetExecuted, RedisGet, HeadIs
  <2>2. CASE phase' = [phase EXCEPT ![r.by] = "got"]
    BY <1>1, <1>3, <1>4, <2>1, <2>2, ServedLemma DEF Served, RedisWaits
  <2>3. CASE phase[r.by] # "getting" /\ UNCHANGED phase
    <3>1. CASE r.by # d
      BY <1>1, <1>3, <1>4, <2>1, <2>3, <3>1, ServedLemma DEF Served
    <3>2. CASE r.by = d
      <4>1. \A op \in {"del"} : Asked(rw[CallerProc[d]], d, op) => Asked(rw'[CallerProc[d]], d, op)
        BY <1>1, <1>2, <2>1, AnswerLemma
      <4>2. QED
        BY <1>4, <2>3, <3>2, <4>1 DEF OnItsWay, At, CmdKept
    <3>3. QED
      BY <3>1, <3>2
  <2>4. QED
    BY <1>5, <2>2, <2>3 DEF GetExecuted, At
<1>6. CASE SetExecuted(p)
  <2>1. r.op = "set" /\ UNCHANGED phase
    BY <1>6 DEF SetExecuted, RedisSet, HeadIs, serviceVars
  <2>2. QED
    BY <1>1, <1>3, <1>4, <2>1, ServedLemma DEF Served
<1>7. CASE DelExecuted(p)
  <2>1. r.op = "del" /\ r.by \in Callers /\ phase' = [phase EXCEPT ![r.by] = "deleted"]
    BY <1>1, <1>2, <1>7, HeadOfRw DEF DelExecuted, RedisDel, HeadIs
  <2>2. QED
    BY <1>1, <1>3, <1>4, <2>1, ServedLemma DEF Served, RedisWaits
<1>8. QED
  BY <1>5, <1>6, <1>7 DEF RedisStep

\* Failures end those who wait for what is lost.
LEMMA FailureServes ==
  ASSUME TypeOK, NEW p \in Procs, LoseConnection(p) \/ Reconnect(p) \/ Crash(p),
         NEW d \in Callers, OnItsWay(d)
  PROVE  OnItsWay(d)'
<1>1. /\ phase \in [Callers -> Phase] /\ RedisTypeOK
      /\ CallerProc[d] \in Procs /\ CallerAgent[d] \in Agents
  BY CallerPlaces DEF TypeOK
<1>2. CASE LoseConnection(p)
  <2>1. RwKept(CallerProc[d], d)
    BY <1>2 DEF LoseConnection, ConnectionLost, RwKept
  <2>2. CallerProc[d] # p => CmdKept(CallerProc[d], CallerAgent[d], d)
    BY <1>1, <1>2 DEF LoseConnection, ConnectionLost, RedisTypeOK, CmdKept, Commanded
  <2>3. /\ phase'[d] = phase[d] \/ phase'[d] = "over"
        /\ CallerProc[d] = p /\ phase[d] \in {"subscribing", "unsubscribing"} => phase'[d] = "over"
    BY <1>2 DEF LoseConnection
  <2>4. QED
    BY <2>1, <2>2, <2>3, ServedLemma DEF Served, RedisWaits
<1>3. CASE Reconnect(p)
  <2>1. RwKept(CallerProc[d], d) /\ CmdKept(CallerProc[d], CallerAgent[d], d)
    BY <1>3, IdleQueues DEF Reconnect, Reconnected
  <2>2. QED
    BY <1>3, <2>1, ServedLemma DEF Reconnect, serviceVars, Served
<1>4. CASE Crash(p)
  <2>1. CallerProc[d] # p =>
          RwKept(CallerProc[d], d) /\ CmdKept(CallerProc[d], CallerAgent[d], d)
    BY <1>1, <1>4 DEF Crash, ProcessLost, RedisTypeOK, RwKept, CmdKept, Commanded
  <2>2. /\ CallerProc[d] # p => phase'[d] = phase[d]
        /\ CallerProc[d] = p => phase'[d] \in {"idle", "over"}
    BY <1>4 DEF Crash, At
  <2>3. QED
    BY <2>1, <2>2, ServedLemma DEF Served, RedisWaits
<1>5. QED
  BY <1>2, <1>3, <1>4

\* What a process sends and receives about one agent.
LEMMA ChannelServes ==
  ASSUME TypeOK, NEW p \in Procs, NEW a \in Agents,
         \/ flagNewMessage(p, a)
         \/ CommandExecuted(p, a)
         \/ OnEvent(p, a)
         \/ OnReply(p, a),
         NEW d \in Callers, OnItsWay(d)
  PROVE  OnItsWay(d)'
<1>1. /\ phase \in [Callers -> Phase] /\ RedisTypeOK
      /\ CallerProc[d] \in Procs /\ CallerAgent[d] \in Agents
  BY CallerPlaces DEF TypeOK
<1>2. CASE flagNewMessage(p, a)
  <2>1. RwKept(CallerProc[d], d)
    BY <1>1, <1>2, AskLemma DEF flagNewMessage, RwKept, TypeOK
  <2>2. CmdKept(CallerProc[d], CallerAgent[d], d)
    BY <1>2 DEF flagNewMessage, CmdKept, Commanded
  <2>3. QED
    BY <1>2, <2>1, <2>2, ServedLemma DEF flagNewMessage, serviceVars, Served
<1>3. CASE CommandExecuted(p, a)
  <2>1. CmdKept(CallerProc[d], CallerAgent[d], d)
    BY <1>1, <1>3, ReplyLemma DEF CommandExecuted, CmdKept
  <2>2. RwKept(CallerProc[d], d) /\ UNCHANGED phase
    BY <1>3 DEF CommandExecuted, RedisCommand, RwKept, serviceVars
  <2>3. QED
    BY <2>1, <2>2, ServedLemma DEF Served
<1>4. CASE OnEvent(p, a)
  <2>1. \A op \in {"subscribe", "unsubscribe"} :
          Replied(inbox[CallerProc[d]][CallerAgent[d]], d, op) =>
            Replied(inbox'[CallerProc[d]][CallerAgent[d]], d, op)
    <3>1. inbox[p][a] # <<>> /\ Dequeue(p, a) /\ Head(inbox[p][a]).type \in {"set", "del"}
      BY <1>4 DEF OnEvent, Received
    <3>2. QED
      BY <1>1, <3>1, ReplyLemma
  <2>2. RwKept(CallerProc[d], d)
    <3>1. CASE UNCHANGED rw
      BY <3>1 DEF RwKept
    <3>2. CASE agentSubscriptions[p][a] # NoPoll /\ getValue(p, a, agentSubscriptions[p][a])
      <4>1. agentSubscriptions[p][a] \in Callers
        BY <3>2, CallerPlaces DEF TypeOK
      <4>2. QED
        BY <1>1, <3>2, <4>1, AskLemma DEF RwKept
    <3>3. QED
      BY <1>4, <3>1, <3>2 DEF OnEvent
  <2>3. CmdKept(CallerProc[d], CallerAgent[d], d) /\ UNCHANGED phase
    BY <1>4, <2>1 DEF OnEvent, CmdKept, Commanded, serviceVars
  <2>4. QED
    BY <2>2, <2>3, ServedLemma DEF Served
<1>5. CASE OnReply(p, a)
  <2> DEFINE k == Head(inbox[p][a]).by
  <2>1. /\ inbox[p][a] # <<>> /\ Dequeue(p, a) /\ UNCHANGED <<rw, cmds>>
        /\ phase'[d] = IF d = k /\ phase[d] = "subscribing" THEN "arming"
                       ELSE IF d = k /\ phase[d] = "unsubscribing" THEN "over"
                       ELSE phase[d]
    BY <1>5 DEF OnReply, Received, At
  <2> HIDE DEF k
  <2>2. RwKept(CallerProc[d], d)
    BY <2>1 DEF RwKept
  <2>3. d # k => CmdKept(CallerProc[d], CallerAgent[d], d)
    <3>1. d # k => \A op \in {"subscribe", "unsubscribe"} :
            Replied(inbox[CallerProc[d]][CallerAgent[d]], d, op) =>
              Replied(inbox'[CallerProc[d]][CallerAgent[d]], d, op)
      BY <1>1, <2>1, ReplyLemma DEF k
    <3>2. QED
      BY <2>1, <3>1 DEF CmdKept, Commanded
  <2>4. CASE d # k
    BY <2>1, <2>2, <2>3, <2>4, ServedLemma DEF Served
  <2>5. CASE d = k
    BY <2>1, <2>2, <2>5, ServedLemma DEF Served, RedisWaits
  <2>6. QED
    BY <2>4, <2>5
<1>6. QED
  BY <1>2, <1>3, <1>4, <1>5

\* Whatever happens serves or ends who waits: what a request waits for is on its way, and
\* its timer may answer
\* (longpoll-v2.js:29-60, service-new-messages-v2.js:55-60,68-121).
THEOREM NobodyWaits == Spec => []NobodyWaitsInVain
<1> DEFINE Waiting == \A c \in Callers : OnItsWay(c)
<1>1. Init => Waiting
  BY DEF Init, OnItsWay, At
<1>2. TypeOK /\ Waiting /\ [Next]_vars => Waiting'
  <2> SUFFICES ASSUME TypeOK, Waiting, [Next]_vars, NEW d \in Callers PROVE OnItsWay(d)'
    OBVIOUS
  <2>1. OnItsWay(d)
    OBVIOUS
  <2>2. CASE Next
    <3>1. CASE Tick
      BY <2>1, <3>1 DEF Tick, redisVars, serviceVars, OnItsWay, At, Commanded
    <3>2. QED
      BY <2>1, <2>2, <3>1, PollServes, CallBackServes, AckServes, RedisServes, FailureServes,
         ChannelServes DEF Next
  <2>3. CASE UNCHANGED vars
    BY <2>1, <2>3 DEF vars, redisVars, serviceVars, OnItsWay, At, Commanded
  <2>4. QED
    BY <2>2, <2>3
<1>3. WaitInv /\ Waiting => NobodyWaitsInVain
  BY DEF NobodyWaitsInVain, WaitInv, Waits, wasResponseSent, At
<1>4. Init => TypeOK /\ Inv /\ WaitInv
  BY InitInv, InitImplements DEF Inv
<1>5. Inv /\ WaitInv /\ [Next]_vars => Inv' /\ WaitInv'
  BY StepInv, StepImplements
<1>6. Inv => TypeOK
  BY DEF Inv
<1>7. QED
  BY <1>1, <1>2, <1>3, <1>4, <1>5, <1>6, PTL DEF Spec

=============================================================================
