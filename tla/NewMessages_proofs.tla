------------------------- MODULE NewMessages_proofs -------------------------
(***************************************************************************)
(* Theorems about the notification service and its long poll, for every    *)
(* number of processes, agents, polls, acks, messages and failures.        *)
(***************************************************************************)
EXTENDS NewMessages, RedisAdapter_proofs

-----------------------------------------------------------------------------
(* Type correctness.                                                       *)

\* A caller has a process and an agent.
LEMMA CallerPlaces ==
  /\ \A c \in Callers : CallerProc[c] \in Procs /\ CallerAgent[c] \in Agents
  /\ Polls \subseteq Callers /\ Acks \subseteq Callers
  BY CallersAreRequests

\* What a handler of the service leaves typed when it cleans up or registers.
LEMMA SubscriptionsTyped ==
  ASSUME TypeOK, NEW p \in Procs, NEW a \in Agents
  PROVE  /\ \A k \in Callers \cup {NoCaller} : cleanupSubscription(p, a, k) =>
              /\ agentSubscriptions' \in [Procs -> [Agents -> Polls \cup {NoPoll}]]
              /\ cmds' \in [Procs -> [Agents -> Seq(Command)]]
         /\ \A c \in Polls : cleanupNewMessageCallback(c) =>
              /\ agentSubscriptions' \in [Procs -> [Agents -> Polls \cup {NoPoll}]]
              /\ cmds' \in [Procs -> [Agents -> Seq(Command)]]
         /\ \A c \in Polls : registerNewMessageCallback(c) =>
              /\ agentSubscriptions' \in [Procs -> [Agents -> Polls \cup {NoPoll}]]
              /\ cmds' \in [Procs -> [Agents -> Seq(Command)]]
<1>1. ASSUME NEW q \in Procs, NEW b \in Agents, NEW k \in Callers \cup {NoCaller},
             cleanupSubscription(q, b, k)
      PROVE  /\ agentSubscriptions' \in [Procs -> [Agents -> Polls \cup {NoPoll}]]
             /\ cmds' \in [Procs -> [Agents -> Seq(Command)]]
  <2>1. cmds' \in [Procs -> [Agents -> Seq(Command)]]
    BY <1>1, SendTyped DEF cleanupSubscription, TypeOK
  <2>2. QED
    BY <1>1, <2>1 DEF cleanupSubscription, TypeOK
<1>2. ASSUME NEW c \in Polls, cleanupNewMessageCallback(c)
      PROVE  /\ agentSubscriptions' \in [Procs -> [Agents -> Polls \cup {NoPoll}]]
             /\ cmds' \in [Procs -> [Agents -> Seq(Command)]]
  <2>1. CallerProc[c] \in Procs /\ CallerAgent[c] \in Agents
    BY CallerPlaces
  <2>2. CASE cleanupSubscription(CallerProc[c], CallerAgent[c], NoCaller)
    BY <2>1, <2>2, <1>1
  <2>3. CASE UNCHANGED <<agentSubscriptions, cmds>>
    BY <2>3 DEF TypeOK, RedisTypeOK
  <2>4. QED
    BY <1>2, <2>2, <2>3 DEF cleanupNewMessageCallback
<1>3. ASSUME NEW c \in Polls, registerNewMessageCallback(c)
      PROVE  /\ agentSubscriptions' \in [Procs -> [Agents -> Polls \cup {NoPoll}]]
             /\ cmds' \in [Procs -> [Agents -> Seq(Command)]]
  <2>1. CallerProc[c] \in Procs /\ CallerAgent[c] \in Agents /\ c \in Callers
    BY CallerPlaces
  <2>2. cmds' \in [Procs -> [Agents -> Seq(Command)]]
    BY <1>3, <2>1, SendTyped DEF registerNewMessageCallback, TypeOK
  <2>3. QED
    BY <1>3, <2>1, <2>2 DEF registerNewMessageCallback, TypeOK
<1>4. QED
  BY <1>1, <1>2, <1>3

\* The initial state is typed.
LEMMA InitTyped == Init => TypeOK
  BY BoundAssumption DEF Init, RedisInit, TypeOK, RedisTypeOK, Phase, Answer

\* The steps of a poll keep the state typed.
LEMMA PollStepsTyped ==
  ASSUME TypeOK, NEW c \in Polls, longpollNotifications(c) \/ PollStep(c)
  PROVE  TypeOK'
<1>1. CallerProc[c] \in Procs /\ CallerAgent[c] \in Agents /\ c \in Callers
  BY CallerPlaces
<1>2. CASE longpollNotifications(c)
  <2>1. rw' \in [Procs -> Seq(Request)]
    BY <1>1, <1>2, SendTyped DEF longpollNotifications, TypeOK
  <2>2. QED
    BY <1>1, <1>2, <2>1 DEF longpollNotifications, TypeOK, RedisTypeOK, Phase, boundVars
<1>3. CASE AnswerAtOnce(c)
  BY <1>1, <1>3 DEF AnswerAtOnce, Resolve, TypeOK, RedisTypeOK, redisVars, Phase, Answer, boundVars
<1>4. CASE WaitForMessage(c)
  <2>1. /\ agentSubscriptions' \in [Procs -> [Agents -> Polls \cup {NoPoll}]]
        /\ cmds' \in [Procs -> [Agents -> Seq(Command)]]
    BY <1>1, <1>4, SubscriptionsTyped DEF WaitForMessage
  <2>2. QED
    BY <1>1, <1>4, <2>1 DEF WaitForMessage, TypeOK, RedisTypeOK, Phase, boundVars
<1>5. CASE SetTimer(c)
  BY <1>1, <1>5 DEF SetTimer, TypeOK, RedisTypeOK, redisVars, Phase, boundVars
<1>6. CASE reactOnTimeout(c)
  <2>1. /\ agentSubscriptions' \in [Procs -> [Agents -> Polls \cup {NoPoll}]]
        /\ cmds' \in [Procs -> [Agents -> Seq(Command)]]
    BY <1>1, <1>6, SubscriptionsTyped DEF reactOnTimeout
  <2>2. QED
    BY <1>1, <1>6, <2>1 DEF reactOnTimeout, Resolve, TypeOK, RedisTypeOK, Phase, Answer, boundVars
<1>7. QED
  BY <1>2, <1>3, <1>4, <1>5, <1>6 DEF PollStep

\* The steps of an ack keep the state typed.
LEMMA AckStepsTyped ==
  ASSUME TypeOK, NEW k \in Acks, ackNewMessage(k) \/ AckCleanup(k)
  PROVE  TypeOK'
<1>1. CallerProc[k] \in Procs /\ CallerAgent[k] \in Agents /\ k \in Callers
  BY CallerPlaces
<1>2. CASE ackNewMessage(k)
  <2>1. rw' \in [Procs -> Seq(Request)]
    BY <1>1, <1>2, SendTyped DEF ackNewMessage, TypeOK
  <2>2. QED
    BY <1>1, <1>2, <2>1 DEF ackNewMessage, TypeOK, RedisTypeOK, Phase, boundVars
<1>3. CASE AckCleanup(k)
  <2>1. /\ agentSubscriptions' \in [Procs -> [Agents -> Polls \cup {NoPoll}]]
        /\ cmds' \in [Procs -> [Agents -> Seq(Command)]]
    <3>1. CASE cleanupSubscription(CallerProc[k], CallerAgent[k], k)
      BY <1>1, <3>1, SubscriptionsTyped
    <3>2. CASE UNCHANGED <<agentSubscriptions, cmds>>
      BY <3>2 DEF TypeOK, RedisTypeOK
    <3>3. QED
      BY <1>3, <3>1, <3>2 DEF AckCleanup
  <2>2. phase' \in [Callers -> Phase]
    BY <1>1, <1>3 DEF AckCleanup, TypeOK, Phase
  <2>3. QED
    BY <1>3, <2>1, <2>2 DEF AckCleanup, TypeOK, RedisTypeOK, boundVars
<1>4. QED
  BY <1>2, <1>3

\* The steps of redis keep the state typed.
LEMMA RedisTyped ==
  ASSUME TypeOK, NEW p \in Procs, RedisStep(p)
  PROVE  TypeOK'
<1>0. RedisTypeOK
  BY DEF TypeOK
<1>1. CASE GetExecuted(p)
  <2>1. RedisTypeOK'
    BY <1>0, <1>1, RedisStepsTyped DEF GetExecuted
  <2>2. Head(rw[p]).by \in Callers
    BY <1>0, <1>1, HeadOfRw DEF GetExecuted, RedisGet, HeadIs
  <2>3. store[CallerAgent[Head(rw[p]).by]] \in Value \cup {Nil}
    BY <1>0, <2>2, CallerPlaces DEF RedisTypeOK
  <2>4. QED
    BY <1>1, <2>1, <2>2, <2>3 DEF GetExecuted, TypeOK, Phase, boundVars
<1>2. CASE SetExecuted(p)
  <2>1. RedisTypeOK'
    BY <1>0, <1>2, RedisStepsTyped DEF SetExecuted
  <2>2. QED
    BY <1>2, <2>1 DEF SetExecuted, TypeOK, serviceVars, boundVars
<1>3. CASE DelExecuted(p)
  <2>1. RedisTypeOK'
    BY <1>0, <1>3, RedisStepsTyped DEF DelExecuted
  <2>2. QED
    BY <1>3, <2>1 DEF DelExecuted, TypeOK, Phase, boundVars
<1>4. QED
  BY <1>1, <1>2, <1>3 DEF RedisStep

\* The failures keep the state typed.
LEMMA FailuresTyped ==
  ASSUME TypeOK, NEW p \in Procs, LoseConnection(p) \/ Reconnect(p) \/ Crash(p)
  PROVE  TypeOK'
<1>0. RedisTypeOK
  BY DEF TypeOK
<1>1. CASE LoseConnection(p)
  <2>1. RedisTypeOK'
    BY <1>0, <1>1, RedisStepsTyped DEF LoseConnection
  <2>2. phase' \in [Callers -> Phase] /\ answer' \in [Polls -> Answer]
    BY <1>1 DEF LoseConnection, TypeOK, Phase, Answer
  <2>3. QED
    BY <1>1, <2>1, <2>2 DEF LoseConnection, TypeOK
<1>2. CASE Reconnect(p)
  <2>1. RedisTypeOK'
    BY <1>0, <1>2, RedisStepsTyped DEF Reconnect
  <2>2. QED
    BY <1>2, <2>1 DEF Reconnect, TypeOK, serviceVars, boundVars
<1>3. CASE Crash(p)
  <2>1. RedisTypeOK'
    BY <1>0, <1>3, RedisStepsTyped DEF Crash
  <2>2. phase' \in [Callers -> Phase] /\ answer' \in [Polls -> Answer]
    BY <1>3 DEF Crash, TypeOK, Phase, Answer
  <2>3. QED
    BY <1>3, <2>1, <2>2 DEF Crash, TypeOK
<1>4. QED
  BY <1>1, <1>2, <1>3

\* What a process sends and receives about one agent keeps the state typed.
LEMMA ChannelTyped ==
  ASSUME TypeOK, NEW p \in Procs, NEW a \in Agents,
         \/ flagNewMessage(p, a)
         \/ (RedisCommand(p, a) /\ UNCHANGED <<serviceVars, boundVars, woken>>)
         \/ OnEvent(p, a)
         \/ OnReply(p, a)
  PROVE  TypeOK'
<1>0. RedisTypeOK
  BY DEF TypeOK
<1>1. CASE flagNewMessage(p, a)
  <2>1. rw' \in [Procs -> Seq(Request)]
    BY <1>0, <1>1, SendTyped, FlagIsAValue DEF flagNewMessage
  <2>2. QED
    BY <1>1, <2>1 DEF flagNewMessage, TypeOK, RedisTypeOK, serviceVars
<1>2. CASE RedisCommand(p, a) /\ UNCHANGED <<serviceVars, boundVars, woken>>
  <2>1. RedisTypeOK'
    BY <1>0, <1>2, RedisStepsTyped
  <2>2. QED
    BY <1>2, <2>1 DEF TypeOK, serviceVars, boundVars
<1>3. CASE OnEvent(p, a)
  <2>1. inbox' \in [Procs -> [Agents -> Seq(Event)]]
    BY <1>0, <1>3, HeadOfInbox DEF OnEvent, Dequeue, RedisTypeOK
  <2>2. /\ agentSubscriptions' \in [Procs -> [Agents -> Polls \cup {NoPoll}]]
        /\ cmds' \in [Procs -> [Agents -> Seq(Command)]]
        /\ phase' \in [Callers -> Phase]
        /\ answer' \in [Polls -> Answer]
    <3> DEFINE c == agentSubscriptions[p][a]
    <3>1. CASE c # NoPoll /\ reactOnNewMessage(c)
      <4>1. c \in Polls /\ c \in Callers
        BY <3>1, CallerPlaces DEF TypeOK
      <4>2. CASE UNCHANGED <<agentSubscriptions, cmds, answer, phase>>
        BY <4>2 DEF TypeOK, RedisTypeOK
      <4>3. CASE /\ cleanupNewMessageCallback(c)
                 /\ Resolve(c, "true")
                 /\ phase' = [phase EXCEPT ![c] = "over"]
        <5>1. /\ agentSubscriptions' \in [Procs -> [Agents -> Polls \cup {NoPoll}]]
              /\ cmds' \in [Procs -> [Agents -> Seq(Command)]]
          BY <4>1, <4>3, SubscriptionsTyped
        <5>2. QED
          BY <4>1, <4>3, <5>1 DEF TypeOK, Resolve, Phase, Answer
      <4>4. QED
        BY <3>1, <4>2, <4>3 DEF reactOnNewMessage
    <3>2. CASE UNCHANGED <<agentSubscriptions, cmds, answer, phase>>
      BY <3>2 DEF TypeOK, RedisTypeOK
    <3>3. QED
      BY <1>3, <3>1, <3>2 DEF OnEvent
  <2>3. QED
    BY <1>3, <2>1, <2>2 DEF OnEvent, TypeOK, RedisTypeOK, boundVars
<1>4. CASE OnReply(p, a)
  <2>1. inbox' \in [Procs -> [Agents -> Seq(Event)]]
    BY <1>0, <1>4, HeadOfInbox DEF OnReply, Dequeue, RedisTypeOK
  <2>2. phase' \in [Callers -> Phase]
    BY <1>4 DEF OnReply, TypeOK, Phase
  <2>3. QED
    BY <1>4, <2>1, <2>2 DEF OnReply, TypeOK, RedisTypeOK, boundVars
<1>5. QED
  BY <1>1, <1>2, <1>3, <1>4

\* Every state the service reaches is typed.
THEOREM TypeCorrect == Spec => []TypeOK
<1>1. Init => TypeOK
  BY InitTyped
<1>2. TypeOK /\ [Next]_vars => TypeOK'
  <2> SUFFICES ASSUME TypeOK, [Next]_vars PROVE TypeOK'
    OBVIOUS
  <2>1. CASE Next
    BY <2>1, PollStepsTyped, AckStepsTyped, RedisTyped, FailuresTyped, ChannelTyped DEF Next
  <2>2. CASE UNCHANGED vars
    BY <2>2 DEF vars, redisVars, serviceVars, boundVars, TypeOK, RedisTypeOK
  <2>3. QED
    BY <2>1, <2>2
<1>3. QED
  BY <1>1, <1>2, PTL DEF Spec
-----------------------------------------------------------------------------
(* The map of callbacks, the subscriptions of redis and the events on      *)
(* their way.  SubscriptionAgreement, WakeupNotLost and WokenWhenArmed are *)
(* not inductive: why no command can undo the subscription of the poll     *)
(* that owns the entry is that its SUBSCRIBE is the last command sent      *)
(* (OwnIsLast), and why a late event cannot reach a poll whose timer is    *)
(* set is that its reply is read only after everything sent before it.     *)

Cmds(c) == cmds[CallerProc[c]][CallerAgent[c]]
Inbox(c) == inbox[CallerProc[c]][CallerAgent[c]]
Sub(c) == subscribed[CallerProc[c]][CallerAgent[c]]

NotRegistered == {"idle", "getting", "got"}

\* Poll c, with the commands q and events n of its channel, the subscription s and
\* the entry e of its agent, its phase, its answer, and whether it was woken.
PollView(c, q, n, s, e, ph, ans, w) ==
  /\ ph \in NotRegistered \cup {"subscribing", "arming", "armed", "over"}
  /\ ph \in NotRegistered => NoneOf(q, n, c) /\ e # c /\ ~w /\ ans = "none"
  /\ e = c => /\ ph \in {"subscribing", "arming", "armed", "over"}
              /\ OwnIsLast(q, n, c)
              /\ ans \in {"none", "error"}
              /\ ph # "over" => Intended(q, s)
              /\ ph \in {"arming", "armed"} => Quiet(q, n) /\ (HasSet(n) => w)
              /\ ph = "subscribing" => (SetAfterReply(n, c) => w)
              /\ w => HasSet(n)

PollInv(c) == PollView(c, Cmds(c), Inbox(c), Sub(c), Entry(c), phase[c], answer[c], c \in woken)

ChannelInv(p, a) ==
  /\ losses[p] = 0 => (Intended(cmds[p][a], subscribed[p][a]) <=> agentSubscriptions[p][a] # NoPoll)
  /\ \A c \in Polls : agentSubscriptions[p][a] = c => CallerProc[c] = p /\ CallerAgent[c] = a
  /\ \A c \in Polls : ~(CallerProc[c] = p /\ CallerAgent[c] = a) =>
       NoneOf(cmds[p][a], inbox[p][a], c)

\* The i-th request of p: the GET of a poll is on its way only while the poll waits
\* for it, and only once; a DEL is that of an ack.
RequestInv(p, i) ==
  /\ rw[p][i].op = "get" => /\ rw[p][i].by \in Polls
                            /\ CallerProc[rw[p][i].by] = p
                            /\ phase[rw[p][i].by] = "getting"
  /\ rw[p][i].op = "del" => rw[p][i].by \in Acks
  /\ \A j \in DOMAIN rw[p] :
       rw[p][i].op = "get" /\ rw[p][j].op = "get" /\ rw[p][i].by = rw[p][j].by => i = j

RwInv == \A p \in Procs : \A i \in DOMAIN rw[p] : RequestInv(p, i)

Inv ==
  /\ TypeOK
  /\ RwInv
  /\ \A c \in Polls : PollInv(c)
  /\ \A p \in Procs, a \in Agents : ChannelInv(p, a)

\* Nobody waits for the UNSUBSCRIBE of a poll, acks are not polls, no poll is NoPoll.
LEMMA PollsAreNotOthers ==
  /\ NoCaller \notin Polls
  /\ \A k \in Acks : k \notin Polls
  /\ NoPoll \notin Polls
  BY CallersAreRequests, CallerAssumption

\* The state a poll looks at is typed.
LEMMA ViewTyped ==
  ASSUME TypeOK, NEW c \in Polls
  PROVE  /\ CallerProc[c] \in Procs /\ CallerAgent[c] \in Agents /\ c \in Callers
         /\ Cmds(c) \in Seq(Command) /\ Inbox(c) \in Seq(Event) /\ Sub(c) \in BOOLEAN
         /\ Entry(c) \in Polls \cup {NoPoll}
         /\ phase[c] \in Phase /\ answer[c] \in Answer
  BY CallerPlaces DEF TypeOK, RedisTypeOK, Cmds, Inbox, Sub, Entry

\* A step that touches no channel and no entry keeps the view of every poll, when
\* each poll stays where it is, is still to register, goes from arming to armed, or
\* ends without being the one registered.
LEMMA FrameInv ==
  ASSUME Inv,
         UNCHANGED <<cmds, inbox, subscribed, agentSubscriptions, losses, woken>>,
         \A c \in Polls :
           \/ phase'[c] = phase[c] /\ answer'[c] = answer[c]
           \/ phase[c] \in NotRegistered /\ phase'[c] \in NotRegistered /\ answer'[c] = answer[c]
           \/ phase[c] \in NotRegistered /\ phase'[c] = "over"
           \/ phase[c] = "arming" /\ phase'[c] = "armed" /\ answer'[c] = answer[c]
           \/ Entry(c) # c /\ phase'[c] = "over"
  PROVE  /\ \A c \in Polls : PollInv(c)'
         /\ \A p \in Procs, a \in Agents : ChannelInv(p, a)'
<1>1. ASSUME NEW c \in Polls PROVE PollInv(c)'
  <2>1. /\ Cmds(c)' = Cmds(c) /\ Inbox(c)' = Inbox(c) /\ Sub(c)' = Sub(c)
        /\ Entry(c)' = Entry(c) /\ (c \in woken)' = (c \in woken)
    BY DEF Cmds, Inbox, Sub, Entry
  <2>2. PollInv(c)
    BY DEF Inv
  <2>3. QED
    BY <2>1, <2>2 DEF PollInv, PollView, NotRegistered
<1>2. ASSUME NEW p \in Procs, NEW a \in Agents PROVE ChannelInv(p, a)'
  BY DEF Inv, ChannelInv
<1>3. QED
  BY <1>1, <1>2

\* RwInv survives a step that leaves the queues alone and no poll while it waits.
LEMMA FrameRw ==
  ASSUME Inv, UNCHANGED rw,
         \A c \in Polls : phase[c] = "getting" => phase'[c] = "getting"
  PROVE  RwInv'
  BY DEF Inv, RwInv, RequestInv

\* RwInv survives a request other than the GET of a poll that waits already.
LEMMA SendRwInv ==
  ASSUME Inv, NEW p \in Procs, NEW r \in Request,
         rw' = [rw EXCEPT ![p] = Append(@, r)],
         \A c \in Polls : phase[c] = "getting" => phase'[c] = "getting",
         r.op = "get" => /\ r.by \in Polls /\ CallerProc[r.by] = p
                         /\ phase[r.by] = "idle" /\ phase'[r.by] = "getting",
         r.op = "del" => r.by \in Acks
  PROVE  RwInv'
<1> SUFFICES ASSUME NEW q \in Procs, NEW i \in DOMAIN rw'[q]
             PROVE  RequestInv(q, i)'
  BY DEF RwInv, RequestInv
<1>1. rw \in [Procs -> Seq(Request)] /\ RwInv
  BY DEF Inv, TypeOK, RedisTypeOK
<1>2. CASE q # p
  BY <1>1, <1>2 DEF RwInv, RequestInv
<1>3. CASE q = p
  <2>1. /\ rw'[p] = Append(rw[p], r) /\ rw[p] \in Seq(Request)
        /\ DOMAIN rw'[p] = 1..(Len(rw[p]) + 1) /\ DOMAIN rw[p] = 1..Len(rw[p])
        /\ Len(rw[p]) \in Nat
        /\ rw'[p][Len(rw[p]) + 1] = r
        /\ \A j \in DOMAIN rw[p] : rw'[p][j] = rw[p][j]
    BY <1>1
  <2>2. \A j \in DOMAIN rw'[p] : j \in DOMAIN rw[p] \/ j = Len(rw[p]) + 1
    BY <2>1
  <2>3. \A j \in DOMAIN rw[p] : rw[p][j].op = "get" => phase[rw[p][j].by] = "getting"
    BY <1>1 DEF RwInv, RequestInv
  <2>4. QED
    BY <1>1, <1>3, <2>1, <2>2, <2>3 DEF RwInv, RequestInv
<1>4. QED
  BY <1>2, <1>3

\* RwInv survives the execution of the oldest request, which leaves where they are
\* the polls whose GET it is not.
LEMMA ExecutedRwInv ==
  ASSUME Inv, NEW p \in Procs, rw[p] # <<>>, Executed(p),
         \A c \in Polls : (phase[c] = "getting" /\ phase'[c] # "getting")
           => Head(rw[p]).op = "get" /\ c = Head(rw[p]).by
  PROVE  RwInv'
<1> SUFFICES ASSUME NEW q \in Procs, NEW i \in DOMAIN rw'[q]
             PROVE  RequestInv(q, i)'
  BY DEF RwInv
<1>1. rw \in [Procs -> Seq(Request)] /\ RwInv
  BY DEF Inv, TypeOK, RedisTypeOK
<1>2. /\ Head(rw[p]) = rw[p][1] /\ 1 \in DOMAIN rw[p]
      /\ rw'[p] = Tail(rw[p])
      /\ \A j \in DOMAIN rw'[p] : rw'[p][j] = rw[p][j + 1] /\ j + 1 \in DOMAIN rw[p] /\ j \in Nat \ {0}
  BY <1>1 DEF Executed
<1>3. \A j \in DOMAIN rw[p] : Head(rw[p]).op = "get" /\ rw[p][j].op = "get" /\ j # 1
        => rw[p][j].by # Head(rw[p]).by
  BY <1>1, <1>2 DEF RwInv, RequestInv
<1>4. CASE q = p
  <2>1. /\ rw'[q][i] = rw[p][i + 1] /\ i + 1 \in DOMAIN rw[p] /\ i + 1 # 1
        /\ RequestInv(p, i + 1)
    BY <1>1, <1>2, <1>4 DEF RwInv
  <2>2. /\ rw'[q][i].op = "get" => /\ rw'[q][i].by \in Polls
                                   /\ CallerProc[rw'[q][i].by] = q
                                   /\ phase'[rw'[q][i].by] = "getting"
        /\ rw'[q][i].op = "del" => rw'[q][i].by \in Acks
    BY <1>3, <1>4, <2>1 DEF RequestInv
  <2>3. ASSUME NEW j \in DOMAIN rw'[q], rw'[q][i].op = "get", rw'[q][j].op = "get",
               rw'[q][i].by = rw'[q][j].by
        PROVE  i = j
    <3>1. rw'[q][j] = rw[p][j + 1] /\ j + 1 \in DOMAIN rw[p] /\ i \in Nat /\ j \in Nat
      BY <1>2, <1>4
    <3>2. i + 1 = j + 1
      BY <2>1, <2>3, <3>1 DEF RequestInv
    <3>3. QED
      BY <3>1, <3>2
  <2>4. QED
    BY <2>2, <2>3 DEF RequestInv
<1>5. CASE q # p
  <2>1. rw'[q] = rw[q] /\ RequestInv(q, i)
    BY <1>1, <1>5 DEF Executed, RwInv
  <2>2. Head(rw[p]).op = "get" => CallerProc[Head(rw[p]).by] = p
    BY <1>1, <1>2 DEF RwInv, RequestInv
  <2>3. QED
    BY <1>5, <2>1, <2>2 DEF RequestInv
<1>6. QED
  BY <1>4, <1>5

\* Cleaning up the entry of p and a, alone or with the oldest event of that channel
\* handled, by somebody whose UNSUBSCRIBE is not that of a poll.
LEMMA CleanupInv ==
  ASSUME Inv, NEW p \in Procs, NEW a \in Agents, NEW k \in Acks \cup {NoCaller},
         cleanupSubscription(p, a, k),
         UNCHANGED <<subscribed, losses, woken>>,
         inbox' = inbox \/ (inbox[p][a] # <<>> /\ Dequeue(p, a)),
         \A c \in Polls :
           \/ phase'[c] = phase[c] /\ answer'[c] = answer[c]
           \/ CallerProc[c] = p /\ CallerAgent[c] = a /\ phase'[c] = "over"
  PROVE  /\ \A c \in Polls : PollInv(c)'
         /\ \A q \in Procs, b \in Agents : ChannelInv(q, b)'
<1> DEFINE cmd == [op |-> "unsubscribe", by |-> k]
<1>1. /\ TypeOK
      /\ cmd \in Command /\ cmd.by = k /\ cmd.op = "unsubscribe"
      /\ inbox \in [Procs -> [Agents -> Seq(Event)]]
      /\ cmds \in [Procs -> [Agents -> Seq(Command)]]
      /\ agentSubscriptions \in [Procs -> [Agents -> Polls \cup {NoPoll}]]
  BY CallerPlaces DEF Inv, TypeOK, RedisTypeOK, Command
<1>2. ASSUME NEW c \in Polls PROVE PollInv(c)'
  <2>1. PollInv(c)
    BY DEF Inv
  <2>2. Sub(c)' = Sub(c) /\ (c \in woken)' = (c \in woken)
    BY DEF Sub
  <2>3. CASE CallerProc[c] = p /\ CallerAgent[c] = a
    <3>1. Cmds(c)' = Append(Cmds(c), cmd) /\ Entry(c)' = NoPoll
      BY <1>1, <2>3 DEF cleanupSubscription, unsubscribeKey, Cmds, Entry
    <3>2. Inbox(c)' = Inbox(c) \/ (Inbox(c) # <<>> /\ Inbox(c)' = Tail(Inbox(c)))
      <4>1. CASE inbox' = inbox
        BY <4>1 DEF Inbox
      <4>2. CASE inbox[p][a] # <<>> /\ Dequeue(p, a)
        BY <1>1, <2>3, <4>2 DEF Dequeue, Inbox
      <4>3. QED
        BY <4>1, <4>2
    <3>3. NoneOf(Cmds(c), Inbox(c), c) => NoneOf(Cmds(c)', Inbox(c), c)
      BY <1>1, <3>1, ViewTyped, SendLemma, PollsAreNotOthers
    <3>4. NoneOf(Cmds(c), Inbox(c), c) => NoneOf(Cmds(c)', Inbox(c)', c)
      <4>1. Cmds(c)' \in Seq(Command) /\ Inbox(c) \in Seq(Event)
        BY <1>1, <3>1, ViewTyped
      <4>2. CASE Inbox(c)' = Inbox(c)
        BY <3>3, <4>2
      <4>3. CASE Inbox(c) # <<>> /\ Inbox(c)' = Tail(Inbox(c))
        <5>1. NoneOf(Cmds(c)', Inbox(c), c) => NoneOf(Cmds(c)', Tail(Inbox(c)), c)
          BY <4>1, <4>3, DequeueLemma
        <5>2. QED
          BY <3>3, <4>3, <5>1
      <4>4. QED
        BY <3>2, <4>2, <4>3
    <3>5. phase'[c] \in NotRegistered => phase[c] \in NotRegistered /\ answer'[c] = answer[c]
      BY DEF NotRegistered
    <3>6. QED
      BY <2>1, <2>2, <3>1, <3>4, <3>5, PollsAreNotOthers DEF PollInv, PollView
  <2>4. CASE ~(CallerProc[c] = p /\ CallerAgent[c] = a)
    <3>1. /\ Cmds(c)' = Cmds(c) /\ Entry(c)' = Entry(c) /\ Inbox(c)' = Inbox(c)
          /\ phase'[c] = phase[c] /\ answer'[c] = answer[c]
      BY <1>1, <2>4, CallerPlaces
      DEF cleanupSubscription, unsubscribeKey, Dequeue, Cmds, Entry, Inbox
    <3>2. QED
      BY <2>1, <2>2, <3>1 DEF PollInv, PollView
  <2>5. QED
    BY <2>3, <2>4
<1>3. ASSUME NEW q \in Procs, NEW b \in Agents PROVE ChannelInv(q, b)'
  <2>1. ChannelInv(q, b)
    BY DEF Inv
  <2>2. CASE q = p /\ b = a
    <3>1. cmds'[p][a] = Append(cmds[p][a], cmd) /\ agentSubscriptions'[p][a] = NoPoll
      BY <1>1 DEF cleanupSubscription, unsubscribeKey
    <3>2. ~Intended(cmds'[p][a], subscribed'[p][a])
      BY <1>1, <3>1, IntendedAppend
    <3>3. ASSUME NEW c \in Polls, NoneOf(cmds[p][a], inbox[p][a], c)
          PROVE  NoneOf(cmds'[p][a], inbox'[p][a], c)
      <4>1. NoneOf(cmds'[p][a], inbox[p][a], c)
        BY <1>1, <3>1, <3>3, SendLemma, PollsAreNotOthers
      <4>2. inbox'[p][a] = inbox[p][a] \/ (inbox[p][a] # <<>> /\ inbox'[p][a] = Tail(inbox[p][a]))
        <5>1. CASE inbox' = inbox
          BY <5>1
        <5>2. CASE inbox[p][a] # <<>> /\ Dequeue(p, a)
          BY <1>1, <5>2 DEF Dequeue
        <5>3. QED
          BY <5>1, <5>2
      <4>3. cmds'[p][a] \in Seq(Command) /\ inbox[p][a] \in Seq(Event)
        BY <1>1, <3>1
      <4>4. QED
        BY <4>1, <4>2, <4>3, DequeueLemma
    <3>4. QED
      BY <2>1, <2>2, <3>1, <3>2, <3>3, PollsAreNotOthers DEF ChannelInv
  <2>3. CASE ~(q = p /\ b = a)
    <3>1. /\ cmds'[q][b] = cmds[q][b] /\ agentSubscriptions'[q][b] = agentSubscriptions[q][b]
          /\ inbox'[q][b] = inbox[q][b]
      BY <1>1, <2>3 DEF cleanupSubscription, unsubscribeKey, Dequeue
    <3>2. QED
      BY <2>1, <3>1 DEF ChannelInv
  <2>4. QED
    BY <2>2, <2>3
<1>4. QED
  BY <1>2, <1>3

\* Registering the callback of c.
LEMMA RegisterInv ==
  ASSUME Inv, NEW c \in Polls, WaitForMessage(c)
  PROVE  Inv'
<1> DEFINE p == CallerProc[c]
           a == CallerAgent[c]
           cmd == [op |-> "subscribe", by |-> c]
<1>1. /\ TypeOK /\ p \in Procs /\ a \in Agents /\ c \in Callers
      /\ cmd \in Command /\ cmd.by = c /\ cmd.op = "subscribe"
      /\ cmds \in [Procs -> [Agents -> Seq(Command)]]
      /\ agentSubscriptions \in [Procs -> [Agents -> Polls \cup {NoPoll}]]
      /\ phase \in [Callers -> Phase]
  BY CallerPlaces DEF Inv, TypeOK, RedisTypeOK, Command
<1>2. /\ cmds' = [cmds EXCEPT ![p][a] = Append(@, cmd)]
      /\ agentSubscriptions' = [agentSubscriptions EXCEPT ![p][a] = c]
      /\ phase[c] = "got" /\ phase' = [phase EXCEPT ![c] = "subscribing"]
      /\ UNCHANGED <<store, rw, inbox, subscribed, answer, losses, woken>>
  BY DEF WaitForMessage, registerNewMessageCallback, subscribeKey, At, boundVars
<1>3. ASSUME NEW d \in Polls PROVE PollInv(d)'
  <2>1. PollInv(d) /\ PollInv(c)
    BY DEF Inv
  <2>2. Sub(d)' = Sub(d) /\ Inbox(d)' = Inbox(d) /\ (d \in woken)' = (d \in woken)
    BY <1>2 DEF Sub, Inbox
  <2>3. /\ Cmds(d) \in Seq(Command) /\ Inbox(d) \in Seq(Event) /\ d \in Callers
        /\ CallerProc[d] \in Procs /\ CallerAgent[d] \in Agents
    BY <1>1, ViewTyped
  <2>4. CASE d = c
    <3>1. Cmds(c)' = Append(Cmds(c), cmd) /\ Entry(c)' = c /\ phase'[c] = "subscribing"
      BY <1>1, <1>2 DEF Cmds, Entry
    <3>2. NoneOf(Cmds(c), Inbox(c), c) /\ c \notin woken
      BY <1>2, <2>1 DEF PollInv, PollView, NotRegistered
    <3>3. /\ OwnIsLast(Cmds(c)', Inbox(c), c) /\ ~SetAfterReply(Inbox(c), c)
          /\ Intended(Cmds(c)', Sub(c))
      BY <1>1, <2>3, <2>4, <3>1, <3>2, SendLemma, IntendedAppend
    <3>4. answer[c] \in {"none", "error"}
      BY <2>1, <1>2 DEF PollInv, PollView, NotRegistered
    <3>5. QED
      BY <1>2, <2>2, <2>4, <3>1, <3>2, <3>3, <3>4 DEF PollInv, PollView, NotRegistered
  <2>5. CASE d # c /\ CallerProc[d] = p /\ CallerAgent[d] = a
    <3>1. /\ Cmds(d)' = Append(Cmds(d), cmd) /\ Entry(d)' = c
          /\ phase'[d] = phase[d] /\ answer'[d] = answer[d]
      BY <1>1, <1>2, <2>3, <2>5 DEF Cmds, Entry
    <3>2. NoneOf(Cmds(d), Inbox(d), d) => NoneOf(Cmds(d)', Inbox(d), d)
      BY <1>1, <2>3, <2>5, <3>1, SendLemma
    <3>3. QED
      BY <2>1, <2>2, <2>5, <3>1, <3>2 DEF PollInv, PollView
  <2>6. CASE ~(CallerProc[d] = p /\ CallerAgent[d] = a)
    <3>1. /\ Cmds(d)' = Cmds(d) /\ Entry(d)' = Entry(d)
          /\ phase'[d] = phase[d] /\ answer'[d] = answer[d]
      BY <1>1, <1>2, <2>3, <2>6 DEF Cmds, Entry
    <3>2. QED
      BY <2>1, <2>2, <3>1 DEF PollInv, PollView
  <2>7. QED
    BY <2>4, <2>5, <2>6
<1>4. ASSUME NEW q \in Procs, NEW b \in Agents PROVE ChannelInv(q, b)'
  <2>1. ChannelInv(q, b)
    BY DEF Inv
  <2>2. CASE q = p /\ b = a
    <3>1. cmds'[p][a] = Append(cmds[p][a], cmd) /\ agentSubscriptions'[p][a] = c
      BY <1>1, <1>2
    <3>2. Intended(cmds'[p][a], subscribed'[p][a])
      BY <1>1, <3>1, IntendedAppend
    <3>3. \A d \in Polls : d # c /\ NoneOf(cmds[p][a], inbox[p][a], d)
            => NoneOf(cmds'[p][a], inbox'[p][a], d)
      <4>1. inbox' = inbox /\ cmds[p][a] \in Seq(Command) /\ inbox[p][a] \in Seq(Event)
        BY <1>1, <1>2 DEF TypeOK, RedisTypeOK
      <4>2. QED
        BY <1>1, <3>1, <4>1, SendLemma
    <3>4. QED
      BY <2>1, <2>2, <3>1, <3>2, <3>3, PollsAreNotOthers DEF ChannelInv
  <2>3. CASE ~(q = p /\ b = a)
    <3>1. cmds'[q][b] = cmds[q][b] /\ agentSubscriptions'[q][b] = agentSubscriptions[q][b]
      BY <1>1, <1>2, <2>3
    <3>2. QED
      BY <1>2, <2>1, <3>1 DEF ChannelInv
  <2>4. QED
    BY <2>2, <2>3
<1>5. TypeOK'
  BY <1>1, PollStepsTyped DEF PollStep
<1>6. RwInv'
  BY <1>1, <1>2, FrameRw
<1>7. QED
  BY <1>3, <1>4, <1>5, <1>6 DEF Inv

\* Handling the oldest event or reply of channel p, a without touching an entry: a
\* `set' only when there is no entry to wake up; the reply of its own SUBSCRIBE takes
\* a poll from subscribing to arming.
LEMMA DequeueInv ==
  ASSUME Inv, NEW p \in Procs, NEW a \in Agents,
         inbox[p][a] # <<>>, Dequeue(p, a),
         UNCHANGED <<cmds, subscribed, agentSubscriptions, losses, woken, answer>>,
         Received(p, a).type = "set" => agentSubscriptions[p][a] = NoPoll,
         \A c \in Polls :
           \/ /\ phase'[c] = phase[c]
              /\ ~(IsReply(Received(p, a)) /\ Received(p, a).by = c /\ phase[c] = "subscribing")
           \/ /\ phase[c] = "subscribing" /\ phase'[c] = "arming"
              /\ IsReply(Received(p, a)) /\ Received(p, a).by = c
  PROVE  /\ \A c \in Polls : PollInv(c)'
         /\ \A q \in Procs, b \in Agents : ChannelInv(q, b)'
<1>1. TypeOK /\ inbox \in [Procs -> [Agents -> Seq(Event)]]
  BY DEF Inv, TypeOK, RedisTypeOK
<1>2. ASSUME NEW c \in Polls PROVE PollInv(c)'
  <2>1. PollInv(c)
    BY DEF Inv
  <2>2. /\ Sub(c)' = Sub(c) /\ (c \in woken)' = (c \in woken)
        /\ Cmds(c)' = Cmds(c) /\ Entry(c)' = Entry(c)
    BY DEF Sub, Cmds, Entry
  <2>3. Cmds(c) \in Seq(Command) /\ Inbox(c) \in Seq(Event)
    BY <1>1, ViewTyped
  <2>4. CASE CallerProc[c] = p /\ CallerAgent[c] = a
    <3>1. /\ Inbox(c) # <<>> /\ Inbox(c)' = Tail(Inbox(c))
          /\ Head(Inbox(c)) = Received(p, a)
          /\ Head(Inbox(c)).type = "set" => Entry(c) = NoPoll
      BY <1>1, <2>4 DEF Dequeue, Inbox, Received, Entry
    <3>2. /\ NoneOf(Cmds(c), Inbox(c), c) => NoneOf(Cmds(c), Inbox(c)', c)
          /\ OwnIsLast(Cmds(c), Inbox(c), c) => OwnIsLast(Cmds(c), Inbox(c)', c)
          /\ Quiet(Cmds(c), Inbox(c)) => Quiet(Cmds(c), Inbox(c)')
          /\ HasSet(Inbox(c)) /\ Head(Inbox(c)).type # "set" => HasSet(Inbox(c)')
          /\ HasSet(Inbox(c)') => HasSet(Inbox(c))
          /\ SetAfterReply(Inbox(c)', c) => SetAfterReply(Inbox(c), c)
      BY <2>3, <3>1, DequeueLemma
    <3>3. IsReply(Received(p, a)) /\ Received(p, a).by = c =>
            /\ OwnIsLast(Cmds(c), Inbox(c), c) => Quiet(Cmds(c), Inbox(c)')
            /\ HasSet(Inbox(c)') => SetAfterReply(Inbox(c), c)
      BY <2>3, <3>1, DequeueLemma
    <3>4. CASE phase'[c] = phase[c]
      BY <2>1, <2>2, <3>1, <3>2, <3>4, PollsAreNotOthers DEF PollInv, PollView
    <3>5. CASE /\ phase[c] = "subscribing" /\ phase'[c] = "arming"
               /\ IsReply(Received(p, a)) /\ Received(p, a).by = c
      BY <2>1, <2>2, <3>1, <3>2, <3>3, <3>5, PollsAreNotOthers DEF PollInv, PollView, NotRegistered
    <3>6. QED
      BY <3>4, <3>5
  <2>5. CASE ~(CallerProc[c] = p /\ CallerAgent[c] = a)
    <3>1. Inbox(c)' = Inbox(c)
      BY <1>1, <2>5, CallerPlaces DEF Dequeue, Inbox
    <3>2. NoneOf(cmds[p][a], inbox[p][a], c) /\ 1 \in DOMAIN inbox[p][a]
      BY <1>1, <2>5 DEF Inv, ChannelInv
    <3>3. ~(IsReply(Received(p, a)) /\ Received(p, a).by = c)
      BY <1>1, <3>2 DEF NoneOf, Received
    <3>4. QED
      BY <2>1, <2>2, <3>1, <3>3 DEF PollInv
  <2>6. QED
    BY <2>4, <2>5
<1>3. ASSUME NEW q \in Procs, NEW b \in Agents PROVE ChannelInv(q, b)'
  <2>1. ChannelInv(q, b)
    BY DEF Inv
  <2>2. cmds[q][b] \in Seq(Command) /\ inbox[q][b] \in Seq(Event)
    BY DEF Inv, TypeOK, RedisTypeOK
  <2>3. \A c \in Polls : NoneOf(cmds[q][b], inbox[q][b], c) => NoneOf(cmds[q][b], inbox'[q][b], c)
    <3>1. inbox'[q][b] = inbox[q][b] \/ (inbox[q][b] # <<>> /\ inbox'[q][b] = Tail(inbox[q][b]))
      BY <1>1 DEF Dequeue
    <3>2. QED
      BY <2>2, <3>1, DequeueLemma
  <2>4. QED
    BY <2>1, <2>3 DEF ChannelInv
<1>4. QED
  BY <1>2, <1>3

\* An event wakes up the poll registered for the agent, or nobody.
LEMMA OnEventInv ==
  ASSUME Inv, NEW p \in Procs, NEW a \in Agents, OnEvent(p, a)
  PROVE  Inv'
<1> DEFINE c == agentSubscriptions[p][a]
<1>1. TypeOK /\ TypeOK'
  BY ChannelTyped DEF Inv
<1>2. /\ inbox[p][a] # <<>> /\ Dequeue(p, a) /\ Received(p, a).type \in {"set", "del"}
      /\ UNCHANGED <<rw, subscribed, woken, losses>>
  BY DEF OnEvent, boundVars
<1>3. CASE c # NoPoll /\ ~wasResponseSent(c) /\ reactOnNewMessage(c)
  <2>1. /\ c \in Polls /\ CallerProc[c] = p /\ CallerAgent[c] = a /\ c \in Callers
        /\ Entry(c) = c
    BY <1>1, <1>3, CallerPlaces DEF Inv, ChannelInv, TypeOK, Entry
  <2>2. /\ cleanupSubscription(p, a, NoCaller)
        /\ Resolve(c, "true") /\ phase' = [phase EXCEPT ![c] = "over"]
    BY <1>3, <2>1 DEF reactOnNewMessage, cleanupNewMessageCallback
  <2>3. \A d \in Polls : \/ phase'[d] = phase[d] /\ answer'[d] = answer[d]
                         \/ CallerProc[d] = p /\ CallerAgent[d] = a /\ phase'[d] = "over"
    BY <1>1, <2>1, <2>2, CallerPlaces DEF Resolve, TypeOK
  <2>4. /\ \A d \in Polls : PollInv(d)'
        /\ \A q \in Procs, b \in Agents : ChannelInv(q, b)'
    BY <1>2, <2>2, <2>3, CleanupInv
  <2>5. phase[c] # "getting"
    BY <2>1 DEF Inv, PollInv, PollView, NotRegistered
  <2>6. RwInv'
    BY <1>1, <1>2, <2>1, <2>2, <2>5, FrameRw, CallerPlaces DEF TypeOK
  <2>7. QED
    BY <1>1, <2>4, <2>6 DEF Inv
<1>4. CASE /\ UNCHANGED <<agentSubscriptions, cmds, answer, phase>>
           /\ Received(p, a).type = "set" => c = NoPoll
  <2>1. ~IsReply(Received(p, a))
    BY <1>2 DEF IsReply
  <2>2. \A d \in Polls : phase'[d] = phase[d]
    BY <1>4
  <2>3. /\ \A d \in Polls : PollInv(d)'
        /\ \A q \in Procs, b \in Agents : ChannelInv(q, b)'
    BY <1>2, <1>4, <2>1, <2>2, DequeueInv
  <2>4. RwInv'
    BY <1>2, <2>2, FrameRw
  <2>5. QED
    BY <1>1, <2>3, <2>4 DEF Inv
<1>5. c # NoPoll => ~wasResponseSent(c)
  <2>1. SUFFICES ASSUME c # NoPoll PROVE ~wasResponseSent(c)
    OBVIOUS
  <2>2. c \in Polls /\ CallerProc[c] = p /\ CallerAgent[c] = a
    BY <1>1, <2>1 DEF Inv, ChannelInv, TypeOK
  <2>3. QED
    BY <2>2 DEF Inv, PollInv, PollView, Entry, wasResponseSent
<1>6. QED
  BY <1>3, <1>4, <1>5 DEF OnEvent, reactOnNewMessage, isOurKeyspaceSetNotification

\* A reply lets the request that waits for it continue.
LEMMA OnReplyInv ==
  ASSUME Inv, NEW p \in Procs, NEW a \in Agents, OnReply(p, a)
  PROVE  Inv'
<1> DEFINE k == Received(p, a).by
<1>1. TypeOK /\ TypeOK'
  BY ChannelTyped DEF Inv
<1>2. /\ inbox[p][a] # <<>> /\ Dequeue(p, a) /\ IsReply(Received(p, a))
      /\ UNCHANGED <<rw, cmds, subscribed, agentSubscriptions, answer, woken, losses>>
      /\ Received(p, a).type # "set"
  BY DEF OnReply, boundVars, IsReply
<1>4. phase' = [c \in Callers |->
                  IF c = k /\ phase[c] = "subscribing" THEN "arming"
                  ELSE IF c = k /\ phase[c] = "unsubscribing" THEN "over"
                  ELSE phase[c]]
  BY DEF OnReply, At
<1>5. \A c \in Polls : phase[c] # "unsubscribing"
  BY DEF Inv, PollInv, PollView, NotRegistered
<1>6. \A c \in Polls :
        \/ /\ phase'[c] = phase[c]
           /\ ~(IsReply(Received(p, a)) /\ Received(p, a).by = c /\ phase[c] = "subscribing")
        \/ /\ phase[c] = "subscribing" /\ phase'[c] = "arming"
           /\ IsReply(Received(p, a)) /\ Received(p, a).by = c
  BY <1>2, <1>4, <1>5, CallerPlaces
<1>7. /\ \A c \in Polls : PollInv(c)'
      /\ \A q \in Procs, b \in Agents : ChannelInv(q, b)'
  BY <1>2, <1>6, DequeueInv
<1>8. RwInv'
  BY <1>2, <1>6, FrameRw
<1>9. QED
  BY <1>1, <1>7, <1>8 DEF Inv

\* Redis executes a command of the subscriber connection.
LEMMA CommandInv ==
  ASSUME Inv, NEW p \in Procs, NEW a \in Agents,
         RedisCommand(p, a), UNCHANGED <<serviceVars, boundVars, woken>>
  PROVE  Inv'
<1> DEFINE cmd == Head(cmds[p][a])
<1>1. TypeOK /\ TypeOK'
  BY ChannelTyped DEF Inv
<1>2. /\ cmds[p][a] # <<>> /\ cmds' = [cmds EXCEPT ![p][a] = Tail(@)]
      /\ inbox' = [inbox EXCEPT ![p][a] = Append(@, ReplyTo(cmd))]
      /\ subscribed' = [subscribed EXCEPT ![p][a] = (cmd.op = "subscribe")]
      /\ UNCHANGED <<rw, agentSubscriptions, phase, answer, losses, woken>>
  BY DEF RedisCommand, ReplyTo, serviceVars, boundVars
<1>3. /\ cmds \in [Procs -> [Agents -> Seq(Command)]]
      /\ inbox \in [Procs -> [Agents -> Seq(Event)]]
      /\ subscribed \in [Procs -> [Agents -> BOOLEAN]]
  BY <1>1 DEF TypeOK, RedisTypeOK
<1>4. /\ cmds'[p][a] = Tail(cmds[p][a])
      /\ inbox'[p][a] = Append(inbox[p][a], ReplyTo(cmd))
      /\ subscribed'[p][a] = (cmd.op = "subscribe")
      /\ cmds[p][a] \in Seq(Command) /\ inbox[p][a] \in Seq(Event)
  BY <1>2, <1>3
<1>5. ASSUME NEW c
      PROVE  /\ NoneOf(cmds[p][a], inbox[p][a], c) => NoneOf(cmds'[p][a], inbox'[p][a], c)
             /\ OwnIsLast(cmds[p][a], inbox[p][a], c) => OwnIsLast(cmds'[p][a], inbox'[p][a], c)
             /\ HasSet(inbox[p][a]) => HasSet(inbox'[p][a])
             /\ SetAfterReply(inbox'[p][a], c) => SetAfterReply(inbox[p][a], c)
             /\ \A s : Intended(cmds'[p][a], subscribed'[p][a]) <=> Intended(cmds[p][a], s)
  <2> DEFINE q == cmds[p][a]
             n == inbox[p][a]
             q1 == Tail(q)
             n1 == Append(n, ReplyTo(Head(q)))
  <2>1. q \in Seq(Command) /\ n \in Seq(Event) /\ q # <<>>
    BY <1>2, <1>4
  <2>2. /\ NoneOf(q, n, c) => NoneOf(q1, n1, c)
        /\ OwnIsLast(q, n, c) => OwnIsLast(q1, n1, c)
        /\ HasSet(n) => HasSet(n1)
        /\ SetAfterReply(n1, c) => SetAfterReply(n, c)
        /\ \A s : Intended(q1, Head(q).op = "subscribe") <=> Intended(q, s)
    BY <2>1, ExecuteLemma
  <2>3. QED
    BY <1>4, <2>2
<1>6. ASSUME NEW c \in Polls PROVE PollInv(c)'
  <2>1. PollInv(c)
    BY DEF Inv
  <2>2. /\ (c \in woken)' = (c \in woken) /\ Entry(c)' = Entry(c)
        /\ phase'[c] = phase[c] /\ answer'[c] = answer[c]
    BY <1>2 DEF Entry
  <2>3. CASE CallerProc[c] = p /\ CallerAgent[c] = a
    <3>1. /\ Cmds(c) = cmds[p][a] /\ Inbox(c) = inbox[p][a]
          /\ Cmds(c)' = cmds'[p][a] /\ Inbox(c)' = inbox'[p][a] /\ Sub(c)' = subscribed'[p][a]
      BY <2>3 DEF Cmds, Inbox, Sub
    <3>2. ~Quiet(Cmds(c), Inbox(c))
      BY <1>2, <3>1 DEF Quiet
    <3>3. QED
      BY <1>5, <2>1, <2>2, <3>1, <3>2 DEF PollInv, PollView
  <2>4. CASE ~(CallerProc[c] = p /\ CallerAgent[c] = a)
    <3>1. Cmds(c)' = Cmds(c) /\ Inbox(c)' = Inbox(c) /\ Sub(c)' = Sub(c)
      BY <1>2, <1>3, <2>4, CallerPlaces DEF Cmds, Inbox, Sub
    <3>2. QED
      BY <2>1, <2>2, <3>1 DEF PollInv
  <2>5. QED
    BY <2>3, <2>4
<1>7. ASSUME NEW q \in Procs, NEW b \in Agents PROVE ChannelInv(q, b)'
  <2>1. ChannelInv(q, b)
    BY DEF Inv
  <2>2. CASE q = p /\ b = a
    BY <1>2, <1>5, <2>1, <2>2 DEF ChannelInv
  <2>3. CASE ~(q = p /\ b = a)
    <3>1. /\ cmds'[q][b] = cmds[q][b] /\ inbox'[q][b] = inbox[q][b]
          /\ subscribed'[q][b] = subscribed[q][b]
      BY <1>2, <1>3, <2>3
    <3>2. QED
      BY <1>2, <2>1, <3>1 DEF ChannelInv
  <2>4. QED
    BY <2>2, <2>3
<1>8. RwInv'
  BY <1>2, FrameRw
<1>9. QED
  BY <1>1, <1>6, <1>7, <1>8 DEF Inv

\* Redis announces a write to the key a; with a `set' it wakes up who listens.
LEMMA PublishInv ==
  ASSUME Inv, NEW a \in Agents, NEW type \in {"set", "del"}, Publish(a, type),
         UNCHANGED <<cmds, subscribed, agentSubscriptions, losses, answer>>,
         \A c \in Polls : phase'[c] = phase[c],
         woken' = IF type = "set"
                  THEN woken \cup {c \in Polls : CallerAgent[c] = a /\ Listening(c)}
                  ELSE woken
  PROVE  /\ \A c \in Polls : PollInv(c)'
         /\ \A q \in Procs, b \in Agents : ChannelInv(q, b)'
<1>1. /\ TypeOK /\ inbox \in [Procs -> [Agents -> Seq(Event)]]
      /\ cmds \in [Procs -> [Agents -> Seq(Command)]]
  BY DEF Inv, TypeOK, RedisTypeOK
<1>2. ASSUME NEW q \in Procs, NEW b \in Agents
      PROVE  inbox'[q][b] = IF b = a /\ up[q] /\ subscribed[q][a]
                            THEN Append(inbox[q][b], [type |-> type]) ELSE inbox[q][b]
  BY <1>1 DEF Publish
<1>3. ASSUME NEW c \in Polls PROVE PollInv(c)'
  <2>1. PollInv(c)
    BY DEF Inv
  <2>2. /\ Cmds(c)' = Cmds(c) /\ Sub(c)' = Sub(c) /\ Entry(c)' = Entry(c)
        /\ phase'[c] = phase[c] /\ answer'[c] = answer[c]
        /\ CallerProc[c] \in Procs /\ CallerAgent[c] \in Agents
        /\ Cmds(c) \in Seq(Command) /\ Inbox(c) \in Seq(Event)
    BY <1>1, ViewTyped DEF Cmds, Sub, Entry
  <2>3. CASE CallerAgent[c] = a /\ up[CallerProc[c]] /\ Sub(c)
    <3>1. Inbox(c)' = Append(Inbox(c), [type |-> type])
      BY <1>2, <2>2, <2>3 DEF Inbox, Sub
    <3>2. Listening(c) <=> /\ Entry(c) = c /\ Cmds(c) = <<>>
                           /\ phase[c] \in {"subscribing", "arming", "armed"}
      BY <2>3 DEF Listening, Cmds, Sub
    <3>3. /\ NoneOf(Cmds(c), Inbox(c), c) => NoneOf(Cmds(c), Inbox(c)', c)
          /\ OwnIsLast(Cmds(c), Inbox(c), c) => OwnIsLast(Cmds(c), Inbox(c)', c)
          /\ Quiet(Cmds(c), Inbox(c)) => Quiet(Cmds(c), Inbox(c)') /\ Cmds(c) = <<>>
          /\ HasSet(Inbox(c)) => HasSet(Inbox(c)')
          /\ type = "set" => HasSet(Inbox(c)')
          /\ type = "del" /\ HasSet(Inbox(c)') => HasSet(Inbox(c))
          /\ type = "del" /\ SetAfterReply(Inbox(c)', c) => SetAfterReply(Inbox(c), c)
          /\ OwnIsLast(Cmds(c), Inbox(c), c) /\ SetAfterReply(Inbox(c)', c) => Cmds(c) = <<>>
      <4> DEFINE n1 == Append(Inbox(c), [type |-> type])
      <4>1. /\ NoneOf(Cmds(c), Inbox(c), c) => NoneOf(Cmds(c), n1, c)
            /\ OwnIsLast(Cmds(c), Inbox(c), c) => OwnIsLast(Cmds(c), n1, c)
            /\ Quiet(Cmds(c), Inbox(c)) => Quiet(Cmds(c), n1)
            /\ HasSet(Inbox(c)) => HasSet(n1)
            /\ type = "set" => HasSet(n1)
            /\ type = "del" /\ HasSet(n1) => HasSet(Inbox(c))
            /\ type = "del" /\ SetAfterReply(n1, c) => SetAfterReply(Inbox(c), c)
            /\ OwnIsLast(Cmds(c), Inbox(c), c) /\ SetAfterReply(n1, c) => Cmds(c) = <<>>
        BY <2>2, PublishLemma
      <4>2. Quiet(Cmds(c), Inbox(c)) => Cmds(c) = <<>>
        BY DEF Quiet
      <4>3. QED
        BY <3>1, <4>1, <4>2
    <3>4. /\ type = "set" => ((c \in woken') <=> (c \in woken \/ Listening(c)))
          /\ type = "del" => ((c \in woken') <=> (c \in woken))
      BY <2>3
    <3>5. CASE type = "set"
      BY <2>1, <2>2, <3>2, <3>3, <3>4, <3>5 DEF PollInv, PollView, NotRegistered
    <3>6. CASE type = "del"
      BY <2>1, <2>2, <3>3, <3>4, <3>6 DEF PollInv, PollView
    <3>7. QED
      BY <3>5, <3>6
  <2>4. CASE ~(CallerAgent[c] = a /\ up[CallerProc[c]] /\ Sub(c))
    <3>1. Inbox(c)' = Inbox(c)
      BY <1>2, <2>2, <2>4 DEF Inbox, Sub
    <3>2. (c \in woken') <=> (c \in woken)
      BY <2>4 DEF Listening, Sub
    <3>3. QED
      BY <2>1, <2>2, <3>1, <3>2 DEF PollInv, PollView
  <2>5. QED
    BY <2>3, <2>4
<1>4. ASSUME NEW q \in Procs, NEW b \in Agents PROVE ChannelInv(q, b)'
  <2>1. ChannelInv(q, b) /\ cmds[q][b] \in Seq(Command) /\ inbox[q][b] \in Seq(Event)
    BY <1>1 DEF Inv
  <2>2. \A c \in Polls : NoneOf(cmds[q][b], inbox[q][b], c) => NoneOf(cmds[q][b], inbox'[q][b], c)
    BY <1>2, <2>1, PublishLemma
  <2>3. QED
    BY <2>1, <2>2 DEF ChannelInv
<1>5. QED
  BY <1>3, <1>4

\* The three requests redis executes.
LEMMA RedisStepInv ==
  ASSUME Inv, NEW p \in Procs, RedisStep(p)
  PROVE  Inv'
<1>1. TypeOK /\ TypeOK' /\ RedisTypeOK /\ RwInv
  BY RedisTyped DEF Inv, TypeOK
<1>2. rw[p] # <<>> /\ Executed(p) /\ Head(rw[p]) = rw[p][1] /\ 1 \in DOMAIN rw[p]
      /\ Head(rw[p]).key \in Agents
  BY <1>1, HeadOfRw DEF RedisStep, GetExecuted, SetExecuted, DelExecuted,
                        RedisGet, RedisSet, RedisDel, HeadIs, TypeOK, RedisTypeOK
<1>3. RequestInv(p, 1)
  BY <1>1, <1>2 DEF RwInv
<1>4. CASE GetExecuted(p)
  <2> DEFINE c == Head(rw[p]).by
  <2>1. c \in Polls /\ phase[c] = "getting" /\ Head(rw[p]).op = "get" /\ c \in Callers
    BY <1>2, <1>3, <1>4, CallerPlaces DEF RequestInv, GetExecuted, RedisGet, HeadIs
  <2>2. /\ phase' = [phase EXCEPT ![c] = "got"]
        /\ UNCHANGED <<cmds, inbox, subscribed, agentSubscriptions, losses, woken, answer>>
    BY <1>4 DEF GetExecuted, RedisGet, boundVars
  <2>3. \A d \in Polls : \/ phase'[d] = phase[d] /\ answer'[d] = answer[d] /\ d # c
                         \/ d = c /\ phase[d] \in NotRegistered /\ phase'[d] \in NotRegistered
                            /\ answer'[d] = answer[d]
    BY <1>1, <2>1, <2>2, CallerPlaces DEF NotRegistered, TypeOK
  <2>4. /\ \A d \in Polls : PollInv(d)'
        /\ \A q \in Procs, b \in Agents : ChannelInv(q, b)'
    BY <2>2, <2>3, FrameInv
  <2>5. \A d \in Polls : (phase[d] = "getting" /\ phase'[d] # "getting")
           => Head(rw[p]).op = "get" /\ d = Head(rw[p]).by
    BY <2>1, <2>3
  <2>6. RwInv'
    BY <1>2, <2>5, ExecutedRwInv
  <2>7. QED
    BY <1>1, <2>4, <2>6 DEF Inv
<1>5. CASE SetExecuted(p)
  <2>1. /\ Publish(Head(rw[p]).key, "set")
        /\ UNCHANGED <<cmds, subscribed, agentSubscriptions, losses, answer, phase>>
        /\ woken' = woken \cup {c \in Polls : CallerAgent[c] = Head(rw[p]).key /\ Listening(c)}
    BY <1>5 DEF SetExecuted, RedisSet, serviceVars, boundVars
  <2>2. /\ \A d \in Polls : PollInv(d)'
        /\ \A q \in Procs, b \in Agents : ChannelInv(q, b)'
    BY <1>2, <2>1, PublishInv
  <2>3. \A d \in Polls : phase[d] = "getting" => phase'[d] = "getting"
    BY <2>1
  <2>4. RwInv'
    BY <1>2, <2>3, ExecutedRwInv
  <2>5. QED
    BY <1>1, <2>2, <2>4 DEF Inv
<1>6. CASE DelExecuted(p)
  <2> DEFINE k == Head(rw[p]).by
  <2>1. k \in Acks /\ k \notin Polls
    BY <1>2, <1>3, <1>6, PollsAreNotOthers DEF RequestInv, DelExecuted, RedisDel, HeadIs
  <2>2. /\ UNCHANGED <<cmds, subscribed, agentSubscriptions, losses, answer, woken>>
        /\ Publish(Head(rw[p]).key, "del") \/ UNCHANGED inbox
        /\ phase' = [phase EXCEPT ![k] = "deleted"]
    BY <1>6 DEF DelExecuted, RedisDel, boundVars
  <2>3. \A d \in Polls : phase'[d] = phase[d]
    BY <1>1, <2>1, <2>2, CallerPlaces DEF TypeOK
  <2>4. /\ \A d \in Polls : PollInv(d)'
        /\ \A q \in Procs, b \in Agents : ChannelInv(q, b)'
    <3>1. CASE Publish(Head(rw[p]).key, "del")
      BY <1>2, <2>2, <2>3, <3>1, PublishInv
    <3>2. CASE UNCHANGED inbox
      BY <2>2, <2>3, <3>2, FrameInv
    <3>3. QED
      BY <2>2, <3>1, <3>2
  <2>5. RwInv'
    BY <1>2, <2>3, ExecutedRwInv
  <2>6. QED
    BY <1>1, <2>4, <2>5 DEF Inv
<1>7. QED
  BY <1>4, <1>5, <1>6 DEF RedisStep

\* A lost connection takes what is on its way with it; a poll whose timer is set had
\* nothing on its way but events, so that its subscription is made again.
LEMMA LoseInv ==
  ASSUME Inv, NEW p \in Procs, LoseConnection(p)
  PROVE  Inv'
<1>1. TypeOK /\ TypeOK'
  BY FailuresTyped DEF Inv
<1>2. /\ cmds' = [cmds EXCEPT ![p] = [a \in Agents |-> <<>>]]
      /\ inbox' = [inbox EXCEPT ![p] = [a \in Agents |-> <<>>]]
      /\ UNCHANGED <<rw, agentSubscriptions>>
      /\ woken' = {c \in woken : CallerProc[c] # p}
      /\ losses' = [losses EXCEPT ![p] = @ + 1]
      /\ \A a \in Agents : ~InDoubt(p, a) => subscribed'[p][a] = subscribed[p][a]
      /\ \A q \in Procs : q # p => subscribed'[q] = subscribed[q]
  BY <1>1 DEF LoseConnection, ConnectionLost, TypeOK, RedisTypeOK
<1>3. \A c \in Polls :
        \/ /\ CallerProc[c] = p /\ phase[c] = "subscribing"
           /\ phase'[c] = "over" /\ answer'[c] = "error"
        \/ /\ ~(CallerProc[c] = p /\ phase[c] = "subscribing")
           /\ phase'[c] = phase[c] /\ answer'[c] = answer[c]
  <2>1. ASSUME NEW c \in Polls PROVE c \in Callers /\ phase[c] # "unsubscribing"
    BY CallerPlaces DEF Inv, PollInv, PollView, NotRegistered
  <2>2. QED
    BY <2>1 DEF LoseConnection
<1>4. ASSUME NEW c \in Polls PROVE PollInv(c)'
  <2>1. PollInv(c) /\ CallerProc[c] \in Procs /\ CallerAgent[c] \in Agents /\ Entry(c)' = Entry(c)
    BY <1>2, CallerPlaces DEF Inv, Entry
  <2>2. CASE CallerProc[c] = p
    <3>1. Cmds(c)' = <<>> /\ Inbox(c)' = <<>> /\ c \notin woken'
      BY <1>1, <1>2, <2>1, <2>2 DEF Cmds, Inbox, TypeOK, RedisTypeOK
    <3>2. Quiet(Cmds(c), Inbox(c)) => Sub(c)' = Sub(c) /\ Cmds(c) = <<>>
      <4>1. Quiet(Cmds(c), Inbox(c)) => ~InDoubt(CallerProc[c], CallerAgent[c])
        BY DEF Quiet, InDoubt, Unanswered, Cmds, Inbox
      <4>2. QED
        BY <1>2, <2>1, <2>2, <4>1 DEF Sub, Quiet
    <3>3. Intended(<<>>, Sub(c)) <=> Sub(c)
      BY DEF Intended
    <3>4. Intended(<<>>, Sub(c)') <=> Sub(c)'
      BY DEF Intended
    <3>5. QED
      BY <1>3, <2>1, <2>2, <3>1, <3>2, <3>3, <3>4, EmptyLemma DEF PollInv, PollView, NotRegistered
  <2>3. CASE CallerProc[c] # p
    <3>1. /\ Cmds(c)' = Cmds(c) /\ Inbox(c)' = Inbox(c) /\ Sub(c)' = Sub(c)
          /\ (c \in woken') <=> (c \in woken)
      BY <1>1, <1>2, <2>1, <2>3 DEF Cmds, Inbox, Sub, TypeOK, RedisTypeOK
    <3>2. QED
      BY <1>3, <2>1, <2>3, <3>1 DEF PollInv, PollView
  <2>4. QED
    BY <2>2, <2>3
<1>5. ASSUME NEW q \in Procs, NEW b \in Agents PROVE ChannelInv(q, b)'
  <2>1. ChannelInv(q, b)
    BY DEF Inv
  <2>2. CASE q = p
    <3>1. cmds'[q][b] = <<>> /\ inbox'[q][b] = <<>> /\ losses'[q] # 0
      BY <1>1, <1>2, <2>2 DEF TypeOK, RedisTypeOK
    <3>2. QED
      BY <1>2, <2>1, <3>1, EmptyLemma DEF ChannelInv
  <2>3. CASE q # p
    <3>1. /\ cmds'[q][b] = cmds[q][b] /\ inbox'[q][b] = inbox[q][b]
          /\ subscribed'[q][b] = subscribed[q][b] /\ losses'[q] = losses[q]
      BY <1>1, <1>2, <2>3 DEF TypeOK, RedisTypeOK
    <3>2. QED
      BY <1>2, <2>1, <3>1 DEF ChannelInv
  <2>4. QED
    BY <2>2, <2>3
<1>6. RwInv'
  BY <1>2, <1>3, FrameRw
<1>7. QED
  BY <1>1, <1>4, <1>5, <1>6 DEF Inv

\* A crash leaves nothing of the process but its polls that had not started.
LEMMA CrashInv ==
  ASSUME Inv, NEW p \in Procs, Crash(p)
  PROVE  Inv'
<1>1. TypeOK /\ TypeOK'
  BY FailuresTyped DEF Inv
<1>2. /\ cmds' = [cmds EXCEPT ![p] = [a \in Agents |-> <<>>]]
      /\ inbox' = [inbox EXCEPT ![p] = [a \in Agents |-> <<>>]]
      /\ subscribed' = [subscribed EXCEPT ![p] = [a \in Agents |-> FALSE]]
      /\ agentSubscriptions' = [agentSubscriptions EXCEPT ![p] = [a \in Agents |-> NoPoll]]
      /\ rw' = [rw EXCEPT ![p] = <<>>]
      /\ losses' = [losses EXCEPT ![p] = 0]
      /\ woken' = {c \in woken : CallerProc[c] # p}
  BY DEF Crash, ProcessLost
<1>3. \A c \in Polls :
        \/ CallerProc[c] = p /\ phase[c] # "idle" /\ phase'[c] = "over"
        \/ /\ ~(CallerProc[c] = p /\ phase[c] # "idle")
           /\ phase'[c] = phase[c] /\ answer'[c] = answer[c]
  BY CallerPlaces DEF Crash, At
<1>4. ASSUME NEW c \in Polls PROVE PollInv(c)'
  <2>1. PollInv(c) /\ CallerProc[c] \in Procs /\ CallerAgent[c] \in Agents
    BY CallerPlaces DEF Inv
  <2>2. CASE CallerProc[c] = p
    <3>1. Cmds(c)' = <<>> /\ Inbox(c)' = <<>> /\ Entry(c)' = NoPoll /\ c \notin woken'
      BY <1>1, <1>2, <2>1, <2>2 DEF Cmds, Inbox, Entry, TypeOK, RedisTypeOK
    <3>2. QED
      BY <1>3, <2>1, <2>2, <3>1, EmptyLemma, PollsAreNotOthers DEF PollInv, PollView, NotRegistered
  <2>3. CASE CallerProc[c] # p
    <3>1. /\ Cmds(c)' = Cmds(c) /\ Inbox(c)' = Inbox(c) /\ Sub(c)' = Sub(c)
          /\ Entry(c)' = Entry(c) /\ ((c \in woken') <=> (c \in woken))
      BY <1>1, <1>2, <2>1, <2>3 DEF Cmds, Inbox, Sub, Entry, TypeOK, RedisTypeOK
    <3>2. phase'[c] = phase[c] /\ answer'[c] = answer[c]
      BY <1>3, <2>3
    <3>3. QED
      BY <2>1, <3>1, <3>2 DEF PollInv, PollView
  <2>4. QED
    BY <2>2, <2>3
<1>5. ASSUME NEW q \in Procs, NEW b \in Agents PROVE ChannelInv(q, b)'
  <2>1. ChannelInv(q, b)
    BY DEF Inv
  <2>2. CASE q = p
    <3>1. /\ cmds'[q][b] = <<>> /\ inbox'[q][b] = <<>> /\ subscribed'[q][b] = FALSE
          /\ agentSubscriptions'[q][b] = NoPoll
      BY <1>1, <1>2, <2>2 DEF TypeOK, RedisTypeOK
    <3>2. ~Intended(<<>>, FALSE)
      BY DEF Intended
    <3>3. QED
      BY <3>1, <3>2, EmptyLemma, PollsAreNotOthers DEF ChannelInv
  <2>3. CASE q # p
    <3>1. /\ cmds'[q][b] = cmds[q][b] /\ inbox'[q][b] = inbox[q][b]
          /\ subscribed'[q][b] = subscribed[q][b] /\ losses'[q] = losses[q]
          /\ agentSubscriptions'[q][b] = agentSubscriptions[q][b]
      BY <1>1, <1>2, <2>3 DEF TypeOK, RedisTypeOK
    <3>2. QED
      BY <2>1, <3>1 DEF ChannelInv
  <2>4. QED
    BY <2>2, <2>3
<1>6. RwInv'
  <2> SUFFICES ASSUME NEW q \in Procs, NEW i \in DOMAIN rw'[q] PROVE RequestInv(q, i)'
    BY DEF RwInv
  <2>1. q # p /\ rw'[q] = rw[q]
    BY <1>1, <1>2 DEF TypeOK, RedisTypeOK
  <2>2. RequestInv(q, i)
    BY <2>1 DEF Inv, RwInv
  <2>3. QED
    BY <1>3, <2>1, <2>2 DEF RequestInv
<1>7. QED
  BY <1>1, <1>4, <1>5, <1>6 DEF Inv

\* The remaining steps touch no channel, or only by a cleanup.
LEMMA RequestStepInv ==
  ASSUME Inv
  PROVE  /\ \A c \in Polls : longpollNotifications(c) => Inv'
         /\ \A c \in Polls : PollStep(c) => Inv'
         /\ \A k \in Acks : ackNewMessage(k) \/ AckCleanup(k) => Inv'
         /\ \A p \in Procs, a \in Agents : flagNewMessage(p, a) => Inv'
         /\ \A p \in Procs : Reconnect(p) => Inv'
         /\ UNCHANGED vars => Inv'
<1>1. TypeOK /\ RwInv
  BY DEF Inv
<1>2. ASSUME NEW c \in Polls, longpollNotifications(c) PROVE Inv'
  <2> DEFINE r == [op |-> "get", key |-> CallerAgent[c], by |-> c]
  <2>1. /\ r \in Request /\ r.op = "get" /\ r.by = c
        /\ rw' = [rw EXCEPT ![CallerProc[c]] = Append(@, r)]
        /\ phase[c] = "idle" /\ phase' = [phase EXCEPT ![c] = "getting"]
        /\ UNCHANGED <<cmds, inbox, subscribed, agentSubscriptions, losses, woken, answer>>
        /\ CallerProc[c] \in Procs /\ c \in Callers
    BY <1>2, CallerPlaces DEF longpollNotifications, getValue, At, Request, boundVars
  <2>2. \A d \in Polls : \/ phase'[d] = phase[d] /\ answer'[d] = answer[d] /\ d # c
                         \/ d = c /\ phase[d] \in NotRegistered /\ phase'[d] \in NotRegistered
                            /\ answer'[d] = answer[d]
    BY <1>1, <2>1, CallerPlaces DEF NotRegistered, TypeOK
  <2>3. /\ \A d \in Polls : PollInv(d)'
        /\ \A q \in Procs, b \in Agents : ChannelInv(q, b)'
    BY <2>1, <2>2, FrameInv
  <2>4. RwInv'
    <3>1. phase'[c] = "getting" /\ \A d \in Polls : phase[d] = "getting" => phase'[d] = "getting"
      BY <1>1, <2>1, <2>2 DEF TypeOK
    <3>2. QED
      BY <2>1, <3>1, SendRwInv
  <2>5. QED
    BY <1>1, <1>2, <2>3, <2>4, PollStepsTyped DEF Inv
<1>3. ASSUME NEW c \in Polls, PollStep(c) PROVE Inv'
  <2>1. CASE WaitForMessage(c)
    BY <2>1, RegisterInv
  <2>2. CASE AnswerAtOnce(c) \/ SetTimer(c)
    <3>1. /\ UNCHANGED <<rw, cmds, inbox, subscribed, agentSubscriptions, losses, woken>>
          /\ \A d \in Polls : d # c => phase'[d] = phase[d] /\ answer'[d] = answer[d]
          /\ \/ phase[c] = "got" /\ phase'[c] = "over"
             \/ phase[c] = "arming" /\ phase'[c] = "armed" /\ answer'[c] = answer[c]
      BY <1>1, <2>2, CallerPlaces
      DEF AnswerAtOnce, SetTimer, At, Resolve, TypeOK, redisVars, boundVars
    <3>2. /\ \A d \in Polls : PollInv(d)'
          /\ \A q \in Procs, b \in Agents : ChannelInv(q, b)'
      BY <3>1, FrameInv DEF NotRegistered
    <3>3. RwInv'
      BY <3>1, FrameRw
    <3>4. QED
      BY <1>1, <1>3, <3>2, <3>3, PollStepsTyped DEF Inv
  <2>3. CASE reactOnTimeout(c)
    <3>1. /\ UNCHANGED <<rw, inbox, subscribed, losses, woken>>
          /\ phase[c] = "armed" /\ phase'[c] = "over" /\ c \in Callers
          /\ \A d \in Polls : d # c => phase'[d] = phase[d] /\ answer'[d] = answer[d]
          /\ cleanupNewMessageCallback(c)
      BY <1>1, <2>3, CallerPlaces DEF reactOnTimeout, At, Resolve, TypeOK, boundVars
    <3>2. /\ \A d \in Polls : PollInv(d)'
          /\ \A q \in Procs, b \in Agents : ChannelInv(q, b)'
      <4>1. CASE cleanupSubscription(CallerProc[c], CallerAgent[c], NoCaller)
        BY <3>1, <4>1, CleanupInv, CallerPlaces
      <4>2. CASE Entry(c) # c /\ UNCHANGED <<agentSubscriptions, cmds>>
        BY <3>1, <4>2, FrameInv
      <4>3. QED
        BY <3>1, <4>1, <4>2 DEF cleanupNewMessageCallback
    <3>3. RwInv'
      BY <3>1, FrameRw
    <3>4. QED
      BY <1>1, <1>3, <3>2, <3>3, PollStepsTyped DEF Inv
  <2>4. QED
    BY <1>3, <2>1, <2>2, <2>3 DEF PollStep
<1>4. ASSUME NEW k \in Acks, ackNewMessage(k) \/ AckCleanup(k) PROVE Inv'
  <2>1. k \notin Polls /\ k \in Callers /\ CallerProc[k] \in Procs /\ CallerAgent[k] \in Agents
    BY CallerPlaces, PollsAreNotOthers
  <2>2. \A d \in Polls : phase'[d] = phase[d] /\ answer'[d] = answer[d]
    BY <1>1, <1>4, <2>1, CallerPlaces DEF ackNewMessage, AckCleanup, TypeOK
  <2>3. CASE ackNewMessage(k)
    <3> DEFINE r == [op |-> "del", key |-> CallerAgent[k], by |-> k]
    <3>1. /\ r \in Request /\ r.op = "del" /\ r.by = k
          /\ rw' = [rw EXCEPT ![CallerProc[k]] = Append(@, r)]
          /\ UNCHANGED <<cmds, inbox, subscribed, agentSubscriptions, losses, woken>>
      BY <2>1, <2>3 DEF ackNewMessage, deleteValue, Request, boundVars
    <3>2. /\ \A d \in Polls : PollInv(d)'
          /\ \A q \in Procs, b \in Agents : ChannelInv(q, b)'
      BY <2>2, <3>1, FrameInv
    <3>3. RwInv'
      BY <2>1, <2>2, <3>1, SendRwInv
    <3>4. QED
      BY <1>1, <2>3, <3>2, <3>3, AckStepsTyped DEF Inv
  <2>4. CASE AckCleanup(k)
    <3>1. UNCHANGED <<rw, inbox, subscribed, losses, woken>>
      BY <2>4 DEF AckCleanup, boundVars
    <3>2. /\ \A d \in Polls : PollInv(d)'
          /\ \A q \in Procs, b \in Agents : ChannelInv(q, b)'
      <4>1. CASE cleanupSubscription(CallerProc[k], CallerAgent[k], k)
        BY <2>1, <2>2, <3>1, <4>1, CleanupInv
      <4>2. CASE UNCHANGED <<agentSubscriptions, cmds>>
        BY <2>2, <3>1, <4>2, FrameInv
      <4>3. QED
        BY <2>4, <4>1, <4>2 DEF AckCleanup
    <3>3. RwInv'
      BY <2>2, <3>1, FrameRw
    <3>4. QED
      BY <1>1, <2>4, <3>2, <3>3, AckStepsTyped DEF Inv
  <2>5. QED
    BY <1>4, <2>3, <2>4
<1>5. ASSUME NEW p \in Procs, NEW a \in Agents, flagNewMessage(p, a) PROVE Inv'
  <2> DEFINE r == [op |-> "set", key |-> a, value |-> "true"]
  <2>1. /\ r \in Request /\ r.op = "set"
        /\ rw' = [rw EXCEPT ![p] = Append(@, r)]
        /\ UNCHANGED <<cmds, inbox, subscribed, agentSubscriptions, losses, woken, phase, answer>>
    BY <1>5, FlagIsAValue DEF flagNewMessage, setValue, Request, serviceVars
  <2>2. /\ \A d \in Polls : PollInv(d)'
        /\ \A q \in Procs, b \in Agents : ChannelInv(q, b)'
    BY <2>1, FrameInv
  <2>3. RwInv'
    BY <2>1, SendRwInv
  <2>4. QED
    BY <1>1, <1>5, <2>2, <2>3, ChannelTyped DEF Inv
<1>6. ASSUME NEW p \in Procs, Reconnect(p) PROVE Inv'
  <2>1. UNCHANGED <<rw, cmds, inbox, subscribed, agentSubscriptions, losses, woken, phase, answer>>
    BY <1>6 DEF Reconnect, Reconnected, serviceVars, boundVars
  <2>2. QED
    BY <1>1, <1>6, <2>1, FrameInv, FrameRw, FailuresTyped DEF Inv
<1>7. ASSUME UNCHANGED vars PROVE Inv'
  <2>1. UNCHANGED <<rw, cmds, inbox, subscribed, agentSubscriptions, losses, woken, phase, answer>>
    BY <1>7 DEF vars, redisVars, serviceVars, boundVars
  <2>2. TypeOK'
    BY <1>1, <1>7 DEF vars, redisVars, serviceVars, boundVars, TypeOK, RedisTypeOK
  <2>3. QED
    BY <2>1, <2>2, FrameInv, FrameRw DEF Inv
<1>8. QED
  BY <1>2, <1>3, <1>4, <1>5, <1>6, <1>7

\* The first state.
LEMMA InitInv == Init => Inv
<1> SUFFICES ASSUME Init PROVE Inv
  OBVIOUS
<1>1. TypeOK
  BY InitTyped
<1>2. RwInv
  BY DEF Init, RedisInit, RwInv
<1>3. ASSUME NEW c \in Polls PROVE PollInv(c)
  <2>1. /\ Cmds(c) = <<>> /\ Inbox(c) = <<>> /\ Entry(c) = NoPoll /\ phase[c] = "idle"
        /\ answer[c] = "none" /\ c \notin woken
    BY CallerPlaces DEF Init, RedisInit, Cmds, Inbox, Entry
  <2>2. QED
    BY <2>1, EmptyLemma, PollsAreNotOthers DEF PollInv, PollView, NotRegistered
<1>4. ASSUME NEW p \in Procs, NEW a \in Agents PROVE ChannelInv(p, a)
  <2>1. /\ cmds[p][a] = <<>> /\ inbox[p][a] = <<>> /\ subscribed[p][a] = FALSE
        /\ agentSubscriptions[p][a] = NoPoll
    BY DEF Init, RedisInit
  <2>2. ~Intended(<<>>, FALSE)
    BY DEF Intended
  <2>3. QED
    BY <2>1, <2>2, EmptyLemma, PollsAreNotOthers DEF ChannelInv
<1>5. QED
  BY <1>1, <1>2, <1>3, <1>4 DEF Inv

\* The inductive invariant holds in every state the service reaches.
THEOREM Invariance == Spec => []Inv
<1>1. Inv /\ [Next]_vars => Inv'
  <2> SUFFICES ASSUME Inv, [Next]_vars PROVE Inv'
    OBVIOUS
  <2>1. CASE Next
    BY <2>1, RequestStepInv, RedisStepInv, OnEventInv, OnReplyInv, CommandInv, LoseInv, CrashInv
    DEF Next
  <2>2. CASE UNCHANGED vars
    BY <2>2, RequestStepInv
  <2>3. QED
    BY <2>1, <2>2
<1>2. QED
  BY InitInv, <1>1, PTL DEF Spec

-----------------------------------------------------------------------------
(* What follows from it.                                                   *)

\* The map of callbacks and the subscriptions of redis agree once redis has caught
\* up, whatever the interleaving of registrations, cleanups, acks and failures
\* (service-new-messages.js:44-74).
THEOREM SubscriptionsAgree == Spec => []SubscriptionAgreement
<1>1. Inv => SubscriptionAgreement
  <2> SUFFICES ASSUME Inv, NEW p \in Procs, NEW a \in Agents
               PROVE  /\ losses[p] = 0 => (Intended(cmds[p][a], subscribed[p][a])
                                             <=> agentSubscriptions[p][a] # NoPoll)
                      /\ \A c \in Polls : agentSubscriptions[p][a] = c /\ ~At(c, "over") =>
                           Intended(cmds[p][a], subscribed[p][a])
    BY DEF SubscriptionAgreement
  <2>1. ChannelInv(p, a)
    BY DEF Inv
  <2>2. ASSUME NEW c \in Polls, agentSubscriptions[p][a] = c, ~At(c, "over")
        PROVE  Intended(cmds[p][a], subscribed[p][a])
    <3>1. CallerProc[c] = p /\ CallerAgent[c] = a
      BY <2>1, <2>2 DEF ChannelInv
    <3>2. QED
      BY <2>2, <3>1 DEF Inv, PollInv, PollView, Entry, Cmds, Sub, At
  <2>3. QED
    BY <2>1, <2>2 DEF ChannelInv
<1>2. QED
  BY Invariance, <1>1, PTL

\* A message flagged after a poll subscribed is never lost on it while it keeps the
\* entry of its agent (service-new-messages.js:28-42).
THEOREM WakeupsReachPolls == Spec => []WakeupNotLost
<1>1. Inv => WakeupNotLost
  <2> SUFFICES ASSUME Inv, NEW c \in woken, Entry(c) = c
               PROVE  \E i \in DOMAIN Inbox(c) : Inbox(c)[i].type = "set"
    BY DEF WakeupNotLost, Inbox
  <2>1. c \in Polls
    BY DEF Inv, TypeOK
  <2>2. QED
    BY <2>1 DEF Inv, PollInv, PollView, HasSet
<1>2. QED
  BY Invariance, <1>1, PTL

\* Only a `set' event settles the poll that holds the entry of its agent, and only
\* timers, errors and that event settle a poll which is armed.
LEMMA TrueByEvent ==
  ASSUME Inv, Next, NEW c \in Polls, At(c, "armed"), Resolve(c, "true"), answer[c] = "none"
  PROVE  c \in woken
<1>1. TypeOK /\ c \in Callers /\ CallerProc[c] \in Procs /\ CallerAgent[c] \in Agents
  BY CallerPlaces DEF Inv
<1>2. answer'[c] = "true" /\ answer[c] = "none" /\ phase[c] = "armed"
  BY <1>1 DEF Resolve, At, TypeOK
<1>3. PICK p \in Procs, a \in Agents : OnEvent(p, a)
  <2>1. ASSUME NEW d \in Polls PROVE ~longpollNotifications(d) /\ ~PollStep(d)
    <3>1. ~longpollNotifications(d) /\ ~WaitForMessage(d) /\ ~SetTimer(d)
      BY <1>2 DEF longpollNotifications, WaitForMessage, SetTimer
    <3>2. ~AnswerAtOnce(d)
      BY <1>1, <1>2 DEF AnswerAtOnce, At, Resolve, TypeOK
    <3>3. ~reactOnTimeout(d)
      BY <1>1, <1>2 DEF reactOnTimeout, Resolve, TypeOK
    <3>4. QED
      BY <3>1, <3>2, <3>3 DEF PollStep
  <2>2. ASSUME NEW k \in Acks PROVE ~ackNewMessage(k) /\ ~AckCleanup(k)
    BY <1>2 DEF ackNewMessage, AckCleanup
  <2>3. ASSUME NEW p \in Procs PROVE ~RedisStep(p) /\ ~Reconnect(p)
    BY <1>2 DEF RedisStep, GetExecuted, SetExecuted, DelExecuted, Reconnect, serviceVars
  <2>4. ASSUME NEW p \in Procs PROVE ~LoseConnection(p) /\ ~Crash(p)
    BY <1>1, <1>2 DEF LoseConnection, Crash
  <2>5. ASSUME NEW p \in Procs, NEW a \in Agents
        PROVE  /\ ~flagNewMessage(p, a) /\ ~OnReply(p, a)
               /\ ~(RedisCommand(p, a) /\ UNCHANGED <<serviceVars, boundVars, woken>>)
    BY <1>2 DEF flagNewMessage, OnReply, serviceVars
  <2>6. QED
    BY <2>1, <2>2, <2>3, <2>4, <2>5 DEF Next
<1>4. agentSubscriptions[p][a] = c /\ Received(p, a).type = "set" /\ inbox[p][a] # <<>>
  BY <1>1, <1>2, <1>3
  DEF OnEvent, reactOnNewMessage, isOurKeyspaceSetNotification, Resolve, TypeOK
<1>5. CallerProc[c] = p /\ CallerAgent[c] = a
  BY <1>4 DEF Inv, ChannelInv
<1>6. HasSet(Inbox(c))
  BY <1>1, <1>4, <1>5, HeadOfInbox DEF HasSet, Inbox, Received, TypeOK
<1>7. QED
  BY <1>2, <1>4, <1>5, <1>6 DEF Inv, PollInv, PollView, Entry

\* An armed poll answers `true' only for a message flagged after its SUBSCRIBE was
\* executed (event-adapter-redis.js:36-57).
THEOREM ArmedPollsAreWoken == Spec => WokenWhenArmed
<1> DEFINE A == \A c \in Polls : At(c, "armed") /\ Resolve(c, "true") /\ answer[c] = "none"
                  => c \in woken
<1>1. Inv /\ [Next]_vars => [A]_vars
  BY TrueByEvent
<1>2. QED
  BY Invariance, <1>1, PTL DEF Spec, WokenWhenArmed

\* A step that empties an entry of the map.
LEMMA RemovalLemma ==
  ASSUME Inv, Next, NEW p \in Procs, NEW a \in Agents, NEW c \in Polls,
         agentSubscriptions[p][a] = c, agentSubscriptions'[p][a] = NoPoll
  PROVE  \/ phase'[c] = "over"
         \/ \E k \in Acks : /\ CallerProc[k] = p /\ CallerAgent[k] = a
                            /\ At(k, "deleted") /\ ~At(k, "deleted")'
<1>1. /\ TypeOK /\ c # NoPoll
      /\ CallerProc[c] = p /\ CallerAgent[c] = a /\ Entry(c) = c
  BY PollsAreNotOthers DEF Inv, ChannelInv, Entry
<1>2. CASE \E d \in Polls : longpollNotifications(d) \/ PollStep(d)
  <2>1. PICK d \in Polls : longpollNotifications(d) \/ PollStep(d)
    BY <1>2
  <2>2. ~longpollNotifications(d) /\ ~AnswerAtOnce(d) /\ ~SetTimer(d)
    BY <1>1 DEF longpollNotifications, AnswerAtOnce, SetTimer
  <2>3. ~WaitForMessage(d)
    BY <1>1, CallerPlaces, PollsAreNotOthers DEF WaitForMessage, registerNewMessageCallback, TypeOK
  <2>4. reactOnTimeout(d)
    BY <2>1, <2>2, <2>3 DEF PollStep
  <2>5. Entry(d) = d /\ CallerProc[d] = p /\ CallerAgent[d] = a
    BY <1>1, <2>4, CallerPlaces
    DEF reactOnTimeout, cleanupNewMessageCallback, cleanupSubscription, TypeOK
  <2>6. d = c
    BY <1>1, <2>5 DEF Entry
  <2>7. QED
    BY <1>1, <2>4, <2>6, CallerPlaces DEF reactOnTimeout, TypeOK
<1>3. CASE \E k \in Acks : ackNewMessage(k) \/ AckCleanup(k)
  <2>1. PICK k \in Acks : ackNewMessage(k) \/ AckCleanup(k)
    BY <1>3
  <2>2. AckCleanup(k)
    BY <1>1, <2>1 DEF ackNewMessage
  <2>3. k \in Callers /\ At(k, "deleted") /\ phase'[k] # "deleted"
    BY <1>1, <2>2, CallerPlaces DEF AckCleanup, At, TypeOK
  <2>4. CallerProc[k] = p /\ CallerAgent[k] = a
    BY <1>1, <2>2, <2>3, CallerPlaces DEF AckCleanup, cleanupSubscription, TypeOK
  <2>5. QED
    BY <2>3, <2>4 DEF At
<1>4. CASE \E q \in Procs : RedisStep(q) \/ LoseConnection(q) \/ Reconnect(q) \/ Crash(q)
  <2>1. PICK q \in Procs : RedisStep(q) \/ LoseConnection(q) \/ Reconnect(q) \/ Crash(q)
    BY <1>4
  <2>2. Crash(q)
    BY <1>1, <2>1
    DEF RedisStep, GetExecuted, SetExecuted, DelExecuted, LoseConnection, Reconnect, serviceVars
  <2>3. q = p
    BY <1>1, <2>2 DEF Crash, TypeOK
  <2>4. phase[c] # "idle"
    BY <1>1 DEF Inv, PollInv, PollView
  <2>5. QED
    BY <1>1, <2>2, <2>3, <2>4, CallerPlaces DEF Crash, At
<1>5. CASE \E q \in Procs, b \in Agents :
             flagNewMessage(q, b)
               \/ (RedisCommand(q, b) /\ UNCHANGED <<serviceVars, boundVars, woken>>)
               \/ OnEvent(q, b)
               \/ OnReply(q, b)
  <2>1. PICK q \in Procs, b \in Agents : OnEvent(q, b)
    BY <1>1, <1>5 DEF flagNewMessage, OnReply, serviceVars
  <2>2. PICK d \in Polls : agentSubscriptions[q][b] = d /\ cleanupNewMessageCallback(d)
                           /\ phase' = [phase EXCEPT ![d] = "over"]
    BY <1>1, <2>1 DEF OnEvent, reactOnNewMessage, TypeOK
  <2>3. Entry(d) = d /\ CallerProc[d] = p /\ CallerAgent[d] = a
    BY <1>1, <2>2, CallerPlaces DEF cleanupNewMessageCallback, cleanupSubscription, TypeOK
  <2>4. QED
    BY <1>1, <2>2, <2>3, CallerPlaces DEF Entry, TypeOK
<1>6. QED
  BY <1>2, <1>3, <1>4, <1>5 DEF Next

\* The late timer or event of one poll never takes the callback of another
\* (service-new-messages.js:60-66).
THEOREM OnlyOwnerOrAckRemoves == Spec => RemovedByOwnerOrAck
<1> DEFINE A == \A p \in Procs, a \in Agents, c \in Polls :
       agentSubscriptions[p][a] = c /\ agentSubscriptions'[p][a] = NoPoll =>
         \/ phase'[c] = "over"
         \/ \E k \in Acks : /\ CallerProc[k] = p /\ CallerAgent[k] = a
                            /\ At(k, "deleted") /\ ~At(k, "deleted")'
<1>1. Inv /\ [Next]_vars => [A]_vars
  BY RemovalLemma
<1>2. QED
  BY Invariance, <1>1, PTL DEF Spec, RemovedByOwnerOrAck

-----------------------------------------------------------------------------
(* The service implements LongPoll.  A poll is settled exactly when it is  *)
(* over, and one that has seen the flag does nothing but answer; the       *)
(* flaggings that have yet to reach a process are the `set' events in its  *)
(* inbox (OnTheWay).                                                       *)

\* Only `true' is ever set.
OnlyTrueSent ==
  /\ \A p \in Procs : \A i \in DOMAIN rw[p] : rw[p][i].op = "set" => rw[p][i].value = "true"
  /\ \A a \in Agents : store[a] \in {"true", Nil}

\* The promise of poll c is settled when it is over; what it read while the flag was up
\* is answered next.
Settled(c) ==
  /\ answer[c] # "none" <=> phase[c] = "over"
  /\ saw[c] = "true" => phase[c] \in {"got", "over"}

SettledInv == OnlyTrueSent /\ \A c \in Polls : Settled(c)

Still(c) == phase'[c] = phase[c] /\ answer'[c] = answer[c] /\ saw'[c] = saw[c]

\* A poll on its way from phase `from' to phase `to'.
Goes(c, from, to) ==
  phase[c] = from /\ phase'[c] = to /\ answer'[c] = answer[c] /\ saw'[c] = saw[c]

\* A poll that was not settled is, with that result.
Ends(c, result) ==
  /\ phase[c] \notin {"idle", "over"} /\ phase'[c] = "over"
  /\ answer[c] = "none" /\ answer'[c] = result /\ saw'[c] = saw[c]

\* What a step does to poll c.
Moves(c) ==
  \/ Still(c)
  \/ Goes(c, "idle", "getting")
  \/ /\ phase[c] = "getting" /\ phase'[c] = "got"
     /\ answer'[c] = answer[c] /\ saw'[c] = store[CallerAgent[c]]
  \/ Goes(c, "got", "subscribing") /\ saw[c] # "true"
  \/ Goes(c, "subscribing", "arming")
  \/ Goes(c, "arming", "armed")
  \/ \E result \in {"true", "false", "error"} : Ends(c, result)

\* The invariants hold as long as only `true' is set and polls move like this.
LEMMA SettledKept ==
  ASSUME Inv, SettledInv, \A c \in Polls : Moves(c)
  PROVE  \A c \in Polls : Settled(c)'
  BY DEF SettledInv, Settled, Moves, Still, Goes, Ends

\* What is sent and executed keeps it so that only `true' is set.
LEMMA SentKept ==
  ASSUME TypeOK, OnlyTrueSent, NEW p \in Procs,
         \/ UNCHANGED rw
         \/ \E r \in Request : /\ rw' = [rw EXCEPT ![p] = Append(@, r)]
                               /\ r.op = "set" => r.value = "true"
         \/ rw[p] # <<>> /\ Executed(p)
         \/ rw' = [rw EXCEPT ![p] = <<>>],
         \/ UNCHANGED store
         \/ HeadIs(p, "set") /\ store' = [store EXCEPT ![Head(rw[p]).key] = Head(rw[p]).value]
         \/ store' = [store EXCEPT ![Head(rw[p]).key] = Nil]
  PROVE  OnlyTrueSent'
<1>1. rw \in [Procs -> Seq(Request)] /\ store \in [Agents -> Value \cup {Nil}]
  BY DEF TypeOK, RedisTypeOK
<1>2. ASSUME NEW q \in Procs, NEW i \in DOMAIN rw'[q], rw'[q][i].op = "set"
      PROVE  rw'[q][i].value = "true"
  <2>1. CASE rw'[q] = rw[q]
    BY <1>2, <2>1 DEF OnlyTrueSent
  <2>2. ASSUME NEW r \in Request, rw'[q] = Append(rw[q], r), r.op = "set" => r.value = "true"
        PROVE  rw'[q][i].value = "true"
    <3>1. rw'[q][i] = r \/ (i \in DOMAIN rw[q] /\ rw'[q][i] = rw[q][i])
      BY <1>1, <1>2, <2>2
    <3>2. QED
      BY <1>2, <2>2, <3>1 DEF OnlyTrueSent
  <2>3. CASE rw[q] # <<>> /\ rw'[q] = Tail(rw[q])
    <3>1. i + 1 \in DOMAIN rw[q] /\ rw'[q][i] = rw[q][i + 1]
      BY <1>1, <1>2, <2>3
    <3>2. QED
      BY <1>2, <3>1 DEF OnlyTrueSent
  <2>4. CASE rw'[q] = <<>>
    BY <1>2, <2>4
  <2>5. QED
    BY <1>1, <2>1, <2>2, <2>3, <2>4 DEF Executed
<1>3. ASSUME NEW a \in Agents PROVE store'[a] \in {"true", Nil}
  <2>1. HeadIs(p, "set") => Head(rw[p]).value = "true"
    <3>1. HeadIs(p, "set") => 1 \in DOMAIN rw[p] /\ Head(rw[p]) = rw[p][1]
      BY <1>1 DEF HeadIs
    <3>2. QED
      BY <3>1 DEF HeadIs, OnlyTrueSent
  <2>2. QED
    BY <1>1, <2>1 DEF OnlyTrueSent
<1>4. QED
  BY <1>2, <1>3 DEF OnlyTrueSent

\* The values of the variables of LongPoll.
FlagUp == [a \in Agents |-> store[a] = "true"]
StatusOf == [c \in Polls |-> IF answer[c] # "none" THEN answer[c]
                             ELSE IF phase[c] = "idle" THEN "idle" ELSE "waiting"]
HaveSeen == {c \in Polls : saw[c] = "true"}

Implemented == [LP!Next]_(LP!vars)

\* The steps of LongPoll on these values, and its stuttering.
LEMMA Stutters ==
  ASSUME UNCHANGED <<FlagUp, StatusOf, HaveSeen, OnTheWay>>
  PROVE  Implemented
  BY DEF Implemented, LP!vars, FlagUp, StatusOf, HaveSeen, OnTheWay, Sets, At

\* A poll is started.
LEMMA Starts ==
  ASSUME NEW c \in Polls, StatusOf[c] = "idle",
         StatusOf' = [StatusOf EXCEPT ![c] = "waiting"],
         UNCHANGED <<FlagUp, HaveSeen, OnTheWay>>
  PROVE  Implemented
<1>1. LP!Start(c)
  BY DEF LP!Start, FlagUp, StatusOf, HaveSeen, OnTheWay, Sets, At
<1>2. QED
  BY <1>1 DEF LP!Next, Implemented

\* A poll reads the flag while it is up.
LEMMA ReadsFlag ==
  ASSUME NEW c \in Polls, StatusOf[c] = "waiting", FlagUp[CallerAgent[c]],
         HaveSeen' = HaveSeen \cup {c}, UNCHANGED <<FlagUp, StatusOf, OnTheWay>>
  PROVE  Implemented
<1>1. LP!ReadFlag(c)
  BY DEF LP!ReadFlag, FlagUp, StatusOf, HaveSeen, OnTheWay, Sets, At
<1>2. QED
  BY <1>1 DEF LP!Next, Implemented

\* A poll that saw the flag up is answered.
LEMMA AnswersTrue ==
  ASSUME NEW c \in Polls, StatusOf[c] = "waiting", c \in HaveSeen,
         StatusOf' = [StatusOf EXCEPT ![c] = "true"],
         UNCHANGED <<FlagUp, HaveSeen, OnTheWay>>
  PROVE  Implemented
<1>1. LP!AnswerTrue(c)
  BY DEF LP!AnswerTrue, FlagUp, StatusOf, HaveSeen, OnTheWay, Sets, At
<1>2. QED
  BY <1>1 DEF LP!Next, Implemented

\* A poll that did not times out.
LEMMA AnswersFalse ==
  ASSUME NEW c \in Polls, StatusOf[c] = "waiting", c \notin HaveSeen,
         StatusOf' = [StatusOf EXCEPT ![c] = "false"],
         UNCHANGED <<FlagUp, HaveSeen, OnTheWay>>
  PROVE  Implemented
<1>1. LP!AnswerFalse(c)
  BY DEF LP!AnswerFalse, FlagUp, StatusOf, HaveSeen, OnTheWay, Sets, At
<1>2. QED
  BY <1>1 DEF LP!Next, Implemented

\* The flag goes up and is sent to the processes that listen.
LEMMA Raises ==
  ASSUME NEW a \in Agents, NEW reached \in SUBSET Procs,
         FlagUp' = [FlagUp EXCEPT ![a] = TRUE],
         OnTheWay' = [p \in Procs |-> [b \in Agents |->
           IF b = a /\ p \in reached THEN OnTheWay[p][b] + 1 ELSE OnTheWay[p][b]]],
         UNCHANGED <<StatusOf, HaveSeen>>
  PROVE  Implemented
<1>1. LP!Raise(a, reached)
  BY DEF LP!Raise, FlagUp, StatusOf, HaveSeen, OnTheWay, Sets, At
<1>2. QED
  BY <1>1 DEF LP!Next, Implemented

\* The flag goes down.
LEMMA Lowers ==
  ASSUME NEW a \in Agents, FlagUp' = [FlagUp EXCEPT ![a] = FALSE],
         UNCHANGED <<StatusOf, HaveSeen, OnTheWay>>
  PROVE  Implemented
<1>1. LP!Lower(a)
  BY DEF LP!Lower, FlagUp, StatusOf, HaveSeen, OnTheWay, Sets, At
<1>2. QED
  BY <1>1 DEF LP!Next, Implemented

\* A flagging reaches a process.
LEMMA Wakes ==
  ASSUME NEW p \in Procs, NEW a \in Agents, OnTheWay[p][a] > 0,
         OnTheWay' = [OnTheWay EXCEPT ![p][a] = @ - 1],
         \/ UNCHANGED StatusOf
         \/ \E c \in Polls : /\ CallerProc[c] = p /\ CallerAgent[c] = a
                             /\ StatusOf[c] = "waiting"
                             /\ StatusOf' = [StatusOf EXCEPT ![c] = "true"],
         UNCHANGED <<FlagUp, HaveSeen>>
  PROVE  Implemented
<1>1. LP!Wake(p, a)
  BY DEF LP!Wake, FlagUp, StatusOf, HaveSeen, OnTheWay, Sets, At
<1>2. QED
  BY <1>1 DEF LP!Next, Implemented

\* Some polls of a process fail, and what was on its way to it is lost.
LEMMA Fails ==
  ASSUME NEW p \in Procs,
         NEW failed \in SUBSET {c \in Polls : CallerProc[c] = p /\ StatusOf[c] = "waiting"},
         StatusOf' = [c \in Polls |-> IF c \in failed THEN "error" ELSE StatusOf[c]],
         OnTheWay' = [OnTheWay EXCEPT ![p] = [a \in Agents |-> 0]],
         UNCHANGED <<FlagUp, HaveSeen>>
  PROVE  Implemented
<1>1. LP!Fail(p)
  BY DEF LP!Fail, FlagUp, StatusOf, HaveSeen, OnTheWay, Sets, At
<1>2. QED
  BY <1>1 DEF LP!Next, Implemented

\* A poll that stays where it is, or is on its way, has the same result.
LEMMA SameStatus ==
  ASSUME \A c \in Polls : \/ Still(c)
                          \/ /\ phase[c] # "idle" /\ phase'[c] # "idle"
                             /\ answer'[c] = answer[c] /\ saw'[c] = saw[c]
  PROVE  UNCHANGED <<StatusOf, HaveSeen>>
  BY DEF StatusOf, HaveSeen, Still

\* The one poll that ends has its result.
LEMMA EndedStatus ==
  ASSUME NEW c \in Polls, NEW result \in {"true", "false", "error"}, Ends(c, result),
         \A d \in Polls \ {c} : Still(d)
  PROVE  /\ StatusOf[c] = "waiting" /\ StatusOf' = [StatusOf EXCEPT ![c] = result]
         /\ UNCHANGED HaveSeen
<1>1. \A d \in Polls : saw'[d] = saw[d]
  BY DEF Ends, Still
<1>2. StatusOf[c] = "waiting" /\ StatusOf'[c] = result
  BY DEF StatusOf, Ends
<1>3. \A d \in Polls \ {c} : StatusOf'[d] = StatusOf[d]
  BY DEF StatusOf, Still
<1>4. StatusOf' = [StatusOf EXCEPT ![c] = result]
  <2>1. /\ StatusOf = [d \in Polls |-> StatusOf[d]]
        /\ StatusOf' = [d \in Polls |-> StatusOf'[d]]
    BY DEF StatusOf
  <2>2. QED
    BY <1>2, <1>3, <2>1
<1>5. QED
  BY <1>1, <1>2, <1>4 DEF HaveSeen

\* What the step of one poll needs of the state.
LEMMA PollFacts ==
  ASSUME Inv, SettledInv, NEW c \in Polls
  PROVE  /\ TypeOK /\ OnlyTrueSent /\ Settled(c) /\ PollInv(c)
         /\ c \in Callers /\ CallerProc[c] \in Procs /\ CallerAgent[c] \in Agents
         /\ FlagUp[CallerAgent[c]] <=> store[CallerAgent[c]] = "true"
         /\ c \in HaveSeen <=> saw[c] = "true"
  BY CallerPlaces DEF Inv, SettledInv, FlagUp, HaveSeen

\* A step that sends nothing to redis and in which one poll ends, or none, and the
\* others stay where they are.
LEMMA SettledStep ==
  ASSUME Inv, SettledInv, UNCHANGED <<rw, store>>, \A c \in Polls : Moves(c)
  PROVE  SettledInv' /\ UNCHANGED FlagUp
<1>1. SettledInv' = (OnlyTrueSent' /\ \A c \in Polls : Settled(c)')
  BY DEF SettledInv
<1>2. OnlyTrueSent'
  BY DEF SettledInv, OnlyTrueSent
<1>3. QED
  BY <1>1, <1>2, SettledKept DEF FlagUp

\* A poll is started.
LEMMA StartImplements ==
  ASSUME Inv, SettledInv, NEW c \in Polls, longpollNotifications(c)
  PROVE  SettledInv' /\ Implemented
<1>1. TypeOK /\ c \in Callers /\ CallerProc[c] \in Procs /\ CallerAgent[c] \in Agents
  BY PollFacts
<1>2. Goes(c, "idle", "getting") /\ \A d \in Polls \ {c} : Still(d)
  BY <1>1, CallerPlaces DEF longpollNotifications, At, Goes, Still, TypeOK
<1>3. SettledInv'
  <2>1. \A d \in Polls : Settled(d)'
    BY <1>2, SettledKept DEF Moves
  <2>2. OnlyTrueSent'
    <3> DEFINE r == [op |-> "get", key |-> CallerAgent[c], by |-> c]
    <3>1. r \in Request /\ r.op # "set" /\ rw' = [rw EXCEPT ![CallerProc[c]] = Append(@, r)]
      BY <1>1 DEF longpollNotifications, getValue, Request
    <3>2. UNCHANGED store
      BY DEF longpollNotifications
    <3>3. QED
      BY <1>1, <3>1, <3>2, SentKept DEF SettledInv
  <2>3. QED
    BY <2>1, <2>2 DEF SettledInv
<1>4. StatusOf[c] = "idle" /\ StatusOf' = [StatusOf EXCEPT ![c] = "waiting"] /\ UNCHANGED HaveSeen
  <2>1. phase[c] = "idle" /\ phase'[c] = "getting" /\ answer[c] = "none" /\ answer'[c] = "none"
    BY <1>2, PollFacts DEF Settled, Goes
  <2>2. StatusOf[c] = "idle" /\ StatusOf'[c] = "waiting"
    BY <2>1 DEF StatusOf
  <2>3. \A d \in Polls \ {c} : StatusOf'[d] = StatusOf[d]
    BY <1>2 DEF StatusOf, Still
  <2>4. /\ StatusOf = [d \in Polls |-> StatusOf[d]]
        /\ StatusOf' = [d \in Polls |-> StatusOf'[d]]
    BY DEF StatusOf
  <2>5. UNCHANGED HaveSeen
    BY <1>2 DEF HaveSeen, Goes, Still
  <2>6. QED
    BY <2>2, <2>3, <2>4, <2>5
<1>5. UNCHANGED <<FlagUp, OnTheWay>>
  BY <1>1, WayLemma DEF longpollNotifications, FlagUp, TypeOK
<1>6. QED
  BY <1>3, <1>4, <1>5, Starts

\* A poll goes on, is answered at once or times out.
LEMMA PollStepImplements ==
  ASSUME Inv, SettledInv, NEW c \in Polls, PollStep(c)
  PROVE  SettledInv' /\ Implemented
<1>1. /\ TypeOK /\ c \in Callers /\ Settled(c) /\ PollInv(c)
      /\ c \in HaveSeen <=> saw[c] = "true"
  BY PollFacts
<1>2. UNCHANGED <<rw, store, inbox>>
  BY DEF PollStep, AnswerAtOnce, WaitForMessage, SetTimer, reactOnTimeout, redisVars
<1>3. UNCHANGED OnTheWay
  BY <1>1, <1>2, WayLemma DEF TypeOK
<1>4. \A d \in Polls \ {c} : Still(d)
  BY <1>1, CallerPlaces
  DEF PollStep, AnswerAtOnce, WaitForMessage, SetTimer, reactOnTimeout, Resolve, Still, TypeOK
<1>5. CASE AnswerAtOnce(c)
  <2>1. Ends(c, "true") /\ c \in HaveSeen
    BY <1>1, <1>5 DEF AnswerAtOnce, hasUnackedMessage, At, Resolve, Ends, Settled, TypeOK
  <2>2. SettledInv' /\ UNCHANGED FlagUp
    BY <1>2, <1>4, <2>1, SettledStep DEF Moves
  <2>3. QED
    BY <1>3, <1>4, <2>1, <2>2, EndedStatus, AnswersTrue
<1>6. CASE WaitForMessage(c) \/ SetTimer(c)
  <2>1. \/ Goes(c, "got", "subscribing") /\ saw[c] # "true"
        \/ Goes(c, "arming", "armed")
    BY <1>1, <1>6 DEF WaitForMessage, SetTimer, hasUnackedMessage, At, Goes, TypeOK
  <2>2. SettledInv' /\ UNCHANGED FlagUp
    BY <1>2, <1>4, <2>1, SettledStep DEF Moves
  <2>3. UNCHANGED <<StatusOf, HaveSeen>>
    BY <1>4, <2>1, SameStatus DEF Goes
  <2>4. QED
    BY <1>3, <2>2, <2>3, Stutters
<1>7. CASE reactOnTimeout(c)
  <2>1. Ends(c, "false") /\ c \notin HaveSeen
    BY <1>1, <1>7 DEF reactOnTimeout, At, Resolve, Ends, Settled, TypeOK
  <2>2. SettledInv' /\ UNCHANGED FlagUp
    BY <1>2, <1>4, <2>1, SettledStep DEF Moves
  <2>3. QED
    BY <1>3, <1>4, <2>1, <2>2, EndedStatus, AnswersFalse
<1>8. QED
  BY <1>5, <1>6, <1>7 DEF PollStep

\* An ack, and the flagging of a message, are not seen before redis executes them.
LEMMA AckImplements ==
  ASSUME Inv, SettledInv, NEW k \in Acks, ackNewMessage(k) \/ AckCleanup(k)
  PROVE  SettledInv' /\ Implemented
<1>1. /\ TypeOK /\ k \notin Polls /\ k \in Callers
      /\ CallerProc[k] \in Procs /\ CallerAgent[k] \in Agents
  BY CallerPlaces, PollsAreNotOthers DEF Inv
<1>2. (\A c \in Polls : Still(c)) /\ UNCHANGED <<store, inbox>>
  BY <1>1, CallerPlaces DEF ackNewMessage, AckCleanup, Still, TypeOK
<1>3. OnlyTrueSent'
  <2>1. CASE ackNewMessage(k)
    <3> DEFINE r == [op |-> "del", key |-> CallerAgent[k], by |-> k]
    <3>1. r \in Request /\ r.op # "set" /\ rw' = [rw EXCEPT ![CallerProc[k]] = Append(@, r)]
      BY <1>1, <2>1 DEF ackNewMessage, deleteValue, Request
    <3>2. QED
      BY <1>1, <1>2, <3>1, SentKept DEF SettledInv
  <2>2. CASE AckCleanup(k)
    BY <1>1, <1>2, <2>2, SentKept DEF AckCleanup, SettledInv
  <2>3. QED
    BY <2>1, <2>2
<1>4. SettledInv'
  BY <1>2, <1>3, SettledKept DEF SettledInv, Moves
<1>5. UNCHANGED <<FlagUp, StatusOf, HaveSeen, OnTheWay>>
  BY <1>1, <1>2, WayLemma, SameStatus DEF FlagUp, TypeOK
<1>6. QED
  BY <1>4, <1>5, Stutters

LEMMA FlaggingImplements ==
  ASSUME Inv, SettledInv, NEW p \in Procs, NEW a \in Agents, flagNewMessage(p, a)
  PROVE  SettledInv' /\ Implemented
<1>1. TypeOK
  BY DEF Inv
<1>2. (\A c \in Polls : Still(c)) /\ UNCHANGED <<store, inbox>>
  BY DEF flagNewMessage, serviceVars, Still
<1>3. OnlyTrueSent'
  <2> DEFINE r == [op |-> "set", key |-> a, value |-> "true"]
  <2>1. r \in Request /\ r.value = "true" /\ rw' = [rw EXCEPT ![p] = Append(@, r)]
    BY FlagIsAValue DEF flagNewMessage, setValue, Request
  <2>2. QED
    BY <1>1, <1>2, <2>1, SentKept DEF SettledInv
<1>4. SettledInv'
  BY <1>2, <1>3, SettledKept DEF SettledInv, Moves
<1>5. UNCHANGED <<FlagUp, StatusOf, HaveSeen, OnTheWay>>
  BY <1>1, <1>2, WayLemma, SameStatus DEF FlagUp, TypeOK
<1>6. QED
  BY <1>4, <1>5, Stutters

\* A GET is executed: its poll has read the flag.
LEMMA GetImplements ==
  ASSUME Inv, SettledInv, NEW p \in Procs, GetExecuted(p)
  PROVE  SettledInv' /\ Implemented
<1> DEFINE c == Head(rw[p]).by
<1>1. TypeOK /\ rw[p] # <<>> /\ Head(rw[p]).op = "get" /\ UNCHANGED <<store, inbox>> /\ Executed(p)
  BY DEF Inv, GetExecuted, RedisGet, HeadIs
<1>2. c \in Polls /\ phase[c] = "getting"
  <2>1. 1 \in DOMAIN rw[p] /\ rw[p][1] = Head(rw[p])
    BY <1>1 DEF TypeOK, RedisTypeOK
  <2>2. QED
    BY <1>1, <2>1 DEF Inv, RwInv, RequestInv
<1>3. /\ phase' = [phase EXCEPT ![c] = "got"] /\ saw' = [saw EXCEPT ![c] = store[CallerAgent[c]]]
      /\ UNCHANGED answer
  BY DEF GetExecuted
<1> HIDE DEF c
<1>4. /\ phase'[c] = "got" /\ saw'[c] = store[CallerAgent[c]] /\ answer'[c] = answer[c]
      /\ \A d \in Polls \ {c} : Still(d)
  BY <1>1, <1>2, <1>3, CallerPlaces DEF TypeOK, Still
<1>5. SettledInv'
  <2>1. OnlyTrueSent'
    BY <1>1, SentKept DEF SettledInv
  <2>2. QED
    BY <1>2, <1>4, <2>1, SettledKept DEF SettledInv, Moves
<1>6. answer[c] = "none" /\ saw[c] # "true" /\ StatusOf[c] = "waiting"
  BY <1>2, PollFacts DEF Settled, StatusOf
<1>7. UNCHANGED <<FlagUp, StatusOf, OnTheWay>>
  <2>1. UNCHANGED <<FlagUp, OnTheWay>>
    BY <1>1, WayLemma DEF FlagUp, TypeOK
  <2>2. \A d \in Polls : StatusOf'[d] = StatusOf[d]
    BY <1>2, <1>4 DEF StatusOf, Still
  <2>3. StatusOf = [d \in Polls |-> StatusOf[d]] /\ StatusOf' = [d \in Polls |-> StatusOf'[d]]
    BY DEF StatusOf
  <2>4. QED
    BY <2>1, <2>2, <2>3
<1>8. CASE store[CallerAgent[c]] = "true"
  <2>1. FlagUp[CallerAgent[c]]
    BY <1>2, <1>8, PollFacts
  <2>2. HaveSeen' = HaveSeen \cup {c}
    BY <1>2, <1>4, <1>8 DEF HaveSeen, Still
  <2>3. QED
    BY <1>2, <1>5, <1>6, <1>7, <2>1, <2>2, ReadsFlag
<1>9. CASE store[CallerAgent[c]] # "true"
  <2>1. HaveSeen' = HaveSeen
    BY <1>2, <1>4, <1>6, <1>9 DEF HaveSeen, Still
  <2>2. QED
    BY <1>5, <1>7, <2>1, Stutters
<1>10. QED
  BY <1>8, <1>9

\* A SET is executed: the flag goes up, and is announced to the processes that listen.
LEMMA SetImplements ==
  ASSUME Inv, SettledInv, NEW p \in Procs, SetExecuted(p)
  PROVE  SettledInv' /\ Implemented
<1> DEFINE a == Head(rw[p]).key
<1>1. TypeOK /\ HeadIs(p, "set") /\ Executed(p) /\ Publish(a, "set") /\ (\A c \in Polls : Still(c))
  BY DEF Inv, SetExecuted, RedisSet, serviceVars, Still
<1>2. a \in Agents
  BY <1>1, HeadOfRw DEF HeadIs, TypeOK
<1>3. store' = [store EXCEPT ![a] = Head(rw[p]).value]
  BY DEF SetExecuted, RedisSet
<1>4. Head(rw[p]).value = "true"
  <2>1. 1 \in DOMAIN rw[p] /\ rw[p][1] = Head(rw[p])
    BY <1>1 DEF HeadIs, TypeOK, RedisTypeOK
  <2>2. QED
    BY <1>1, <2>1 DEF HeadIs, SettledInv, OnlyTrueSent
<1>5. SettledInv'
  <2>1. OnlyTrueSent'
    BY <1>1, <1>3, SentKept DEF SettledInv, HeadIs
  <2>2. QED
    BY <1>1, <2>1, SettledKept DEF SettledInv, Moves
<1> HIDE DEF a
<1>6. FlagUp' = [FlagUp EXCEPT ![a] = TRUE]
  BY <1>1, <1>2, <1>3, <1>4 DEF FlagUp, TypeOK, RedisTypeOK
<1>7. UNCHANGED <<StatusOf, HaveSeen>>
  BY <1>1, SameStatus
<1> DEFINE reached == {q \in Procs : up[q] /\ subscribed[q][a]}
<1>8. OnTheWay' = [q \in Procs |-> [b \in Agents |->
                     IF b = a /\ q \in reached THEN OnTheWay[q][b] + 1 ELSE OnTheWay[q][b]]]
  BY <1>1, <1>2, WayLemma DEF TypeOK
<1>9. reached \in SUBSET Procs
  OBVIOUS
<1> HIDE DEF reached
<1>10. QED
  BY <1>2, <1>5, <1>6, <1>7, <1>8, <1>9, Raises

\* A DEL is executed: the flag goes down.
LEMMA DelImplements ==
  ASSUME Inv, SettledInv, NEW p \in Procs, DelExecuted(p)
  PROVE  SettledInv' /\ Implemented
<1> DEFINE a == Head(rw[p]).key
<1>1. TypeOK /\ HeadIs(p, "del") /\ Executed(p) /\ (Publish(a, "del") \/ UNCHANGED inbox)
  BY DEF Inv, DelExecuted, RedisDel
<1>2. a \in Agents
  BY <1>1, HeadOfRw DEF HeadIs, TypeOK
<1>3. store' = [store EXCEPT ![a] = Nil] /\ UNCHANGED <<answer, saw>>
  BY DEF DelExecuted, RedisDel
<1>4. Head(rw[p]).by \notin Polls
  <2>1. 1 \in DOMAIN rw[p] /\ rw[p][1] = Head(rw[p])
    BY <1>1 DEF HeadIs, TypeOK, RedisTypeOK
  <2>2. QED
    BY <1>1, <2>1, PollsAreNotOthers DEF HeadIs, Inv, RwInv, RequestInv
<1>5. \A c \in Polls : Still(c)
  BY <1>1, <1>3, <1>4, CallerPlaces DEF DelExecuted, TypeOK, Still
<1>6. SettledInv'
  <2>1. OnlyTrueSent'
    BY <1>1, <1>3, SentKept DEF SettledInv, HeadIs
  <2>2. QED
    BY <1>5, <2>1, SettledKept DEF SettledInv, Moves
<1> HIDE DEF a
<1>7. FlagUp' = [FlagUp EXCEPT ![a] = FALSE]
  <2>1. Nil # "true"
    BY ValueAssumption, FlagIsAValue
  <2>2. QED
    BY <1>1, <1>2, <1>3, <2>1 DEF FlagUp, TypeOK, RedisTypeOK
<1>8. UNCHANGED <<StatusOf, HaveSeen, OnTheWay>>
  BY <1>1, <1>2, <1>5, SameStatus, WayLemma DEF TypeOK
<1>9. QED
  BY <1>2, <1>6, <1>7, <1>8, Lowers

\* An event is handled: a flagging wakes up one waiting poll or none.
LEMMA EventImplements ==
  ASSUME Inv, SettledInv, NEW p \in Procs, NEW a \in Agents, OnEvent(p, a)
  PROVE  SettledInv' /\ Implemented
<1> DEFINE c == agentSubscriptions[p][a]
<1>1. /\ TypeOK /\ UNCHANGED <<rw, store, saw>>
      /\ inbox[p][a] # <<>> /\ Dequeue(p, a)
  BY DEF Inv, OnEvent
<1>2. CASE UNCHANGED <<answer, phase>>
  <2>1. \A d \in Polls : Still(d)
    BY <1>1, <1>2 DEF Still
  <2>2. SettledInv' /\ UNCHANGED <<FlagUp, StatusOf, HaveSeen>>
    BY <1>1, <2>1, SettledStep, SameStatus DEF Moves
  <2>3. CASE Received(p, a).type = "set"
    BY <1>1, <2>2, <2>3, WayLemma, Wakes DEF TypeOK
  <2>4. CASE Received(p, a).type # "set"
    BY <1>1, <2>2, <2>4, WayLemma, Stutters DEF TypeOK
  <2>5. QED
    BY <2>3, <2>4
<1>3. CASE /\ c \in Polls /\ Received(p, a).type = "set"
           /\ Resolve(c, "true") /\ phase' = [phase EXCEPT ![c] = "over"]
  <2>1. /\ CallerProc[c] = p /\ CallerAgent[c] = a /\ Entry(c) = c
        /\ PollInv(c) /\ Settled(c) /\ c \in Callers
    BY <1>3, CallerPlaces DEF Inv, ChannelInv, SettledInv, Entry
  <2>2. \A d \in Polls \ {c} : Still(d)
    BY <1>1, <1>3, CallerPlaces DEF Resolve, Still, TypeOK
  <2>3. OnTheWay[p][a] > 0 /\ OnTheWay' = [OnTheWay EXCEPT ![p][a] = @ - 1]
    BY <1>1, <1>3, WayLemma DEF TypeOK
  <2>4. phase[c] \notin NotRegistered /\ phase'[c] = "over"
    BY <1>1, <1>3, <2>1 DEF PollInv, PollView, TypeOK
  <2>5. CASE phase[c] = "over"
    <3>1. Still(c)
      BY <1>1, <1>3, <2>1, <2>4, <2>5 DEF Settled, Resolve, Still, TypeOK
    <3>2. \A d \in Polls : Still(d)
      BY <2>2, <3>1
    <3>3. SettledInv' /\ UNCHANGED <<FlagUp, StatusOf, HaveSeen>>
      BY <1>1, <3>2, SettledStep, SameStatus DEF Moves
    <3>4. QED
      BY <2>3, <3>3, Wakes
  <2>6. CASE phase[c] # "over"
    <3>1. Ends(c, "true")
      BY <1>1, <1>3, <2>1, <2>4, <2>6 DEF Settled, Resolve, Ends, NotRegistered, TypeOK
    <3>2. SettledInv' /\ UNCHANGED FlagUp
      BY <1>1, <1>3, <2>2, <3>1, SettledStep DEF Moves
    <3>3. /\ StatusOf[c] = "waiting" /\ StatusOf' = [StatusOf EXCEPT ![c] = "true"]
          /\ UNCHANGED HaveSeen
      BY <1>3, <2>2, <3>1, EndedStatus
    <3> HIDE DEF c
    <3>4. QED
      BY <1>3, <2>1, <2>3, <3>2, <3>3, Wakes
  <2>7. QED
    BY <2>5, <2>6
<1>4. QED
  BY <1>1, <1>2, <1>3 DEF OnEvent, reactOnNewMessage, isOurKeyspaceSetNotification, TypeOK

\* Replies, commands executed by redis and a new connection promise nothing.
LEMMA QuietImplements ==
  ASSUME Inv, SettledInv, NEW p \in Procs,
         \/ Reconnect(p)
         \/ \E a \in Agents :
              \/ OnReply(p, a)
              \/ RedisCommand(p, a) /\ UNCHANGED <<serviceVars, boundVars, woken>>
  PROVE  SettledInv' /\ Implemented
<1>1. TypeOK /\ UNCHANGED <<rw, store, answer, saw>>
  BY DEF Inv, Reconnect, Reconnected, OnReply, RedisCommand, serviceVars
<1>2. \A c \in Polls : Still(c) \/ Goes(c, "subscribing", "arming")
  <2>1. CASE UNCHANGED phase
    BY <1>1, <2>1 DEF Still
  <2>2. CASE \E a \in Agents : OnReply(p, a)
    <3>1. PICK a \in Agents : OnReply(p, a)
      BY <2>2
    <3>2. \A c \in Polls : phase[c] \notin {"unsubscribing"}
      BY DEF Inv, PollInv, PollView, NotRegistered
    <3>3. QED
      BY <1>1, <3>1, <3>2, CallerPlaces DEF OnReply, At, Still, Goes
  <2>3. QED
    BY <2>1, <2>2 DEF Reconnect, serviceVars
<1>3. SettledInv' /\ UNCHANGED <<FlagUp, StatusOf, HaveSeen>>
  BY <1>1, <1>2, SettledStep, SameStatus DEF Moves, Goes
<1>4. UNCHANGED OnTheWay
  <2>1. CASE Reconnect(p)
    BY <1>1, <2>1, WayLemma DEF Reconnect, Reconnected, TypeOK
  <2>2. ASSUME NEW a \in Agents, OnReply(p, a) PROVE UNCHANGED OnTheWay
    <3>1. inbox[p][a] # <<>> /\ Received(p, a).type # "set" /\ Dequeue(p, a)
      BY <2>2 DEF OnReply
    <3>2. QED
      BY <1>1, <3>1, WayLemma DEF TypeOK
  <2>3. ASSUME NEW a \in Agents, RedisCommand(p, a) PROVE UNCHANGED OnTheWay
    <3> DEFINE e == [type |-> Head(cmds[p][a]).op, by |-> Head(cmds[p][a]).by]
    <3>1. Head(cmds[p][a]) \in Command
      BY <1>1, <2>3 DEF RedisCommand, TypeOK, RedisTypeOK
    <3>2. e \in Event /\ e.type # "set"
      BY <3>1 DEF Command, Event
    <3>3. inbox' = [inbox EXCEPT ![p][a] = Append(@, e)]
      BY <2>3 DEF RedisCommand
    <3>4. QED
      BY <1>1, <3>2, <3>3, WayLemma DEF TypeOK
  <2>4. QED
    BY <2>1, <2>2, <2>3
<1>5. QED
  BY <1>3, <1>4, Stutters

\* A lost connection and a crash fail polls that are not settled yet.
LEMMA FailureImplements ==
  ASSUME Inv, SettledInv, NEW p \in Procs, LoseConnection(p) \/ Crash(p)
  PROVE  SettledInv' /\ Implemented
<1> DEFINE failed == {c \in Polls : /\ CallerProc[c] = p /\ answer[c] = "none"
                                    /\ \/ LoseConnection(p) /\ phase[c] = "subscribing"
                                       \/ Crash(p) /\ phase[c] # "idle"}
<1>1. /\ TypeOK /\ UNCHANGED <<store, saw>>
      /\ inbox' = [inbox EXCEPT ![p] = [a \in Agents |-> <<>>]]
  BY DEF Inv, LoseConnection, ConnectionLost, Crash, ProcessLost
<1>2. \A c \in Polls : IF c \in failed THEN Ends(c, "error") ELSE Still(c)
  <2>1. ASSUME NEW c \in Polls PROVE IF c \in failed THEN Ends(c, "error") ELSE Still(c)
    <3>1. Settled(c) /\ c \in Callers /\ phase[c] # "unsubscribing"
      BY PollFacts DEF PollInv, PollView, NotRegistered
    <3>2. CASE LoseConnection(p)
      <4>1. /\ phase'[c] = IF CallerProc[c] = p /\ phase[c] = "subscribing" THEN "over" ELSE phase[c]
            /\ answer'[c] = IF CallerProc[c] = p /\ phase[c] = "subscribing" THEN "error" ELSE answer[c]
        BY <3>1, <3>2 DEF LoseConnection
      <4>2. ~Crash(p)
        BY <1>1, <3>2 DEF LoseConnection, Crash, TypeOK
      <4>3. QED
        BY <1>1, <3>1, <3>2, <4>1, <4>2 DEF Settled, Ends, Still
    <3>3. CASE Crash(p)
      <4>1. /\ phase'[c] = IF CallerProc[c] = p /\ phase[c] # "idle" THEN "over" ELSE phase[c]
            /\ answer'[c] = IF CallerProc[c] = p /\ phase[c] # "idle" /\ answer[c] = "none"
                            THEN "error" ELSE answer[c]
        BY <3>1, <3>3 DEF Crash, At
      <4>2. ~LoseConnection(p)
        BY <1>1, <3>3 DEF LoseConnection, Crash, TypeOK
      <4>3. QED
        BY <1>1, <3>1, <3>3, <4>1, <4>2 DEF Settled, Ends, Still
    <3>4. QED
      BY <3>2, <3>3
  <2>2. QED
    BY <2>1
<1>3. \A c \in failed : CallerProc[c] = p
  OBVIOUS
<1>4. failed \in SUBSET Polls
  OBVIOUS
<1>5. OnlyTrueSent'
  <2>1. UNCHANGED rw \/ rw' = [rw EXCEPT ![p] = <<>>]
    BY DEF LoseConnection, ConnectionLost, Crash, ProcessLost
  <2>2. QED
    BY <1>1, <2>1, SentKept DEF SettledInv
<1> HIDE DEF failed
<1>6. SettledInv'
  BY <1>2, <1>5, SettledKept DEF SettledInv, Moves
<1>7. failed \in SUBSET {c \in Polls : CallerProc[c] = p /\ StatusOf[c] = "waiting"}
  BY <1>2, <1>3, <1>4 DEF StatusOf, Ends
<1>8. StatusOf' = [c \in Polls |-> IF c \in failed THEN "error" ELSE StatusOf[c]]
  <2>1. \A c \in Polls : StatusOf'[c] = IF c \in failed THEN "error" ELSE StatusOf[c]
    BY <1>2 DEF StatusOf, Ends, Still
  <2>2. StatusOf' = [c \in Polls |-> StatusOf'[c]]
    BY DEF StatusOf
  <2>3. QED
    BY <2>1, <2>2
<1>9. OnTheWay' = [OnTheWay EXCEPT ![p] = [a \in Agents |-> 0]]
  BY <1>1, WayLemma DEF TypeOK
<1>10. UNCHANGED <<FlagUp, HaveSeen>>
  BY <1>1 DEF FlagUp, HaveSeen
<1>11. QED
  BY <1>6, <1>7, <1>8, <1>9, <1>10, Fails

\* The service starts where LongPoll starts.
LEMMA InitImplements == Init => SettledInv /\ LP!Init
<1> SUFFICES ASSUME Init PROVE SettledInv /\ LP!Init
  OBVIOUS
<1>1. Nil # "true"
  BY ValueAssumption, FlagIsAValue
<1>2. SettledInv
  <2>1. OnlyTrueSent
    BY DEF Init, RedisInit, OnlyTrueSent
  <2>2. \A c \in Polls : Settled(c)
    BY <1>1, CallerPlaces DEF Init, Settled
  <2>3. QED
    BY <2>1, <2>2 DEF SettledInv
<1>3. OnTheWay = [p \in Procs |-> [a \in Agents |-> 0]]
  <2>1. ASSUME NEW p \in Procs, NEW a \in Agents PROVE Cardinality(Sets(inbox[p][a])) = 0
    <3>1. Sets(inbox[p][a]) = {}
      BY DEF Init, RedisInit, Sets
    <3>2. QED
      BY <3>1, FS_EmptySet
  <2>2. QED
    BY <2>1 DEF OnTheWay
<1>4. QED
  BY <1>1, <1>2, <1>3, CallerPlaces DEF Init, RedisInit, LP!Init, At

\* Every step keeps the promises settled and is one of LongPoll or none.
LEMMA StepImplements == ASSUME Inv, SettledInv, [Next]_vars PROVE SettledInv' /\ Implemented
<1>1. CASE Next
  BY <1>1, StartImplements, PollStepImplements, AckImplements, FlaggingImplements, GetImplements,
     SetImplements, DelImplements, EventImplements, QuietImplements, FailureImplements
  DEF Next, RedisStep
<1>2. CASE UNCHANGED vars
  <2>1. UNCHANGED <<rw, store, inbox>> /\ \A c \in Polls : Still(c)
    BY <1>2 DEF vars, redisVars, serviceVars, Still
  <2>2. TypeOK
    BY DEF Inv
  <2>3. SettledInv' /\ UNCHANGED <<FlagUp, StatusOf, HaveSeen, OnTheWay>>
    BY <2>1, <2>2, SettledStep, SameStatus, WayLemma DEF Moves, TypeOK
  <2>4. QED
    BY <2>3, Stutters
<1>3. QED
  BY <1>1, <1>2

\* The service implements LongPoll: every step of redis, of the event loop and of a
\* failure is one of its steps or changes nothing a caller was promised
\* (longpoll.js:28-64, service-new-messages.js:28-74).
THEOREM Implementation == Spec => ImplementsLongPoll
<1>1. Inv /\ SettledInv /\ [Next]_vars => SettledInv' /\ [LP!Next]_(LP!vars)
  BY StepImplements DEF Implemented
<1>2. QED
  BY InitImplements, Invariance, <1>1, PTL DEF Spec, ImplementsLongPoll, LP!Spec

-----------------------------------------------------------------------------
(* Nobody waits in vain.  That what is waited for is on its way is         *)
(* inductive: whatever takes a request or a reply off its queue lets its   *)
(* caller go on or ends it.  That a timer may still answer is Settled.     *)

RedisWaits == {"getting", "deleting", "subscribing", "unsubscribing"}

\* A caller goes on waiting for what it has sent, or waits no more.
Served(c) ==
  \/ phase'[c] \notin RedisWaits
  \/ /\ phase'[c] = phase[c]
     /\ RwKept(CallerProc[c], c)
     /\ phase[c] \in {"getting", "deleting"} \/ CmdKept(CallerProc[c], CallerAgent[c], c)

LEMMA ServedLemma ==
  ASSUME NEW c \in Callers, OnItsWay(c), Served(c)
  PROVE  OnItsWay(c)'
  BY DEF OnItsWay, Served, RedisWaits, At, RwKept, CmdKept

\* A step that leaves the queues alone serves whoever stays or waits no more.
LEMMA IdleQueues ==
  ASSUME NEW c \in Callers, UNCHANGED <<rw, cmds, inbox>>
  PROVE  RwKept(CallerProc[c], c) /\ CmdKept(CallerProc[c], CallerAgent[c], c)
  BY DEF RwKept, CmdKept, Commanded

\* Registering and cleaning up keep the commands that are waited for.
LEMMA HandlersKeep ==
  ASSUME TypeOK, NEW c \in Polls,
         registerNewMessageCallback(c) \/ cleanupNewMessageCallback(c)
  PROVE  /\ \A q \in Procs, b \in Agents, d \in Callers, op \in {"subscribe", "unsubscribe"} :
              Asked(cmds[q][b], d, op) => Asked(cmds'[q][b], d, op)
         /\ UNCHANGED inbox =>
              \A q \in Procs, b \in Agents, d \in Callers : CmdKept(q, b, d)
<1>1. RedisTypeOK /\ CallerProc[c] \in Procs /\ CallerAgent[c] \in Agents /\ c \in Callers
  BY CallerPlaces DEF TypeOK
<1>2. CASE \E k \in Callers \cup {NoCaller} :
             \/ subscribeKey(CallerProc[c], CallerAgent[c], k)
             \/ unsubscribeKey(CallerProc[c], CallerAgent[c], k)
  BY <1>1, <1>2, CommandKept
<1>3. CASE UNCHANGED cmds
  BY <1>3 DEF CmdKept, Commanded
<1>4. QED
  BY <1>1, <1>2, <1>3
  DEF registerNewMessageCallback, cleanupNewMessageCallback, cleanupSubscription

\* The steps of a poll.
LEMMA PollServes ==
  ASSUME TypeOK, NEW c \in Polls, longpollNotifications(c) \/ PollStep(c),
         NEW d \in Callers, OnItsWay(d)
  PROVE  OnItsWay(d)'
<1>1. /\ RedisTypeOK /\ CallerProc[c] \in Procs /\ CallerAgent[c] \in Agents /\ c \in Callers
      /\ CallerProc[d] \in Procs /\ CallerAgent[d] \in Agents /\ phase \in [Callers -> Phase]
  BY CallerPlaces DEF TypeOK
<1>2. CASE longpollNotifications(c)
  <2>1. Asked(rw'[CallerProc[c]], c, "get") /\ RwKept(CallerProc[d], d)
    BY <1>1, <1>2, AskLemma DEF longpollNotifications, RwKept
  <2>2. CmdKept(CallerProc[d], CallerAgent[d], d)
    BY <1>2 DEF longpollNotifications, CmdKept, Commanded
  <2>3. CASE d = c
    BY <1>1, <1>2, <2>1, <2>3 DEF longpollNotifications, OnItsWay, At
  <2>4. CASE d # c
    BY <1>1, <1>2, <2>1, <2>2, <2>4, ServedLemma DEF longpollNotifications, Served
  <2>5. QED
    BY <2>3, <2>4
<1>3. CASE AnswerAtOnce(c) \/ SetTimer(c)
  <2>1. RwKept(CallerProc[d], d) /\ CmdKept(CallerProc[d], CallerAgent[d], d)
    BY <1>3, IdleQueues DEF AnswerAtOnce, SetTimer, redisVars
  <2>2. QED
    BY <1>1, <1>3, <2>1, ServedLemma DEF AnswerAtOnce, SetTimer, Served, RedisWaits
<1>4. CASE WaitForMessage(c)
  <2>1. Asked(cmds'[CallerProc[c]][CallerAgent[c]], c, "subscribe")
    BY <1>1, <1>4, CommandLemma DEF WaitForMessage, registerNewMessageCallback
  <2>2. RwKept(CallerProc[d], d) /\ CmdKept(CallerProc[d], CallerAgent[d], d)
    BY <1>1, <1>4, HandlersKeep DEF WaitForMessage, RwKept
  <2>3. CASE d = c
    BY <1>1, <1>4, <2>1, <2>3 DEF WaitForMessage, OnItsWay, Commanded, At
  <2>4. CASE d # c
    BY <1>1, <1>4, <2>2, <2>4, ServedLemma DEF WaitForMessage, Served
  <2>5. QED
    BY <2>3, <2>4
<1>5. CASE reactOnTimeout(c)
  <2>1. RwKept(CallerProc[d], d) /\ CmdKept(CallerProc[d], CallerAgent[d], d)
    BY <1>1, <1>5, HandlersKeep DEF reactOnTimeout, RwKept
  <2>2. QED
    BY <1>1, <1>5, <2>1, ServedLemma DEF reactOnTimeout, Served, RedisWaits
<1>6. QED
  BY <1>2, <1>3, <1>4, <1>5 DEF PollStep

\* The steps of an ack.
LEMMA AckServes ==
  ASSUME TypeOK, NEW k \in Acks, ackNewMessage(k) \/ AckCleanup(k),
         NEW d \in Callers, OnItsWay(d)
  PROVE  OnItsWay(d)'
<1>1. /\ RedisTypeOK /\ CallerProc[k] \in Procs /\ CallerAgent[k] \in Agents /\ k \in Callers
      /\ CallerProc[d] \in Procs /\ CallerAgent[d] \in Agents /\ phase \in [Callers -> Phase]
  BY CallerPlaces DEF TypeOK
<1>2. CASE ackNewMessage(k)
  <2>1. Asked(rw'[CallerProc[k]], k, "del") /\ RwKept(CallerProc[d], d)
    BY <1>1, <1>2, AskLemma DEF ackNewMessage, RwKept
  <2>2. CmdKept(CallerProc[d], CallerAgent[d], d)
    BY <1>2 DEF ackNewMessage, CmdKept, Commanded
  <2>3. CASE d = k
    BY <1>1, <1>2, <2>1, <2>3 DEF ackNewMessage, OnItsWay, At
  <2>4. CASE d # k
    BY <1>1, <1>2, <2>1, <2>2, <2>4, ServedLemma DEF ackNewMessage, Served
  <2>5. QED
    BY <2>3, <2>4
<1>3. CASE AckCleanup(k) /\ cleanupSubscription(CallerProc[k], CallerAgent[k], k)
                         /\ phase' = [phase EXCEPT ![k] = "unsubscribing"]
  <2>1. Asked(cmds'[CallerProc[k]][CallerAgent[k]], k, "unsubscribe")
    BY <1>1, <1>3, CommandLemma DEF cleanupSubscription
  <2>2. RwKept(CallerProc[d], d) /\ CmdKept(CallerProc[d], CallerAgent[d], d)
    BY <1>1, <1>3, CommandKept DEF AckCleanup, cleanupSubscription, RwKept
  <2>3. CASE d = k
    BY <1>1, <1>3, <2>1, <2>3 DEF OnItsWay, Commanded, At
  <2>4. CASE d # k
    BY <1>1, <1>3, <2>2, <2>4, ServedLemma DEF Served
  <2>5. QED
    BY <2>3, <2>4
<1>4. CASE AckCleanup(k) /\ UNCHANGED <<agentSubscriptions, cmds>>
                         /\ phase' = [phase EXCEPT ![k] = "over"]
  <2>1. RwKept(CallerProc[d], d) /\ CmdKept(CallerProc[d], CallerAgent[d], d)
    BY <1>4, IdleQueues DEF AckCleanup
  <2>2. QED
    BY <1>1, <1>4, <2>1, ServedLemma DEF Served, RedisWaits
<1>5. QED
  BY <1>2, <1>3, <1>4 DEF AckCleanup

\* Redis executes a request: its caller goes on, the others wait for theirs.
LEMMA RedisServes ==
  ASSUME TypeOK, NEW p \in Procs, RedisStep(p), NEW d \in Callers, OnItsWay(d)
  PROVE  OnItsWay(d)'
<1> DEFINE r == Head(rw[p])
<1>1. /\ RedisTypeOK /\ phase \in [Callers -> Phase]
      /\ CallerProc[d] \in Procs /\ CallerAgent[d] \in Agents
  BY CallerPlaces DEF TypeOK
<1>2. rw[p] # <<>> /\ Executed(p) /\ r.key \in Agents
  BY <1>1, HeadOfRw
  DEF RedisStep, GetExecuted, SetExecuted, DelExecuted, RedisGet, RedisSet, RedisDel, HeadIs
<1>3. (r.op \in {"get", "del"} => r.by # d) => RwKept(CallerProc[d], d)
  BY <1>1, <1>2, AnswerLemma DEF RwKept
<1>4. CmdKept(CallerProc[d], CallerAgent[d], d)
  <2>1. UNCHANGED cmds
    BY DEF RedisStep, GetExecuted, SetExecuted, DelExecuted, RedisGet, RedisSet, RedisDel
  <2>2. UNCHANGED inbox \/ \E type \in {"set", "del"} : Publish(r.key, type)
    BY DEF RedisStep, GetExecuted, SetExecuted, DelExecuted, RedisGet, RedisSet, RedisDel
  <2>3. \A op \in {"subscribe", "unsubscribe"} :
          Replied(inbox[CallerProc[d]][CallerAgent[d]], d, op) =>
            Replied(inbox'[CallerProc[d]][CallerAgent[d]], d, op)
    BY <1>1, <1>2, <2>2, ReplyLemma
  <2>4. QED
    BY <2>1, <2>3 DEF CmdKept, Commanded
<1>5. CASE GetExecuted(p)
  <2>1. r.op = "get" /\ r.by \in Callers /\ phase' = [phase EXCEPT ![r.by] = "got"]
    BY <1>1, <1>2, <1>5, HeadOfRw DEF GetExecuted, RedisGet, HeadIs
  <2>2. QED
    BY <1>1, <1>3, <1>4, <2>1, ServedLemma DEF Served, RedisWaits
<1>6. CASE SetExecuted(p)
  <2>1. r.op = "set" /\ UNCHANGED phase
    BY <1>6 DEF SetExecuted, RedisSet, HeadIs, serviceVars
  <2>2. QED
    BY <1>1, <1>3, <1>4, <2>1, ServedLemma DEF Served
<1>7. CASE DelExecuted(p)
  <2>1. r.op = "del" /\ r.by \in Callers /\ phase' = [phase EXCEPT ![r.by] = "deleted"]
    BY <1>1, <1>2, <1>7, HeadOfRw DEF DelExecuted, RedisDel, HeadIs
  <2>2. QED
    BY <1>1, <1>3, <1>4, <2>1, ServedLemma DEF Served, RedisWaits
<1>8. QED
  BY <1>5, <1>6, <1>7 DEF RedisStep

\* Failures end those who wait for what is lost.
LEMMA FailureServes ==
  ASSUME TypeOK, NEW p \in Procs, LoseConnection(p) \/ Reconnect(p) \/ Crash(p),
         NEW d \in Callers, OnItsWay(d)
  PROVE  OnItsWay(d)'
<1>1. /\ phase \in [Callers -> Phase] /\ RedisTypeOK
      /\ CallerProc[d] \in Procs /\ CallerAgent[d] \in Agents
  BY CallerPlaces DEF TypeOK
<1>2. CASE LoseConnection(p)
  <2>1. RwKept(CallerProc[d], d)
    BY <1>2 DEF LoseConnection, ConnectionLost, RwKept
  <2>2. CallerProc[d] # p => CmdKept(CallerProc[d], CallerAgent[d], d)
    BY <1>1, <1>2 DEF LoseConnection, ConnectionLost, RedisTypeOK, CmdKept, Commanded
  <2>3. /\ phase'[d] = phase[d] \/ phase'[d] = "over"
        /\ CallerProc[d] = p /\ phase[d] \in {"subscribing", "unsubscribing"} => phase'[d] = "over"
    BY <1>2 DEF LoseConnection
  <2>4. QED
    BY <2>1, <2>2, <2>3, ServedLemma DEF Served, RedisWaits
<1>3. CASE Reconnect(p)
  <2>1. RwKept(CallerProc[d], d) /\ CmdKept(CallerProc[d], CallerAgent[d], d)
    BY <1>3, IdleQueues DEF Reconnect, Reconnected
  <2>2. QED
    BY <1>3, <2>1, ServedLemma DEF Reconnect, serviceVars, Served
<1>4. CASE Crash(p)
  <2>1. CallerProc[d] # p =>
          RwKept(CallerProc[d], d) /\ CmdKept(CallerProc[d], CallerAgent[d], d)
    BY <1>1, <1>4 DEF Crash, ProcessLost, RedisTypeOK, RwKept, CmdKept, Commanded
  <2>2. /\ CallerProc[d] # p => phase'[d] = phase[d]
        /\ CallerProc[d] = p => phase'[d] \in {"idle", "over"}
    BY <1>4 DEF Crash, At
  <2>3. QED
    BY <2>1, <2>2, ServedLemma DEF Served, RedisWaits
<1>5. QED
  BY <1>2, <1>3, <1>4

\* What a process sends and receives about one agent.
LEMMA ChannelServes ==
  ASSUME TypeOK, NEW p \in Procs, NEW a \in Agents,
         \/ flagNewMessage(p, a)
         \/ (RedisCommand(p, a) /\ UNCHANGED <<serviceVars, boundVars, woken>>)
         \/ OnEvent(p, a)
         \/ OnReply(p, a),
         NEW d \in Callers, OnItsWay(d)
  PROVE  OnItsWay(d)'
<1>1. /\ phase \in [Callers -> Phase] /\ RedisTypeOK
      /\ CallerProc[d] \in Procs /\ CallerAgent[d] \in Agents
  BY CallerPlaces DEF TypeOK
<1>2. CASE flagNewMessage(p, a)
  <2>1. RwKept(CallerProc[d], d)
    BY <1>1, <1>2, AskLemma, FlagIsAValue DEF flagNewMessage, RwKept
  <2>2. CmdKept(CallerProc[d], CallerAgent[d], d)
    BY <1>2 DEF flagNewMessage, CmdKept, Commanded
  <2>3. QED
    BY <1>2, <2>1, <2>2, ServedLemma DEF flagNewMessage, serviceVars, Served
<1>3. CASE RedisCommand(p, a) /\ UNCHANGED <<serviceVars, boundVars, woken>>
  <2>1. CmdKept(CallerProc[d], CallerAgent[d], d)
    BY <1>1, <1>3, ReplyLemma DEF CmdKept
  <2>2. RwKept(CallerProc[d], d) /\ UNCHANGED phase
    BY <1>3 DEF RedisCommand, RwKept, serviceVars
  <2>3. QED
    BY <2>1, <2>2, ServedLemma DEF Served
<1>4. CASE OnEvent(p, a)
  <2>1. \A op \in {"subscribe", "unsubscribe"} :
          Replied(inbox[CallerProc[d]][CallerAgent[d]], d, op) =>
            Replied(inbox'[CallerProc[d]][CallerAgent[d]], d, op)
    <3>1. inbox[p][a] # <<>> /\ Dequeue(p, a) /\ Head(inbox[p][a]).type \in {"set", "del"}
      BY <1>4 DEF OnEvent, Received
    <3>2. QED
      BY <1>1, <3>1, ReplyLemma
  <2>2. /\ \A op \in {"subscribe", "unsubscribe"} :
             Asked(cmds[CallerProc[d]][CallerAgent[d]], d, op) =>
               Asked(cmds'[CallerProc[d]][CallerAgent[d]], d, op)
        /\ phase'[d] = phase[d] \/ phase'[d] = "over"
    <3> DEFINE c == agentSubscriptions[p][a]
    <3>1. CASE c # NoPoll /\ reactOnNewMessage(c)
      <4>1. c \in Polls /\ c \in Callers
        BY <3>1, CallerPlaces DEF TypeOK
      <4>2. CASE UNCHANGED <<agentSubscriptions, cmds, answer, phase>>
        BY <4>2
      <4>3. CASE cleanupNewMessageCallback(c) /\ phase' = [phase EXCEPT ![c] = "over"]
        BY <1>1, <4>1, <4>3, HandlersKeep
      <4>4. QED
        BY <3>1, <4>2, <4>3 DEF reactOnNewMessage
    <3>2. CASE UNCHANGED <<agentSubscriptions, cmds, answer, phase>>
      BY <3>2
    <3>3. QED
      BY <1>4, <3>1, <3>2 DEF OnEvent
  <2>3. RwKept(CallerProc[d], d) /\ CmdKept(CallerProc[d], CallerAgent[d], d)
    BY <1>4, <2>1, <2>2 DEF OnEvent, RwKept, CmdKept, Commanded
  <2>4. QED
    BY <2>2, <2>3, ServedLemma DEF Served, RedisWaits
<1>5. CASE OnReply(p, a)
  <2> DEFINE k == Head(inbox[p][a]).by
  <2>1. /\ inbox[p][a] # <<>> /\ Dequeue(p, a) /\ UNCHANGED <<rw, cmds>>
        /\ phase'[d] = IF d = k /\ phase[d] = "subscribing" THEN "arming"
                       ELSE IF d = k /\ phase[d] = "unsubscribing" THEN "over"
                       ELSE phase[d]
    BY <1>5 DEF OnReply, Received, At
  <2> HIDE DEF k
  <2>2. RwKept(CallerProc[d], d)
    BY <2>1 DEF RwKept
  <2>3. d # k => CmdKept(CallerProc[d], CallerAgent[d], d)
    <3>1. d # k => \A op \in {"subscribe", "unsubscribe"} :
            Replied(inbox[CallerProc[d]][CallerAgent[d]], d, op) =>
              Replied(inbox'[CallerProc[d]][CallerAgent[d]], d, op)
      BY <1>1, <2>1, ReplyLemma DEF k
    <3>2. QED
      BY <2>1, <3>1 DEF CmdKept, Commanded
  <2>4. CASE d # k
    BY <2>1, <2>2, <2>3, <2>4, ServedLemma DEF Served
  <2>5. CASE d = k
    BY <2>1, <2>2, <2>5, ServedLemma DEF Served, RedisWaits
  <2>6. QED
    BY <2>4, <2>5
<1>6. QED
  BY <1>2, <1>3, <1>4, <1>5

\* Whatever happens serves or ends who waits: what a request waits for is on its way, and
\* its timer may answer
\* (longpoll.js:29-59, service-new-messages.js:54-74).
THEOREM NobodyWaits == Spec => []NobodyWaitsInVain
<1> DEFINE Waiting == \A c \in Callers : OnItsWay(c)
<1>1. Init => Waiting
  BY DEF Init, OnItsWay, At
<1>2. TypeOK /\ Waiting /\ [Next]_vars => Waiting'
  <2> SUFFICES ASSUME TypeOK, Waiting, [Next]_vars, NEW d \in Callers PROVE OnItsWay(d)'
    OBVIOUS
  <2>1. OnItsWay(d)
    OBVIOUS
  <2>2. CASE Next
    BY <2>1, <2>2, PollServes, AckServes, RedisServes, FailureServes, ChannelServes DEF Next
  <2>3. CASE UNCHANGED vars
    BY <2>1, <2>3 DEF vars, redisVars, serviceVars, OnItsWay, At, Commanded
  <2>4. QED
    BY <2>2, <2>3
<1>3. Inv /\ SettledInv /\ Waiting => NobodyWaitsInVain
  BY DEF NobodyWaitsInVain, SettledInv, Settled, wasResponseSent, At
<1>4. Init => SettledInv
  BY InitImplements
<1>5. Inv /\ SettledInv /\ [Next]_vars => SettledInv'
  BY StepImplements
<1>6. QED
  BY <1>1, <1>2, <1>3, <1>4, <1>5, TypeCorrect, Invariance, PTL DEF Spec

=============================================================================
