------------------------ MODULE RedisAdapter_proofs -------------------------
(***************************************************************************)
(* What every piece of RedisAdapter does to its type invariant, to the     *)
(* order of commands and replies, and to the number of flaggings and GETs  *)
(* on their way: the lemmas the proofs about the services cite.            *)
(***************************************************************************)
EXTENDS RedisAdapter, FiniteSetTheorems, TLAPS

\* A request at the head of a queue is a request, and its fields are typed.
LEMMA HeadOfRw ==
  ASSUME RedisTypeOK, NEW p \in Procs, rw[p] # <<>>
  PROVE  /\ Head(rw[p]) \in Request
         /\ Head(rw[p]).key \in Agents
         /\ Head(rw[p]).op \in {"get", "del"} => Head(rw[p]).by \in Callers
         /\ Head(rw[p]).op = "set" => Head(rw[p]).value \in Value
         /\ Tail(rw[p]) \in Seq(Request)
<1>1. rw[p] \in Seq(Request)
  BY DEF RedisTypeOK
<1>2. Head(rw[p]) \in Request /\ Tail(rw[p]) \in Seq(Request)
  BY <1>1
<1>3. QED
  BY <1>2 DEF Request

\* An event at the head of an inbox is an event.
LEMMA HeadOfInbox ==
  ASSUME RedisTypeOK, NEW p \in Procs, NEW a \in Agents, inbox[p][a] # <<>>
  PROVE  /\ Head(inbox[p][a]) \in Event
         /\ Tail(inbox[p][a]) \in Seq(Event)
  BY DEF RedisTypeOK

\* Sending a request keeps the queues typed.
LEMMA SendTyped ==
  ASSUME RedisTypeOK, NEW p \in Procs, NEW a \in Agents
  PROVE  /\ \A c \in Callers : getValue(p, a, c) => rw' \in [Procs -> Seq(Request)]
         /\ \A c \in Callers : deleteValue(p, a, c) => rw' \in [Procs -> Seq(Request)]
         /\ \A v \in Value : setValue(p, a, v) => rw' \in [Procs -> Seq(Request)]
         /\ \A c \in Callers \cup {NoCaller} :
              /\ subscribeKey(p, a, c) => cmds' \in [Procs -> [Agents -> Seq(Command)]]
              /\ unsubscribeKey(p, a, c) => cmds' \in [Procs -> [Agents -> Seq(Command)]]
<1>1. ASSUME NEW c \in Callers, getValue(p, a, c) PROVE rw' \in [Procs -> Seq(Request)]
  <2>1. [op |-> "get", key |-> a, by |-> c] \in Request
    BY DEF Request
  <2>2. QED
    BY <1>1, <2>1 DEF getValue, RedisTypeOK
<1>2. ASSUME NEW c \in Callers, deleteValue(p, a, c) PROVE rw' \in [Procs -> Seq(Request)]
  <2>1. [op |-> "del", key |-> a, by |-> c] \in Request
    BY DEF Request
  <2>2. QED
    BY <1>2, <2>1 DEF deleteValue, RedisTypeOK
<1>3. ASSUME NEW v \in Value, setValue(p, a, v) PROVE rw' \in [Procs -> Seq(Request)]
  <2>1. [op |-> "set", key |-> a, value |-> v] \in Request
    BY DEF Request
  <2>2. QED
    BY <1>3, <2>1 DEF setValue, RedisTypeOK
<1>4. ASSUME NEW c \in Callers \cup {NoCaller}, subscribeKey(p, a, c)
      PROVE  cmds' \in [Procs -> [Agents -> Seq(Command)]]
  <2>1. [op |-> "subscribe", by |-> c] \in Command
    BY DEF Command
  <2>2. QED
    BY <1>4, <2>1 DEF subscribeKey, RedisTypeOK
<1>5. ASSUME NEW c \in Callers \cup {NoCaller}, unsubscribeKey(p, a, c)
      PROVE  cmds' \in [Procs -> [Agents -> Seq(Command)]]
  <2>1. [op |-> "unsubscribe", by |-> c] \in Command
    BY DEF Command
  <2>2. QED
    BY <1>5, <2>1 DEF unsubscribeKey, RedisTypeOK
<1>6. QED
  BY <1>1, <1>2, <1>3, <1>4, <1>5

\* Announcing a write keeps the inboxes typed.
LEMMA PublishTyped ==
  ASSUME RedisTypeOK, NEW a \in Agents, NEW type \in {"set", "del"}, Publish(a, type)
  PROVE  inbox' \in [Procs -> [Agents -> Seq(Event)]]
<1>1. [type |-> type] \in Event
  BY DEF Event
<1>2. QED
  BY <1>1 DEF Publish, RedisTypeOK

\* Each step of redis and each failure keeps the state of the adapter typed.
LEMMA RedisStepsTyped ==
  ASSUME RedisTypeOK, NEW p \in Procs
  PROVE  /\ RedisSet(p) => RedisTypeOK'
         /\ RedisDel(p) => RedisTypeOK'
         /\ RedisGet(p) => RedisTypeOK'
         /\ \A a \in Agents : RedisCommand(p, a) => RedisTypeOK'
         /\ ConnectionLost(p) => RedisTypeOK'
         /\ Reconnected(p) => RedisTypeOK'
         /\ ProcessLost(p) => RedisTypeOK'
<1>1. ASSUME RedisSet(p) PROVE RedisTypeOK'
  <2>1. rw' \in [Procs -> Seq(Request)]
    BY <1>1, HeadOfRw DEF RedisSet, HeadIs, Executed, RedisTypeOK
  <2>2. store' \in [Agents -> Value \cup {Nil}]
    BY <1>1, HeadOfRw DEF RedisSet, HeadIs, RedisTypeOK
  <2>3. inbox' \in [Procs -> [Agents -> Seq(Event)]]
    BY <1>1, HeadOfRw, PublishTyped DEF RedisSet, HeadIs
  <2>4. QED
    BY <1>1, <2>1, <2>2, <2>3 DEF RedisSet, RedisTypeOK
<1>2. ASSUME RedisDel(p) PROVE RedisTypeOK'
  <2>1. rw' \in [Procs -> Seq(Request)]
    BY <1>2, HeadOfRw DEF RedisDel, HeadIs, Executed, RedisTypeOK
  <2>2. store' \in [Agents -> Value \cup {Nil}]
    BY <1>2, HeadOfRw DEF RedisDel, HeadIs, RedisTypeOK
  <2>3. inbox' \in [Procs -> [Agents -> Seq(Event)]]
    BY <1>2, HeadOfRw, PublishTyped DEF RedisDel, HeadIs, RedisTypeOK
  <2>4. QED
    BY <1>2, <2>1, <2>2, <2>3 DEF RedisDel, RedisTypeOK
<1>3. ASSUME RedisGet(p) PROVE RedisTypeOK'
  BY <1>3, HeadOfRw DEF RedisGet, HeadIs, Executed, RedisTypeOK
<1>4. ASSUME NEW a \in Agents, RedisCommand(p, a) PROVE RedisTypeOK'
  <2> DEFINE cmd == Head(cmds[p][a])
  <2>1. cmd \in Command /\ Tail(cmds[p][a]) \in Seq(Command)
    BY <1>4 DEF RedisCommand, RedisTypeOK
  <2>2. [type |-> cmd.op, by |-> cmd.by] \in Event
    BY <2>1 DEF Command, Event
  <2>3. inbox' \in [Procs -> [Agents -> Seq(Event)]]
    BY <1>4, <2>2 DEF RedisCommand, RedisTypeOK
  <2>4. cmds' \in [Procs -> [Agents -> Seq(Command)]]
    BY <1>4, <2>1 DEF RedisCommand, RedisTypeOK
  <2>5. subscribed' \in [Procs -> [Agents -> BOOLEAN]]
    BY <1>4 DEF RedisCommand, RedisTypeOK
  <2>6. QED
    BY <1>4, <2>3, <2>4, <2>5 DEF RedisCommand, RedisTypeOK
<1>5. ASSUME ConnectionLost(p) PROVE RedisTypeOK'
  BY <1>5 DEF ConnectionLost, RedisTypeOK
<1>6. ASSUME Reconnected(p) PROVE RedisTypeOK'
  BY <1>6 DEF Reconnected, RedisTypeOK
<1>7. ASSUME ProcessLost(p) PROVE RedisTypeOK'
  BY <1>7 DEF ProcessLost, RedisTypeOK
<1>8. QED
  BY <1>1, <1>2, <1>3, <1>4, <1>5, <1>6, <1>7
-----------------------------------------------------------------------------
(* One channel: the commands q on their way to redis and the events n on   *)
(* their way back, seen by the caller c of a SUBSCRIBE.                    *)

\* Nothing of c is on its way.
NoneOf(q, n, c) ==
  /\ \A i \in DOMAIN q : q[i].by # c
  /\ \A i \in DOMAIN n : IsReply(n[i]) => n[i].by # c

\* The command of c is the last one sent, its reply the last one to come.
OwnIsLast(q, n, c) ==
  /\ \A i \in DOMAIN q : q[i].by = c => i = Len(q)
  /\ \A i \in DOMAIN n : IsReply(n[i]) /\ n[i].by = c =>
       /\ q = <<>>
       /\ \A j \in DOMAIN n : j > i => ~IsReply(n[j])

\* No command and no reply is on its way.
Quiet(q, n) == q = <<>> /\ \A i \in DOMAIN n : ~IsReply(n[i])

HasSet(n) == \E i \in DOMAIN n : n[i].type = "set"

\* A `set' event will arrive after the reply of c.
SetAfterReply(n, c) ==
  \E i, j \in DOMAIN n : j < i /\ IsReply(n[j]) /\ n[j].by = c /\ n[i].type = "set"

\* The empty sequence is the one of length zero.
LEMMA EmptyIsZero == ASSUME NEW S, NEW s \in Seq(S) PROVE s = <<>> <=> Len(s) = 0
  OBVIOUS

ReplyTo(cmd) == [type |-> cmd.op, by |-> cmd.by]

\* Sending a command of d.
LEMMA SendLemma ==
  ASSUME NEW q \in Seq(Command), NEW n \in Seq(Event), NEW c, NEW cmd \in Command
  PROVE  /\ NoneOf(q, n, c) /\ cmd.by # c => NoneOf(Append(q, cmd), n, c)
         /\ NoneOf(q, n, c) => OwnIsLast(Append(q, cmd), n, c)
         /\ NoneOf(q, n, c) => ~SetAfterReply(n, c)
  BY DEF NoneOf, OwnIsLast, SetAfterReply

\* The command sent last decides what redis will forward.
LEMMA IntendedAppend ==
  ASSUME NEW q \in Seq(Command), NEW cmd \in Command, NEW s
  PROVE  Intended(Append(q, cmd), s) <=> cmd.op = "subscribe"
<1>1. /\ Append(q, cmd) # <<>> /\ Len(Append(q, cmd)) = Len(q) + 1
      /\ Append(q, cmd)[Len(q) + 1] = cmd
  OBVIOUS
<1>2. QED
  BY <1>1 DEF Intended

\* Redis executes the oldest command and sends its reply.
LEMMA ExecuteLemma ==
  ASSUME NEW q \in Seq(Command), q # <<>>, NEW n \in Seq(Event), NEW c
  PROVE  LET q1 == Tail(q)
             n1 == Append(n, ReplyTo(Head(q))) IN
         /\ NoneOf(q, n, c) => NoneOf(q1, n1, c)
         /\ OwnIsLast(q, n, c) => OwnIsLast(q1, n1, c)
         /\ HasSet(n) => HasSet(n1)
         /\ SetAfterReply(n1, c) => SetAfterReply(n, c)
         /\ \A s : Intended(q1, Head(q).op = "subscribe") <=> Intended(q, s)
<1> DEFINE q1 == Tail(q)
           n1 == Append(n, ReplyTo(Head(q)))
<1>1. /\ Len(q1) = Len(q) - 1 /\ Len(q) \in Nat \ {0} /\ q1 \in Seq(Command)
      /\ \A i \in DOMAIN q1 : q1[i] = q[i + 1] /\ i + 1 \in DOMAIN q
      /\ Head(q) = q[1] /\ q[1] \in Command /\ 1 \in DOMAIN q
  OBVIOUS
<1>2. /\ ReplyTo(Head(q)).type = Head(q).op /\ ReplyTo(Head(q)).by = Head(q).by
      /\ ReplyTo(Head(q)) \in Event
  BY <1>1 DEF ReplyTo, Event, Command
<1>3. /\ Len(n1) = Len(n) + 1 /\ Len(n) \in Nat
      /\ DOMAIN n = 1..Len(n) /\ DOMAIN n1 = 1..Len(n1)
      /\ \A i \in DOMAIN n : n1[i] = n[i] /\ i \in DOMAIN n1
      /\ n1[Len(n) + 1] = ReplyTo(Head(q))
  BY <1>2
<1>4. NoneOf(q, n, c) => NoneOf(q1, n1, c)
  BY <1>1, <1>2, <1>3 DEF NoneOf
<1>5. OwnIsLast(q, n, c) => OwnIsLast(q1, n1, c)
  BY <1>1, <1>2, <1>3 DEF OwnIsLast
<1>6. HasSet(n) => HasSet(n1)
  BY <1>3 DEF HasSet
<1>7. SetAfterReply(n1, c) => SetAfterReply(n, c)
  BY <1>1, <1>2, <1>3 DEF SetAfterReply, Command
<1>8. \A s : Intended(q1, Head(q).op = "subscribe") <=> Intended(q, s)
  <2> HIDE DEF q1
  <2>1. CASE q1 = <<>>
    <3>1. Len(q) = 1
      BY <1>1, <2>1, EmptyIsZero
    <3>2. QED
      BY <1>1, <2>1, <3>1 DEF Intended
  <2>2. CASE q1 # <<>>
    <3>1. Len(q1) \in DOMAIN q1 /\ q1[Len(q1)] = q[Len(q)]
      BY <1>1, <2>2
    <3>2. QED
      BY <2>2, <3>1 DEF Intended
  <2>3. QED
    BY <2>1, <2>2
<1>9. QED
  BY <1>4, <1>5, <1>6, <1>7, <1>8

\* A process handles the oldest event.
LEMMA DequeueLemma ==
  ASSUME NEW q \in Seq(Command), NEW n \in Seq(Event), n # <<>>, NEW c
  PROVE  /\ NoneOf(q, n, c) => NoneOf(q, Tail(n), c)
         /\ OwnIsLast(q, n, c) => OwnIsLast(q, Tail(n), c)
         /\ Quiet(q, n) => Quiet(q, Tail(n))
         /\ OwnIsLast(q, n, c) /\ IsReply(Head(n)) /\ Head(n).by = c => Quiet(q, Tail(n))
         /\ HasSet(n) /\ Head(n).type # "set" => HasSet(Tail(n))
         /\ HasSet(Tail(n)) => HasSet(n)
         /\ SetAfterReply(Tail(n), c) => SetAfterReply(n, c)
         /\ HasSet(Tail(n)) /\ IsReply(Head(n)) /\ Head(n).by = c => SetAfterReply(n, c)
<1>1. /\ Len(Tail(n)) = Len(n) - 1 /\ Len(n) \in Nat \ {0}
      /\ DOMAIN Tail(n) = 1..Len(Tail(n)) /\ DOMAIN n = 1..Len(n)
      /\ \A i \in DOMAIN Tail(n) : Tail(n)[i] = n[i + 1] /\ i + 1 \in DOMAIN n
      /\ Head(n) = n[1] /\ 1 \in DOMAIN n
      /\ \A i \in DOMAIN n : i # 1 => i - 1 \in DOMAIN Tail(n) /\ n[i] = Tail(n)[i - 1]
  OBVIOUS
<1>2. NoneOf(q, n, c) => NoneOf(q, Tail(n), c)
  BY <1>1 DEF NoneOf
<1>3. OwnIsLast(q, n, c) => OwnIsLast(q, Tail(n), c)
  BY <1>1 DEF OwnIsLast
<1>4. Quiet(q, n) => Quiet(q, Tail(n))
  BY <1>1 DEF Quiet
<1>5. OwnIsLast(q, n, c) /\ IsReply(Head(n)) /\ Head(n).by = c => Quiet(q, Tail(n))
  BY <1>1 DEF OwnIsLast, Quiet
<1>6. HasSet(n) /\ Head(n).type # "set" => HasSet(Tail(n))
  BY <1>1 DEF HasSet
<1>7. HasSet(Tail(n)) => HasSet(n)
  BY <1>1 DEF HasSet
<1>8. SetAfterReply(Tail(n), c) => SetAfterReply(n, c)
  <2>1. ASSUME NEW i \in DOMAIN Tail(n), NEW j \in DOMAIN Tail(n), j < i,
               IsReply(Tail(n)[j]), Tail(n)[j].by = c, Tail(n)[i].type = "set"
        PROVE  SetAfterReply(n, c)
    <3>1. /\ i + 1 \in DOMAIN n /\ j + 1 \in DOMAIN n /\ j + 1 < i + 1
          /\ n[i + 1] = Tail(n)[i] /\ n[j + 1] = Tail(n)[j]
      BY <1>1, <2>1
    <3>2. QED
      BY <2>1, <3>1 DEF SetAfterReply
  <2>2. QED
    BY <2>1 DEF SetAfterReply
<1>9. HasSet(Tail(n)) /\ IsReply(Head(n)) /\ Head(n).by = c => SetAfterReply(n, c)
  BY <1>1 DEF SetAfterReply, HasSet
<1>10. QED
  BY <1>2, <1>3, <1>4, <1>5, <1>6, <1>7, <1>8, <1>9

\* Redis announces a write.
LEMMA PublishLemma ==
  ASSUME NEW q \in Seq(Command), NEW n \in Seq(Event), NEW c, NEW type \in {"set", "del"}
  PROVE  LET n1 == Append(n, [type |-> type]) IN
         /\ NoneOf(q, n, c) => NoneOf(q, n1, c)
         /\ OwnIsLast(q, n, c) => OwnIsLast(q, n1, c)
         /\ Quiet(q, n) => Quiet(q, n1)
         /\ HasSet(n) => HasSet(n1)
         /\ type = "set" => HasSet(n1)
         /\ type = "del" /\ HasSet(n1) => HasSet(n)
         /\ type = "del" /\ SetAfterReply(n1, c) => SetAfterReply(n, c)
         /\ OwnIsLast(q, n, c) /\ SetAfterReply(n1, c) => q = <<>>
<1> DEFINE n1 == Append(n, [type |-> type])
<1>1. /\ [type |-> type].type = type /\ ~IsReply([type |-> type])
      /\ [type |-> type] \in Event
  BY DEF IsReply, Event
<1>2. /\ Len(n1) = Len(n) + 1 /\ Len(n) \in Nat
      /\ DOMAIN n = 1..Len(n) /\ DOMAIN n1 = 1..Len(n1)
      /\ \A i \in DOMAIN n : n1[i] = n[i] /\ i \in DOMAIN n1
      /\ n1[Len(n) + 1] = [type |-> type]
  BY <1>1
<1>3. /\ \A i \in DOMAIN n1 : i \in DOMAIN n \/ (i = Len(n) + 1 /\ n1[i] = [type |-> type])
      /\ Len(n) + 1 \in DOMAIN n1
  BY <1>2
<1> HIDE DEF n1
<1>4. NoneOf(q, n, c) => NoneOf(q, n1, c)
  BY <1>1, <1>2, <1>3 DEF NoneOf
<1>5. OwnIsLast(q, n, c) => OwnIsLast(q, n1, c)
  BY <1>1, <1>2, <1>3 DEF OwnIsLast
<1>6. Quiet(q, n) => Quiet(q, n1)
  BY <1>1, <1>2, <1>3 DEF Quiet
<1>7. HasSet(n) => HasSet(n1)
  BY <1>2 DEF HasSet
<1>8. type = "set" => HasSet(n1)
  BY <1>1, <1>2, <1>3 DEF HasSet
<1>9. type = "del" /\ HasSet(n1) => HasSet(n)
  BY <1>1, <1>2, <1>3 DEF HasSet
<1>10. type = "del" /\ SetAfterReply(n1, c) => SetAfterReply(n, c)
  BY <1>1, <1>2, <1>3 DEF SetAfterReply
<1>11. OwnIsLast(q, n, c) /\ SetAfterReply(n1, c) => q = <<>>
  BY <1>1, <1>2, <1>3 DEF SetAfterReply, OwnIsLast
<1>12. QED
  BY <1>4, <1>5, <1>6, <1>7, <1>8, <1>9, <1>10, <1>11 DEF n1

\* A channel that was cut carries nothing.
LEMMA EmptyLemma ==
  ASSUME NEW c
  PROVE  /\ NoneOf(<<>>, <<>>, c) /\ OwnIsLast(<<>>, <<>>, c) /\ Quiet(<<>>, <<>>)
         /\ ~HasSet(<<>>) /\ ~SetAfterReply(<<>>, c)
         /\ \A s : Intended(<<>>, s) <=> s
  BY DEF NoneOf, OwnIsLast, Quiet, HasSet, SetAfterReply, Intended
-----------------------------------------------------------------------------
(* Counting what is on its way: the refinements of the services map the    *)
(* entries of a queue to a number.                                         *)

Places(s, K) == {i \in DOMAIN s : s[i] \in K}

\* One more entry of a kind counts one more, and one less when it is taken from the queue.
LEMMA CountLemma ==
  ASSUME NEW S, NEW s \in Seq(S), NEW K
  PROVE  /\ Cardinality(Places(s, K)) \in Nat
         /\ Cardinality(Places(<<>>, K)) = 0
         /\ \A e \in S : Cardinality(Places(Append(s, e), K))
              = Cardinality(Places(s, K)) + (IF e \in K THEN 1 ELSE 0)
         /\ s # <<>> => /\ Cardinality(Places(Tail(s), K)) \in Nat
                        /\ Cardinality(Places(s, K))
                             = Cardinality(Places(Tail(s), K)) + (IF Head(s) \in K THEN 1 ELSE 0)
<1>1. ASSUME NEW t \in Seq(S) PROVE IsFiniteSet(Places(t, K)) /\ Cardinality(Places(t, K)) \in Nat
  <2>1. IsFiniteSet(1..Len(t)) /\ Places(t, K) \in SUBSET (1..Len(t))
    BY FS_Interval DEF Places
  <2>2. IsFiniteSet(Places(t, K))
    BY <2>1, FS_Subset
  <2>3. QED
    BY <2>2, FS_CardinalityType
<1>2. Cardinality(Places(<<>>, K)) = 0
  <2>1. Places(<<>>, K) = {}
    BY DEF Places
  <2>2. QED
    BY <2>1, FS_EmptySet
<1>3. ASSUME NEW e \in S
      PROVE  Cardinality(Places(Append(s, e), K))
               = Cardinality(Places(s, K)) + (IF e \in K THEN 1 ELSE 0)
  <2>1. CASE e \in K
    <3>1. Places(Append(s, e), K) = Places(s, K) \cup {Len(s) + 1} /\ Len(s) + 1 \notin Places(s, K)
      BY <2>1 DEF Places
    <3>2. QED
      BY <1>1, <2>1, <3>1, FS_AddElement
  <2>2. CASE e \notin K
    <3>1. Places(Append(s, e), K) = Places(s, K)
      BY <2>2 DEF Places
    <3>2. QED
      BY <1>1, <2>2, <3>1
  <2>3. QED
    BY <2>1, <2>2
<1>4. ASSUME s # <<>>
      PROVE  Cardinality(Places(s, K))
               = Cardinality(Places(Tail(s), K)) + (IF Head(s) \in K THEN 1 ELSE 0)
  <2> DEFINE P == Places(s, K) \ {1}
             T == Places(Tail(s), K)
             f == [i \in T |-> i + 1]
  <2>1. /\ Tail(s) \in Seq(S) /\ Len(s) \in Nat \ {0} /\ Len(Tail(s)) = Len(s) - 1
        /\ Head(s) = s[1] /\ 1 \in DOMAIN s /\ DOMAIN s = 1..Len(s)
        /\ DOMAIN Tail(s) = 1..(Len(s) - 1)
        /\ \A i \in DOMAIN Tail(s) : Tail(s)[i] = s[i + 1]
    BY <1>4
  <2>2. /\ \A i \in T : i \in Nat /\ i + 1 \in P
        /\ \A i \in P : i \in Nat /\ i - 1 \in T
    BY <2>1 DEF Places
  <2>3. f \in Bijection(T, P)
    <3> HIDE DEF P, T
    <3>1. f \in [T -> P] /\ \A i, j \in T : f[i] = f[j] => i = j
      BY <2>2
    <3>2. ASSUME NEW u \in P PROVE \E t \in T : f[t] = u
      <4>1. u - 1 \in T /\ f[u - 1] = u
        BY <2>2
      <4>2. QED
        BY <4>1
    <3>3. QED
      BY <3>1, <3>2 DEF Bijection, Injection, Surjection, IsInjective
  <2>4. Cardinality(P) = Cardinality(T)
    BY <1>1, <2>1, <2>3, FS_Bijection DEF ExistsBijection
  <2>5. Cardinality(P) = IF 1 \in Places(s, K) THEN Cardinality(Places(s, K)) - 1
                         ELSE Cardinality(Places(s, K))
    BY <1>1, FS_RemoveElement
  <2>6. 1 \in Places(s, K) <=> Head(s) \in K
    BY <2>1 DEF Places
  <2>7. QED
    BY <1>1, <2>1, <2>4, <2>5, <2>6
<1>5. s # <<>> => Tail(s) \in Seq(S)
  OBVIOUS
<1>6. QED
  BY <1>1, <1>2, <1>3, <1>4, <1>5

\* What a step does to the flaggings on their way.
LEMMA WayLemma ==
  ASSUME RedisTypeOK
  PROVE  /\ UNCHANGED inbox => UNCHANGED OnTheWay
         /\ \A p \in Procs, a \in Agents, e \in Event :
              e.type # "set" /\ inbox' = [inbox EXCEPT ![p][a] = Append(@, e)] => UNCHANGED OnTheWay
         /\ \A p \in Procs, a \in Agents :
              inbox[p][a] # <<>> /\ Received(p, a).type # "set" /\ Dequeue(p, a) => UNCHANGED OnTheWay
         /\ \A p \in Procs, a \in Agents :
              inbox[p][a] # <<>> /\ Received(p, a).type = "set" /\ Dequeue(p, a) =>
                OnTheWay[p][a] > 0 /\ OnTheWay' = [OnTheWay EXCEPT ![p][a] = @ - 1]
         /\ \A a \in Agents : Publish(a, "del") => UNCHANGED OnTheWay
         /\ \A a \in Agents : Publish(a, "set") =>
              LET reached == {p \in Procs : up[p] /\ subscribed[p][a]} IN
              OnTheWay' = [p \in Procs |-> [b \in Agents |->
                IF b = a /\ p \in reached THEN OnTheWay[p][b] + 1 ELSE OnTheWay[p][b]]]
         /\ \A p \in Procs : inbox' = [inbox EXCEPT ![p] = [a \in Agents |-> <<>>]] =>
              OnTheWay' = [OnTheWay EXCEPT ![p] = [a \in Agents |-> 0]]
<1> DEFINE N(n) == Cardinality(Sets(n))
<1>1. inbox \in [Procs -> [Agents -> Seq(Event)]]
  BY DEF RedisTypeOK
<1>2. /\ OnTheWay = [p \in Procs |-> [a \in Agents |-> N(inbox[p][a])]]
      /\ OnTheWay' = [p \in Procs |-> [a \in Agents |-> N(inbox'[p][a])]]
  BY DEF OnTheWay, Sets
<1>3. ASSUME NEW n \in Seq(Event)
      PROVE  /\ N(n) \in Nat
             /\ \A e \in Event : N(Append(n, e)) = N(n) + (IF e.type = "set" THEN 1 ELSE 0)
             /\ n # <<>> => N(n) = N(Tail(n)) + (IF Head(n).type = "set" THEN 1 ELSE 0)
             /\ n # <<>> => N(Tail(n)) \in Nat
  <2> DEFINE K == {e \in Event : e.type = "set"}
  <2>1. \A m \in Seq(Event) : Sets(m) = Places(m, K)
    BY DEF Sets, Places
  <2>2. n # <<>> => Tail(n) \in Seq(Event) /\ Head(n) \in Event
    OBVIOUS
  <2>3. \A e \in Event : Append(n, e) \in Seq(Event) /\ (e \in K <=> e.type = "set")
    OBVIOUS
  <2>4. /\ Cardinality(Places(n, K)) \in Nat
        /\ \A e \in Event : Cardinality(Places(Append(n, e), K))
             = Cardinality(Places(n, K)) + (IF e \in K THEN 1 ELSE 0)
        /\ n # <<>> => /\ Cardinality(Places(Tail(n), K)) \in Nat
                       /\ Cardinality(Places(n, K))
                            = Cardinality(Places(Tail(n), K)) + (IF Head(n) \in K THEN 1 ELSE 0)
    BY CountLemma
  <2> HIDE DEF K
  <2>5. QED
    BY <2>1, <2>2, <2>3, <2>4
<1>4. N(<<>>) = 0
  <2>1. Sets(<<>>) = {}
    BY DEF Sets
  <2>2. QED
    BY <2>1, FS_EmptySet
<1>5. \A t \in {"set", "del"} : [type |-> t] \in Event /\ [type |-> t].type = t
  BY DEF Event
<1> HIDE DEF N
<1>6. UNCHANGED inbox => UNCHANGED OnTheWay
  BY <1>2
<1>7. ASSUME NEW p \in Procs, NEW a \in Agents, NEW e \in Event, e.type # "set",
             inbox' = [inbox EXCEPT ![p][a] = Append(@, e)]
      PROVE  UNCHANGED OnTheWay
  <2>1. \A q \in Procs, b \in Agents : N(inbox'[q][b]) = N(inbox[q][b])
    BY <1>1, <1>3, <1>7
  <2>2. QED
    BY <1>2, <2>1
<1>8. ASSUME NEW p \in Procs, NEW a \in Agents, inbox[p][a] # <<>>, Received(p, a).type # "set",
             Dequeue(p, a)
      PROVE  UNCHANGED OnTheWay
  <2>1. \A q \in Procs, b \in Agents : N(inbox'[q][b]) = N(inbox[q][b])
    BY <1>1, <1>3, <1>8 DEF Dequeue, Received
  <2>2. QED
    BY <1>2, <2>1
<1>9. ASSUME NEW p \in Procs, NEW a \in Agents, inbox[p][a] # <<>>, Received(p, a).type = "set",
             Dequeue(p, a)
      PROVE  OnTheWay[p][a] > 0 /\ OnTheWay' = [OnTheWay EXCEPT ![p][a] = @ - 1]
  <2>1. /\ inbox[p][a] \in Seq(Event) /\ inbox'[p][a] = Tail(inbox[p][a])
        /\ \A q \in Procs, b \in Agents : q # p \/ b # a => inbox'[q][b] = inbox[q][b]
    BY <1>1, <1>9 DEF Dequeue
  <2>2. N(inbox[p][a]) = N(Tail(inbox[p][a])) + 1 /\ N(Tail(inbox[p][a])) \in Nat
    BY <1>3, <1>9, <2>1 DEF Received
  <2>3. N(inbox'[p][a]) = N(inbox[p][a]) - 1 /\ N(inbox[p][a]) > 0
    BY <2>1, <2>2
  <2>4. /\ OnTheWay[p][a] > 0 /\ OnTheWay'[p][a] = OnTheWay[p][a] - 1
        /\ \A q \in Procs, b \in Agents : q # p \/ b # a => OnTheWay'[q][b] = OnTheWay[q][b]
    BY <1>2, <2>1, <2>3
  <2>5. /\ OnTheWay = [q \in Procs |-> [b \in Agents |-> OnTheWay[q][b]]]
        /\ OnTheWay' = [q \in Procs |-> [b \in Agents |-> OnTheWay'[q][b]]]
    BY <1>2
  <2>6. QED
    BY <2>4, <2>5
<1>10. ASSUME NEW a \in Agents, Publish(a, "del") PROVE UNCHANGED OnTheWay
  <2> DEFINE e == [type |-> "del"]
  <2>1. \A q \in Procs, b \in Agents :
          inbox'[q][b] = inbox[q][b] \/ inbox'[q][b] = Append(inbox[q][b], e)
    BY <1>10 DEF Publish
  <2>2. e \in Event /\ e.type # "set"
    BY <1>5
  <2> HIDE DEF e
  <2>3. ASSUME NEW n \in Seq(Event) PROVE N(Append(n, e)) = N(n)
    BY <1>3, <2>2
  <2>4. \A q \in Procs, b \in Agents : N(inbox'[q][b]) = N(inbox[q][b])
    BY <1>1, <2>1, <2>3
  <2>5. QED
    BY <1>2, <2>4
<1>11. ASSUME NEW a \in Agents, Publish(a, "set")
       PROVE  OnTheWay' = [p \in Procs |-> [b \in Agents |->
                IF b = a /\ p \in {q \in Procs : up[q] /\ subscribed[q][a]}
                THEN OnTheWay[p][b] + 1 ELSE OnTheWay[p][b]]]
  <2>1. \A q \in Procs, b \in Agents :
          N(inbox'[q][b]) = IF b = a /\ up[q] /\ subscribed[q][a]
                            THEN N(inbox[q][b]) + 1 ELSE N(inbox[q][b])
    BY <1>1, <1>3, <1>5, <1>11 DEF Publish
  <2>2. QED
    BY <1>2, <2>1
<1>12. ASSUME NEW p \in Procs, inbox' = [inbox EXCEPT ![p] = [a \in Agents |-> <<>>]]
       PROVE  OnTheWay' = [OnTheWay EXCEPT ![p] = [a \in Agents |-> 0]]
  <2>1. \A q \in Procs, b \in Agents :
          N(inbox'[q][b]) = IF q = p THEN 0 ELSE N(inbox[q][b])
    BY <1>1, <1>4, <1>12
  <2>2. QED
    BY <1>2, <2>1
<1>13. QED
  BY <1>6, <1>7, <1>8, <1>9, <1>10, <1>11, <1>12

\* A GET sent for c.
IsGetOf(r, c) == r.op = "get" /\ r.by = c

\* What a step of the queue of a process does to the GETs of a caller on it.
LEMMA GetsLemma ==
  ASSUME NEW q \in Seq(Request), NEW c
  PROVE  /\ Cardinality(Gets(q, c)) \in Nat
         /\ Cardinality(Gets(<<>>, c)) = 0
         /\ \A r \in Request : Cardinality(Gets(Append(q, r), c))
              = Cardinality(Gets(q, c)) + (IF IsGetOf(r, c) THEN 1 ELSE 0)
         /\ q # <<>> => /\ Cardinality(Gets(Tail(q), c)) \in Nat
                        /\ Cardinality(Gets(q, c))
                             = Cardinality(Gets(Tail(q), c)) + (IF IsGetOf(Head(q), c) THEN 1 ELSE 0)
<1> DEFINE K == {r \in Request : IsGetOf(r, c)}
<1>1. ASSUME NEW s \in Seq(Request) PROVE Gets(s, c) = Places(s, K)
  BY <1>1 DEF Gets, Places, IsGetOf
<1>2. q # <<>> => Tail(q) \in Seq(Request) /\ Head(q) \in Request
  OBVIOUS
<1>3. \A r \in Request : Append(q, r) \in Seq(Request) /\ (r \in K <=> IsGetOf(r, c))
  OBVIOUS
<1>4. <<>> \in Seq(Request)
  OBVIOUS
<1>5. /\ Cardinality(Places(q, K)) \in Nat
      /\ Cardinality(Places(<<>>, K)) = 0
      /\ \A r \in Request : Cardinality(Places(Append(q, r), K))
           = Cardinality(Places(q, K)) + (IF r \in K THEN 1 ELSE 0)
      /\ q # <<>> => /\ Cardinality(Places(Tail(q), K)) \in Nat
                     /\ Cardinality(Places(q, K))
                          = Cardinality(Places(Tail(q), K)) + (IF Head(q) \in K THEN 1 ELSE 0)
  BY CountLemma
<1> HIDE DEF K
<1>6. QED
  BY <1>1, <1>2, <1>3, <1>4, <1>5

-----------------------------------------------------------------------------
(* What is asked for stays on its way until it is there.                   *)

\* A request stays in a queue that grows, the new one is in it, and only that at the
\* head leaves it.
LEMMA AskedLemma ==
  ASSUME NEW S, NEW s \in Seq(S), NEW c, NEW op
  PROVE  /\ \A e \in S : Asked(s, c, op) => Asked(Append(s, e), c, op)
         /\ \A e \in S : e.op = op /\ e.by = c => Asked(Append(s, e), c, op)
         /\ s # <<>> /\ Asked(s, c, op) /\ ~(Head(s).op = op /\ Head(s).by = c) =>
              Asked(Tail(s), c, op)
<1>1. ASSUME NEW e \in S, Asked(s, c, op) PROVE Asked(Append(s, e), c, op)
  <2>1. PICK i \in DOMAIN s : s[i].op = op /\ s[i].by = c
    BY <1>1 DEF Asked
  <2>2. i \in DOMAIN Append(s, e) /\ Append(s, e)[i] = s[i]
    BY <2>1
  <2>3. QED
    BY <2>1, <2>2 DEF Asked
<1>2. ASSUME NEW e \in S, e.op = op, e.by = c PROVE Asked(Append(s, e), c, op)
  <2>1. Len(s) + 1 \in DOMAIN Append(s, e) /\ Append(s, e)[Len(s) + 1] = e
    OBVIOUS
  <2>2. QED
    BY <1>2, <2>1 DEF Asked
<1>3. ASSUME s # <<>>, Asked(s, c, op), ~(Head(s).op = op /\ Head(s).by = c)
      PROVE  Asked(Tail(s), c, op)
  <2>1. PICK i \in DOMAIN s : s[i].op = op /\ s[i].by = c
    BY <1>3 DEF Asked
  <2>2. i # 1 /\ i \in 1 .. Len(s)
    BY <1>3, <2>1
  <2>3. i - 1 \in DOMAIN Tail(s) /\ Tail(s)[i - 1] = s[i]
    BY <1>3, <2>2
  <2>4. QED
    BY <2>1, <2>3 DEF Asked
<1>4. QED
  BY <1>1, <1>2, <1>3

\* The same of the replies in an inbox.
LEMMA RepliedLemma ==
  ASSUME NEW S, NEW s \in Seq(S), NEW c, NEW type
  PROVE  /\ \A e \in S : Replied(s, c, type) => Replied(Append(s, e), c, type)
         /\ \A e \in S : e.type = type /\ e.by = c => Replied(Append(s, e), c, type)
         /\ s # <<>> /\ Replied(s, c, type) /\ ~(Head(s).type = type /\ Head(s).by = c) =>
              Replied(Tail(s), c, type)
<1>1. ASSUME NEW e \in S, Replied(s, c, type) PROVE Replied(Append(s, e), c, type)
  <2>1. PICK i \in DOMAIN s : s[i].type = type /\ s[i].by = c
    BY <1>1 DEF Replied
  <2>2. i \in DOMAIN Append(s, e) /\ Append(s, e)[i] = s[i]
    BY <2>1
  <2>3. QED
    BY <2>1, <2>2 DEF Replied
<1>2. ASSUME NEW e \in S, e.type = type, e.by = c PROVE Replied(Append(s, e), c, type)
  <2>1. Len(s) + 1 \in DOMAIN Append(s, e) /\ Append(s, e)[Len(s) + 1] = e
    OBVIOUS
  <2>2. QED
    BY <1>2, <2>1 DEF Replied
<1>3. ASSUME s # <<>>, Replied(s, c, type), ~(Head(s).type = type /\ Head(s).by = c)
      PROVE  Replied(Tail(s), c, type)
  <2>1. PICK i \in DOMAIN s : s[i].type = type /\ s[i].by = c
    BY <1>3 DEF Replied
  <2>2. i # 1 /\ i \in 1 .. Len(s)
    BY <1>3, <2>1
  <2>3. i - 1 \in DOMAIN Tail(s) /\ Tail(s)[i - 1] = s[i]
    BY <1>3, <2>2
  <2>4. QED
    BY <2>1, <2>3 DEF Replied
<1>4. QED
  BY <1>1, <1>2, <1>3

\* A process asks redis for something: what was asked for before still is.
LEMMA AskLemma ==
  ASSUME RedisTypeOK, NEW p \in Procs, NEW a \in Agents
  PROVE  /\ \A c \in Callers : getValue(p, a, c) =>
              /\ Asked(rw'[p], c, "get")
              /\ \A q \in Procs, d \in Callers, op \in {"get", "del"} :
                   Asked(rw[q], d, op) => Asked(rw'[q], d, op)
         /\ \A c \in Callers : deleteValue(p, a, c) =>
              /\ Asked(rw'[p], c, "del")
              /\ \A q \in Procs, d \in Callers, op \in {"get", "del"} :
                   Asked(rw[q], d, op) => Asked(rw'[q], d, op)
         /\ \A v \in Value : setValue(p, a, v) =>
              \A q \in Procs, d \in Callers, op \in {"get", "del"} :
                Asked(rw[q], d, op) => Asked(rw'[q], d, op)
<1>1. rw[p] \in Seq(Request) /\ rw \in [Procs -> Seq(Request)]
  BY DEF RedisTypeOK
<1>2. ASSUME NEW r \in Request, rw' = [rw EXCEPT ![p] = Append(@, r)]
      PROVE  /\ \A q \in Procs, d \in Callers, op \in {"get", "del"} :
                  Asked(rw[q], d, op) => Asked(rw'[q], d, op)
             /\ \A d \in Callers, op \in {"get", "del"} :
                  r.op = op /\ r.by = d => Asked(rw'[p], d, op)
  <2> DEFINE longer == Append(rw[p], r)
  <2>1. rw'[p] = longer /\ \A q \in Procs : q # p => rw'[q] = rw[q]
    BY <1>1, <1>2
  <2>2. \A d \in Callers, op \in {"get", "del"} :
          /\ Asked(rw[p], d, op) => Asked(longer, d, op)
          /\ r.op = op /\ r.by = d => Asked(longer, d, op)
    BY <1>1, AskedLemma
  <2> HIDE DEF longer
  <2>3. QED
    BY <2>1, <2>2
<1>3. ASSUME NEW c \in Callers, getValue(p, a, c)
      PROVE  /\ Asked(rw'[p], c, "get")
             /\ \A q \in Procs, d \in Callers, op \in {"get", "del"} :
                  Asked(rw[q], d, op) => Asked(rw'[q], d, op)
  <2> DEFINE r == [op |-> "get", key |-> a, by |-> c]
  <2>1. r \in Request /\ r.op = "get" /\ r.by = c
    BY DEF Request
  <2>2. rw' = [rw EXCEPT ![p] = Append(@, r)]
    BY <1>3 DEF getValue
  <2> HIDE DEF r
  <2>3. QED
    BY <2>1, <2>2, <1>2
<1>4. ASSUME NEW c \in Callers, deleteValue(p, a, c)
      PROVE  /\ Asked(rw'[p], c, "del")
             /\ \A q \in Procs, d \in Callers, op \in {"get", "del"} :
                  Asked(rw[q], d, op) => Asked(rw'[q], d, op)
  <2> DEFINE r == [op |-> "del", key |-> a, by |-> c]
  <2>1. r \in Request /\ r.op = "del" /\ r.by = c
    BY DEF Request
  <2>2. rw' = [rw EXCEPT ![p] = Append(@, r)]
    BY <1>4 DEF deleteValue
  <2> HIDE DEF r
  <2>3. QED
    BY <2>1, <2>2, <1>2
<1>5. ASSUME NEW v \in Value, setValue(p, a, v)
      PROVE  \A q \in Procs, d \in Callers, op \in {"get", "del"} :
               Asked(rw[q], d, op) => Asked(rw'[q], d, op)
  <2> DEFINE r == [op |-> "set", key |-> a, value |-> v]
  <2>1. r \in Request
    BY DEF Request
  <2>2. rw' = [rw EXCEPT ![p] = Append(@, r)]
    BY <1>5 DEF setValue
  <2> HIDE DEF r
  <2>3. QED
    BY <2>1, <2>2, <1>2
<1>6. QED
  BY <1>3, <1>4, <1>5

\* Redis takes a request: the others are still to be answered.
LEMMA AnswerLemma ==
  ASSUME RedisTypeOK, NEW p \in Procs, rw[p] # <<>>, Executed(p)
  PROVE  \A q \in Procs, c \in Callers, op \in {"get", "del"} :
           /\ Asked(rw[q], c, op)
           /\ ~(Head(rw[p]).op = op /\ Head(rw[p]).by = c)
           => Asked(rw'[q], c, op)
<1>1. /\ rw[p] \in Seq(Request)
      /\ rw'[p] = Tail(rw[p]) /\ \A q \in Procs : q # p => rw'[q] = rw[q]
  BY DEF RedisTypeOK, Executed
<1>2. \A c, op : Asked(rw[p], c, op) /\ ~(Head(rw[p]).op = op /\ Head(rw[p]).by = c) =>
        Asked(Tail(rw[p]), c, op)
  BY <1>1, AskedLemma
<1>3. QED
  BY <1>1, <1>2

\* A command is sent: those sent before are still to be executed.
LEMMA CommandLemma ==
  ASSUME RedisTypeOK, NEW p \in Procs, NEW a \in Agents, NEW k \in Callers \cup {NoCaller}
  PROVE  /\ subscribeKey(p, a, k) => Asked(cmds'[p][a], k, "subscribe")
         /\ unsubscribeKey(p, a, k) => Asked(cmds'[p][a], k, "unsubscribe")
         /\ subscribeKey(p, a, k) \/ unsubscribeKey(p, a, k) =>
              \A q \in Procs, b \in Agents, c \in Callers, op \in {"subscribe", "unsubscribe"} :
                Asked(cmds[q][b], c, op) => Asked(cmds'[q][b], c, op)
<1>1. ASSUME NEW cmd \in Command, cmds' = [cmds EXCEPT ![p][a] = Append(@, cmd)]
      PROVE  /\ Asked(cmds'[p][a], cmd.by, cmd.op)
             /\ \A q \in Procs, b \in Agents, c \in Callers, op \in {"subscribe", "unsubscribe"} :
                  Asked(cmds[q][b], c, op) => Asked(cmds'[q][b], c, op)
  <2> DEFINE longer == Append(cmds[p][a], cmd)
  <2>1. /\ cmds[p][a] \in Seq(Command)
        /\ cmds'[p][a] = longer
        /\ \A q \in Procs, b \in Agents : q # p \/ b # a => cmds'[q][b] = cmds[q][b]
    BY <1>1 DEF RedisTypeOK
  <2>2. \A c \in Callers, op \in {"subscribe", "unsubscribe"} :
          Asked(cmds[p][a], c, op) => Asked(longer, c, op)
    BY <2>1, AskedLemma
  <2>3. Asked(longer, cmd.by, cmd.op)
    BY <2>1, AskedLemma
  <2> HIDE DEF longer
  <2>4. QED
    BY <2>1, <2>2, <2>3
<1>2. ASSUME NEW op \in {"subscribe", "unsubscribe"}
      PROVE  [op |-> op, by |-> k] \in Command
  BY DEF Command
<1>3. ASSUME subscribeKey(p, a, k)
      PROVE  /\ Asked(cmds'[p][a], k, "subscribe")
             /\ \A q \in Procs, b \in Agents, c \in Callers, op \in {"subscribe", "unsubscribe"} :
                  Asked(cmds[q][b], c, op) => Asked(cmds'[q][b], c, op)
  <2> DEFINE cmd == [op |-> "subscribe", by |-> k]
  <2>1. cmd \in Command /\ cmd.by = k /\ cmd.op = "subscribe"
    BY <1>2
  <2>2. cmds' = [cmds EXCEPT ![p][a] = Append(@, cmd)]
    BY <1>3 DEF subscribeKey
  <2> HIDE DEF cmd
  <2>3. QED
    BY <2>1, <2>2, <1>1
<1>4. ASSUME unsubscribeKey(p, a, k)
      PROVE  /\ Asked(cmds'[p][a], k, "unsubscribe")
             /\ \A q \in Procs, b \in Agents, c \in Callers, op \in {"subscribe", "unsubscribe"} :
                  Asked(cmds[q][b], c, op) => Asked(cmds'[q][b], c, op)
  <2> DEFINE cmd == [op |-> "unsubscribe", by |-> k]
  <2>1. cmd \in Command /\ cmd.by = k /\ cmd.op = "unsubscribe"
    BY <1>2
  <2>2. cmds' = [cmds EXCEPT ![p][a] = Append(@, cmd)]
    BY <1>4 DEF unsubscribeKey
  <2> HIDE DEF cmd
  <2>3. QED
    BY <2>1, <2>2, <1>1
<1>5. QED
  BY <1>3, <1>4

\* An executed command is replied to, an announced write and a handled event leave the
\* other replies where they are.
LEMMA ReplyLemma ==
  ASSUME RedisTypeOK, NEW p \in Procs, NEW a \in Agents
  PROVE  /\ RedisCommand(p, a) =>
              \A q \in Procs, b \in Agents, c \in Callers, op \in {"subscribe", "unsubscribe"} :
                Commanded(q, b, c, op) => Commanded(q, b, c, op)'
         /\ \A type \in {"set", "del"} : Publish(a, type) =>
              \A q \in Procs, b \in Agents, c \in Callers, op \in {"subscribe", "unsubscribe"} :
                Replied(inbox[q][b], c, op) => Replied(inbox'[q][b], c, op)
         /\ inbox[p][a] # <<>> /\ Dequeue(p, a) =>
              \A q \in Procs, b \in Agents, c \in Callers, op \in {"subscribe", "unsubscribe"} :
                /\ Replied(inbox[q][b], c, op)
                /\ ~(Head(inbox[p][a]).type = op /\ Head(inbox[p][a]).by = c)
                => Replied(inbox'[q][b], c, op)
<1>1. \A q \in Procs, b \in Agents : inbox[q][b] \in Seq(Event) /\ cmds[q][b] \in Seq(Command)
  BY DEF RedisTypeOK
<1>2. ASSUME RedisCommand(p, a),
             NEW q \in Procs, NEW b \in Agents, NEW c \in Callers,
             NEW op \in {"subscribe", "unsubscribe"}, Commanded(q, b, c, op)
      PROVE  Commanded(q, b, c, op)'
  <2> DEFINE cmd == Head(cmds[p][a])
             e == [type |-> cmd.op, by |-> cmd.by]
  <2>1. cmds[p][a] # <<>> /\ cmd \in Command
    BY <1>1, <1>2 DEF RedisCommand
  <2>2. e \in Event /\ e.type = cmd.op /\ e.by = cmd.by
    BY <2>1 DEF Event, Command
  <2>3. /\ cmds'[p][a] = Tail(cmds[p][a]) /\ inbox'[p][a] = Append(inbox[p][a], e)
        /\ q # p \/ b # a => cmds'[q][b] = cmds[q][b] /\ inbox'[q][b] = inbox[q][b]
    BY <1>2 DEF RedisCommand, RedisTypeOK
  <2> HIDE DEF cmd, e
  <2>4. CASE q # p \/ b # a
    BY <1>2, <2>3, <2>4 DEF Commanded
  <2>5. CASE q = p /\ b = a
    <3>1. CASE Replied(inbox[p][a], c, op)
      <4>1. Replied(Append(inbox[p][a], e), c, op)
        BY <1>1, <2>2, <3>1, RepliedLemma
      <4>2. QED
        BY <2>3, <2>5, <4>1 DEF Commanded
    <3>2. CASE cmd.op = op /\ cmd.by = c
      <4>1. Replied(Append(inbox[p][a], e), c, op)
        BY <1>1, <2>2, <3>2, RepliedLemma
      <4>2. QED
        BY <2>3, <2>5, <4>1 DEF Commanded
    <3>3. CASE Asked(cmds[p][a], c, op) /\ ~(cmd.op = op /\ cmd.by = c)
      <4>1. Asked(Tail(cmds[p][a]), c, op)
        BY <1>1, <2>1, <3>3, AskedLemma DEF cmd
      <4>2. QED
        BY <2>3, <2>5, <4>1 DEF Commanded
    <3>4. QED
      BY <1>2, <2>5, <3>1, <3>2, <3>3 DEF Commanded
  <2>6. QED
    BY <2>4, <2>5
<1>3. ASSUME NEW type \in {"set", "del"}, Publish(a, type),
             NEW q \in Procs, NEW b \in Agents, NEW c \in Callers,
             NEW op \in {"subscribe", "unsubscribe"}, Replied(inbox[q][b], c, op)
      PROVE  Replied(inbox'[q][b], c, op)
  <2> DEFINE e == [type |-> type]
  <2>1. e \in Event
    BY DEF Event
  <2>2. inbox'[q][b] = Append(inbox[q][b], e) \/ inbox'[q][b] = inbox[q][b]
    BY <1>3 DEF Publish
  <2> HIDE DEF e
  <2>3. Replied(Append(inbox[q][b], e), c, op)
    BY <1>1, <1>3, <2>1, RepliedLemma
  <2>4. QED
    BY <1>3, <2>2, <2>3
<1>4. ASSUME inbox[p][a] # <<>>, Dequeue(p, a),
             NEW q \in Procs, NEW b \in Agents, NEW c \in Callers,
             NEW op \in {"subscribe", "unsubscribe"}, Replied(inbox[q][b], c, op),
             ~(Head(inbox[p][a]).type = op /\ Head(inbox[p][a]).by = c)
      PROVE  Replied(inbox'[q][b], c, op)
  <2>1. /\ inbox'[p][a] = Tail(inbox[p][a])
        /\ q # p \/ b # a => inbox'[q][b] = inbox[q][b]
    BY <1>4 DEF Dequeue, RedisTypeOK
  <2>2. q = p /\ b = a => Replied(Tail(inbox[p][a]), c, op)
    BY <1>1, <1>4, RepliedLemma
  <2>3. QED
    BY <1>4, <2>1, <2>2
<1>5. QED
  BY <1>2, <1>3, <1>4

\* What a step does to the requests and the commands of caller c.
RwKept(q, c) == \A op \in {"get", "del"} : Asked(rw[q], c, op) => Asked(rw'[q], c, op)
CmdKept(q, b, c) ==
  \A op \in {"subscribe", "unsubscribe"} : Commanded(q, b, c, op) => Commanded(q, b, c, op)'

\* Sending a command keeps those that are waited for.
LEMMA CommandKept ==
  ASSUME RedisTypeOK, NEW p \in Procs, NEW a \in Agents, NEW k \in Callers \cup {NoCaller},
         subscribeKey(p, a, k) \/ unsubscribeKey(p, a, k)
  PROVE  /\ \A q \in Procs, b \in Agents, c \in Callers, op \in {"subscribe", "unsubscribe"} :
              Asked(cmds[q][b], c, op) => Asked(cmds'[q][b], c, op)
         /\ UNCHANGED inbox =>
              \A q \in Procs, b \in Agents, c \in Callers : CmdKept(q, b, c)
<1>1. \A q \in Procs, b \in Agents, c \in Callers, op \in {"subscribe", "unsubscribe"} :
        Asked(cmds[q][b], c, op) => Asked(cmds'[q][b], c, op)
  BY CommandLemma
<1>2. QED
  BY <1>1 DEF CmdKept, Commanded

=============================================================================
