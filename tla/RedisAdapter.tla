---------------------------- MODULE RedisAdapter ----------------------------
(***************************************************************************)
(* The redis adapter of one notification service (event-adapter-redis.js)  *)
(* together with the redis server it talks to, for every agency process.   *)
(* An adapter owns two connections: `rw' carries GET, SET and DEL, the     *)
(* subscriber connection carries SUBSCRIBE, UNSUBSCRIBE, their replies and *)
(* the keyspace events.  Each connection is FIFO; nothing orders one       *)
(* against the other.                                                      *)
(*                                                                         *)
(* This module has no Next of its own: its operators are the pieces the    *)
(* services are built from (NewMessages, NewMessagesV2).                   *)
(***************************************************************************)
EXTENDS Naturals, Sequences, FiniteSets

CONSTANTS
  Procs,     \* agency processes sharing one redis ("horizontally scalable")
  Agents,    \* agent DIDs, which are the keys
  Callers,   \* polls and acks: whoever waits for a reply of redis
  NoCaller,  \* a command nobody waits for
  Value,     \* what a key may hold
  Nil        \* what GET answers for a missing key

ASSUME CallerAssumption == NoCaller \notin Callers
ASSUME ValueAssumption  == Nil \notin Value

VARIABLES
  store,       \* [Agents -> Value or Nil]: the keys of the redis database
  rw,          \* [Procs -> Seq(Request)]: sent on rw, not executed yet
  cmds,        \* [Procs -> [Agents -> Seq(Command)]]: sent on the subscriber
               \* connection, not executed yet
  inbox,       \* [Procs -> [Agents -> Seq(Event)]]: sent back by redis on the
               \* subscriber connection, not handled yet
  subscribed,  \* [Procs -> [Agents -> BOOLEAN]]: the channels redis forwards;
               \* while the connection is down, those it will forward again
  up           \* [Procs -> BOOLEAN]: is the subscriber connection up

redisVars == <<store, rw, cmds, inbox, subscribed, up>>

Request == [op : {"get", "del"}, key : Agents, by : Callers]
             \cup [op : {"set"}, key : Agents, value : Value]
Command == [op : {"subscribe", "unsubscribe"}, by : Callers \cup {NoCaller}]
Event   == [type : {"subscribe", "unsubscribe"}, by : Callers \cup {NoCaller}]
             \cup [type : {"set", "del"}]

\* The channels of different keys are kept apart: nothing in the adapter or in
\* the services relates the events of one key to those of another.
RedisTypeOK ==
  /\ store \in [Agents -> Value \cup {Nil}]
  /\ rw \in [Procs -> Seq(Request)]
  /\ cmds \in [Procs -> [Agents -> Seq(Command)]]
  /\ inbox \in [Procs -> [Agents -> Seq(Event)]]
  /\ subscribed \in [Procs -> [Agents -> BOOLEAN]]
  /\ up \in [Procs -> BOOLEAN]

RedisInit ==
  /\ store = [a \in Agents |-> Nil]
  /\ rw = [p \in Procs |-> <<>>]
  /\ cmds = [p \in Procs |-> [a \in Agents |-> <<>>]]
  /\ inbox = [p \in Procs |-> [a \in Agents |-> <<>>]]
  /\ subscribed = [p \in Procs |-> [a \in Agents |-> FALSE]]
  /\ up = [p \in Procs |-> TRUE]

-----------------------------------------------------------------------------
(* What a process sends.                                                   *)

getValue(p, a, c) == rw' = [rw EXCEPT ![p] = Append(@, [op |-> "get", key |-> a, by |-> c])]
deleteValue(p, a, c) == rw' = [rw EXCEPT ![p] = Append(@, [op |-> "del", key |-> a, by |-> c])]
setValue(p, a, v) == rw' = [rw EXCEPT ![p] = Append(@, [op |-> "set", key |-> a, value |-> v])]

subscribeKey(p, a, c) ==
  cmds' = [cmds EXCEPT ![p][a] = Append(@, [op |-> "subscribe", by |-> c])]

unsubscribeKey(p, a, c) ==
  cmds' = [cmds EXCEPT ![p][a] = Append(@, [op |-> "unsubscribe", by |-> c])]

-----------------------------------------------------------------------------
(* What redis does.                                                        *)

HeadIs(p, op) == rw[p] # <<>> /\ Head(rw[p]).op = op
Executed(p) == rw' = [rw EXCEPT ![p] = Tail(@)]

\* A write to a key is announced on its keyspace channel to every connection
\* that is up and subscribed at that moment, and to nobody later.
Publish(a, type) ==
  inbox' = [p \in Procs |->
              [b \in Agents |->
                 IF b = a /\ up[p] /\ subscribed[p][a]
                 THEN Append(inbox[p][b], [type |-> type])
                 ELSE inbox[p][b]]]

RedisSet(p) ==
  /\ HeadIs(p, "set")
  /\ Executed(p)
  /\ store' = [store EXCEPT ![Head(rw[p]).key] = Head(rw[p]).value]
  /\ Publish(Head(rw[p]).key, "set")
  /\ UNCHANGED <<cmds, subscribed, up>>

\* DEL of a missing key announces nothing.
RedisDel(p) ==
  /\ HeadIs(p, "del")
  /\ Executed(p)
  /\ store' = [store EXCEPT ![Head(rw[p]).key] = Nil]
  /\ \/ /\ store[Head(rw[p]).key] # Nil
        /\ Publish(Head(rw[p]).key, "del")
     \/ /\ store[Head(rw[p]).key] = Nil
        /\ UNCHANGED inbox
  /\ UNCHANGED <<cmds, subscribed, up>>

RedisGet(p) ==
  /\ HeadIs(p, "get")
  /\ Executed(p)
  /\ UNCHANGED <<store, cmds, inbox, subscribed, up>>

RedisCommand(p, a) ==
  /\ up[p]
  /\ cmds[p][a] # <<>>
  /\ LET cmd == Head(cmds[p][a]) IN
       /\ subscribed' = [subscribed EXCEPT ![p][a] = (cmd.op = "subscribe")]
       /\ inbox' = [inbox EXCEPT ![p][a] = Append(@, [type |-> cmd.op, by |-> cmd.by])]
  /\ cmds' = [cmds EXCEPT ![p][a] = Tail(@)]
  /\ UNCHANGED <<store, rw, up>>

-----------------------------------------------------------------------------
(* What a process receives on the subscriber connection.                   *)

Received(p, a) == Head(inbox[p][a])
Dequeue(p, a) == inbox' = [inbox EXCEPT ![p][a] = Tail(@)]

\* Faulty: every event of a key counts, its deletion too.
isAnyKeyspaceNotification(event) == event.type \in {"set", "del"}

\* Only a `set' event reaches the callback of the service.
isOurKeyspaceSetNotification(event) == event.type = "set"

-----------------------------------------------------------------------------
(* Failures of the subscriber connection.  The client library reconnects   *)
(* by itself and subscribes again to the channels it knows of; a command   *)
(* without an answer fails, and whether redis had executed it is unknown.  *)

IsReply(event) == event.type \in {"subscribe", "unsubscribe"}

\* What redis will forward once it has executed every command sent to it.
Intended(commands, current) ==
  IF commands = <<>> THEN current ELSE commands[Len(commands)].op = "subscribe"

Unanswered(p, a) ==
  {cmds[p][a][i].by : i \in DOMAIN cmds[p][a]}
    \cup {inbox[p][a][i].by : i \in {j \in DOMAIN inbox[p][a] : IsReply(inbox[p][a][j])}}

InDoubt(p, a) == Unanswered(p, a) # {}

ConnectionLost(p) ==
  /\ up[p]
  /\ up' = [up EXCEPT ![p] = FALSE]
  /\ cmds' = [cmds EXCEPT ![p] = [a \in Agents |-> <<>>]]
  /\ inbox' = [inbox EXCEPT ![p] = [a \in Agents |-> <<>>]]
  /\ \E s \in [Agents -> BOOLEAN] :
       /\ \A a \in Agents : ~InDoubt(p, a) => s[a] = subscribed[p][a]
       /\ subscribed' = [subscribed EXCEPT ![p] = s]
  /\ UNCHANGED <<store, rw>>

Reconnected(p) ==
  /\ ~up[p]
  /\ up' = [up EXCEPT ![p] = TRUE]
  /\ UNCHANGED <<store, rw, cmds, inbox, subscribed>>

\* The process dies and is started again: both connections are closed, and what redis has
\* not executed by then is taken as dropped.  What it executes of that all the same looks to
\* every other process as if it had been executed before the death; only that the process,
\* started again, sends something that overtakes it is left out here (see MailboxV2).
ProcessLost(p) ==
  /\ rw' = [rw EXCEPT ![p] = <<>>]
  /\ cmds' = [cmds EXCEPT ![p] = [a \in Agents |-> <<>>]]
  /\ inbox' = [inbox EXCEPT ![p] = [a \in Agents |-> <<>>]]
  /\ subscribed' = [subscribed EXCEPT ![p] = [a \in Agents |-> FALSE]]
  /\ up' = [up EXCEPT ![p] = TRUE]
  /\ UNCHANGED store

-----------------------------------------------------------------------------
(* What is on its way, for the properties of the services.                 *)

\* The flaggings that have yet to reach a process are the `set' events in its inboxes.
Sets(events) == {i \in DOMAIN events : events[i].type = "set"}
OnTheWay == [p \in Procs |-> [a \in Agents |-> Cardinality(Sets(inbox[p][a]))]]

\* The GETs sent for a caller.
Gets(requests, c) == {i \in DOMAIN requests : requests[i].op = "get" /\ requests[i].by = c}

\* What a caller waits for: a request or command it has sent, or the reply.
Asked(requests, c, op) == \E i \in DOMAIN requests : requests[i].op = op /\ requests[i].by = c
Replied(events, c, type) == \E i \in DOMAIN events : events[i].type = type /\ events[i].by = c
Commanded(p, a, c, op) == Asked(cmds[p][a], c, op) \/ Replied(inbox[p][a], c, op)
=============================================================================
