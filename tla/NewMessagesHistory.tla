------------------------- MODULE NewMessagesHistory -------------------------
(***************************************************************************)
(* NewMessages with a history of the polls during which the flag of their  *)
(* agent was up at some moment.                                            *)
(***************************************************************************)
EXTENDS NewMessages

VARIABLE sawUp  \* SUBSET Polls

Running(c) == ~At(c, "idle") /\ ~At(c, "over")

HInit == Init /\ sawUp = {}

HNext ==
  /\ Next
  /\ sawUp' = sawUp \cup {c \in Polls : /\ Running(c) \/ Running(c)'
                                        /\ store'[CallerAgent[c]] = "true"}

HSpec == HInit /\ [][HNext]_<<vars, sawUp>>

\* What README.md:16 says of a long poll, "the server returns response only if a
\* new message has arrived, or certain amount of time has passed": no poll is
\* answered `true' when its agent had no unacked message from its start to its end.
TrueOnlyForAMessage == \A c \in Polls : answer[c] = "true" => c \in sawUp
=============================================================================
