----------------------------- MODULE MCRouting -----------------------------
(***************************************************************************)
(* Instances of Routing for TLC: Alice (DID "a", verkey "ka") has an agent *)
(* and a connection for the pairwise DID "p"; Bob ("b", "kb") has an agent *)
(* or creates one, unless Alice has connected for his DID before.          *)
(***************************************************************************)
EXTENDS Routing, TLC

MCOwnerAtStart ==
  [e \in Entities |-> IF e \in {AgentFor("a"), ConnFor("p")} THEN "ka" ELSE NoOne]
MCAgentAtStart ==
  [c \in Conns |-> IF c = ConnFor("p") THEN AgentFor("a") ELSE NoOne]
MCPairwiseAtStart == [c \in Conns |-> IF c = ConnFor("p") THEN "kp" ELSE NoOne]

\* The last envelope of a message with a field that does not do.
with(message, field, value) == [message EXCEPT ![2][field] = value]

\* What Alice and Bob send, each to the own agent and by mistake to the other's.
MCSendable ==
  LET alice == AgentFor("a")  bob == AgentFor("b")  p == ConnFor("p")  q == ConnFor("q") IN
    "r1" :> {vcxFlowConnect("kb", "b", "kb"), vcxFlowConnect("ka", "b", "ka"),
             vcxFlowCreateAgentConnection("kb", bob, "q", "kq"),
             vcxFlowCreateAgentConnection("ka", alice, "q", "kq"),
             vcxFlowSendAriesMessage(p, "kp"), viaAries(vcxFlowSendAriesMessage(q, "kq")),
             vcxFlowSendAriesMessage(ConnFor("s"), "kp"),
             <<wrapWithAgencyFwd(q), pack(p, NoOne, "ariesFwd")>>} @@
    "r2" :> {vcxFlowConnect("kb", "b", "kb"), vcxFlowConnect("kb", "a", "ka"),
             vcxFlowCreateAgentConnection("kb", bob, "q", "kq"),
             vcxFlowCreateAgentConnection("ka", alice, "q", "kp"), vcxFlowSignUp("ka", alice),
             vcxFlowSetWebhookUrl("kb", alice, "http"), vcxFlowSetWebhookUrl("ka", alice, BadUrl),
             vcxFlowSendAriesMessage(q, "kq"),
             vcxFlowUpdateMsgsFromAgent("kb", bob, Requests), <<wrapWithAgencyFwd(alice)>>} @@
    "r3" :> {vcxFlowGetMsgsFromAgentConn("kp", p, {}), vcxFlowGetMsgsFromAgentConn("kq", p, {}),
             vcxFlowGetMsgsFromAgentConn("kq", q, {"r1"}),
             viaAgent("ka", alice, vcxFlowGetMsgsFromAgentConn("kp", p, {})),
             viaAgent("kb", alice, vcxFlowGetMsgsFromAgentConn("kp", p, {})),
             vcxFlowUpdateMsgsFromAgent("ka", alice, Requests),
             with(vcxFlowUpdateMsgsFromAgent("ka", alice, {}), "list", "other"),
             vcxFlowSetWebhookUrl("ka", alice, "http"),
             with(vcxFlowSetWebhookUrl("ka", alice, "http"), "method", "other"),
             vcxFlowCreateAgent("kb", bob)}
=============================================================================
