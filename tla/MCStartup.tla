----------------------------- MODULE MCStartup -----------------------------
(***************************************************************************)
(* Two processes for TLC, of which the second has got a new seed.  The     *)
(* first serves with TLS; the second, which does not, has a configuration  *)
(* that is accepted or one of those that are not.                          *)
(***************************************************************************)
EXTENDS Startup, TLC

MCSeed == "p1" :> "s1" @@ "p2" :> "s2"

Client ==
  [AGENCY_TYPE |-> "client", REDIS_URL |-> TRUE, REDIS_URL_NOTIFICATIONS |-> TRUE,
   SERVER_ENABLE_TLS |-> TRUE, CERTIFICATE_PATHS |-> TRUE, AWS_S3 |-> TRUE,
   ECS_METADATA |-> TRUE, wellFormed |-> TRUE]

Enterprise ==
  [Client EXCEPT !.AGENCY_TYPE = "enterprise", !.REDIS_URL = FALSE,
     !.REDIS_URL_NOTIFICATIONS = FALSE, !.SERVER_ENABLE_TLS = FALSE,
     !.CERTIFICATE_PATHS = FALSE, !.AWS_S3 = FALSE, !.ECS_METADATA = FALSE]

MCDeployments ==
  { "p1" :> Client @@ "p2" :> c : c \in
      {Enterprise,
       [Client EXCEPT !.REDIS_URL_NOTIFICATIONS = FALSE],
       [Client EXCEPT !.AWS_S3 = FALSE]} }
=============================================================================
