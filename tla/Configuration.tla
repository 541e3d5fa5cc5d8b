--------------------------- MODULE Configuration ---------------------------
(***************************************************************************)
(* The configuration of a process (app-config.js): what it is set to by    *)
(* its environment variables, as far as the start depends on it, and which *)
(* settings are accepted.                                                  *)
(***************************************************************************)

\* The settings read from the environment, with the defaults filled in; a flag says that
\* a setting without a default is given.
Config ==
  [AGENCY_TYPE             : {"client", "enterprise"},
   REDIS_URL               : BOOLEAN,
   REDIS_URL_NOTIFICATIONS : BOOLEAN,
   SERVER_ENABLE_TLS       : BOOLEAN,
   CERTIFICATE_PATHS       : BOOLEAN,   \* CERTIFICATE_PATH and CERTIFICATE_KEY_PATH
   AWS_S3                  : BOOLEAN,   \* AWS_S3_BUCKET_CERT and the paths of both assets
   ECS_METADATA            : BOOLEAN,   \* ECS_CONTAINER_METADATA_URI_V4
   wellFormed              : BOOLEAN]   \* whatever else the Joi schema asks of MySQL,
                                        \* server, seed and wallet settings

extraValidationTls(c) == c.SERVER_ENABLE_TLS => c.CERTIFICATE_PATHS

extraValidationByAgencyType(c) ==
  c.AGENCY_TYPE = "client" => c.REDIS_URL /\ c.REDIS_URL_NOTIFICATIONS

\* The schema and, after it, the validations across several settings.
validateAppConfig(c) ==
  c.wellFormed /\ extraValidationTls(c) /\ extraValidationByAgencyType(c)
=============================================================================
