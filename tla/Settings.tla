------------------------------- MODULE Settings --------------------------------
(***************************************************************************)
(* The process environment and what src/config.rs, src/db.rs and the       *)
(* wiring of src/lib.rs make of it: which environments they refuse, and    *)
(* what the accepted ones connect to.                                      *)
(*                                                                         *)
(* An environment is a record from the variables' names to values.  A      *)
(* number is a number, a time a moment of the clock; a URL, and the other  *)
(* lines of security.txt, are a scheme and what follows it: "origin" (a    *)
(* host, and at most a slash), "path" (more than that) or "unprintable"    *)
(* (blank, or with control characters).  DATABASE_URL stands for its       *)
(* sslmode parameter, SUBSCRIBER_SECRET for its length.  Variables nothing *)
(* is decided by (names, hosts, users) are left out.                       *)
(***************************************************************************)
EXTENDS Naturals

CONSTANTS
  Unset,        (* the variable is not set                                 *)
  NotUnicode,   (* it is set to bytes that are no UTF-8                    *)
  Word,         (* a value that is no number, and no time                  *)
  Year          (* SECURITY_TXT_MAX_AHEAD_DAYS                             *)

ASSUME SettingsAssumption ==
  Year \in Nat /\ Unset # NotUnicode /\ Unset \notin Nat

(* env::var(key).ok(): what is not UTF-8 is as good as unset.              *)
Get(env, key) == IF env[key] = NotUnicode THEN Unset ELSE env[key]

IsSet(env, key) == Get(env, key) # Unset

EnvOr(env, key, default) == IF IsSet(env, key) THEN Get(env, key) ELSE default

(* env_positive and env_seconds refuse 0 and everything that is no number. *)
EnvPositive(env, key) == IsSet(env, key) => Get(env, key) \in Nat \ {0}

(* env_bool accepts these spellings only.                                  *)
EnvBool(env, key) ==
  EnvOr(env, key, "true") \in {"1", "true", "True", "0", "false", "False"}

(* env_flag takes every other spelling for false.                          *)
EnvFlag(env, key) == Get(env, key) \in {"1", "true", "True"}

-----------------------------------------------------------------------------
(* Settings::from_env                                                      *)

Modes == {"dev", "mock", "production"}

ModeOf(env) == EnvOr(env, "MODE", "dev")

Sslmodes == {"disable", "allow", "prefer", "require", "verify-ca", "verify-full"}
Encrypting == {"require", "verify-ca", "verify-full"}

ASSUME UnsetAssumption == Unset \notin Sslmodes

Seconds == {"DB_POOL_RECYCLE", "DB_POOL_IDLE_TIMEOUT", "DB_CONNECT_TIMEOUT"}

DbSettingsParse(env) ==
  /\ EnvOr(env, "POSTGRES_SSLMODE", "prefer") \in Sslmodes
  /\ \A key \in {"DB_POOL_SIZE", "DB_POOL_MIN_SIZE"} \cup Seconds : EnvPositive(env, key)
  /\ IsSet(env, "DB_POOL_MIN_SIZE") /\ IsSet(env, "DB_POOL_SIZE") =>
       Get(env, "DB_POOL_MIN_SIZE") <= Get(env, "DB_POOL_SIZE")
  /\ EnvBool(env, "RUN_MIGRATIONS_ON_STARTUP")

Ports == {"POSTGRES_PORT", "MQTT_PORT"}
Counts == {"RATE_LIMIT_MOCK_TOKEN_PER_MINUTE", "RATE_LIMIT_HERO_WRITE_PER_MINUTE",
           "BULK_ACTION_MAX_MATCHED"}

Parses(env) ==
  /\ ModeOf(env) \in Modes
  /\ \A key \in Ports : EnvOr(env, key, 0) \in 0 .. 65535
  /\ \A key \in Counts : EnvOr(env, key, 0) \in Nat
  /\ DbSettingsParse(env)

(* RUSTFS_ACCESS_KEY goes before S3_ACCESS_KEY.                            *)
StorageKey(env, rustfs, s3) == EnvOr(env, rustfs, EnvOr(env, s3, "rustfsadmin"))

Keycloak == [scheme |-> "http", rest |-> "path"]
IssuerUrl(env) == EnvOr(env, "OIDC_ISSUER_URL", Keycloak)
Issuer(env) == EnvOr(env, "OIDC_ISSUER", IssuerUrl(env))

Https(url) == url.scheme = "https"

UrlSslmode(env) ==
  LET url == Get(env, "DATABASE_URL") IN IF url \in Sslmodes THEN url ELSE Unset

(* Variant of EffectiveSslmode: the URL goes first.                        *)
UrlThenSslmode(env) ==
  IF UrlSslmode(env) # Unset THEN UrlSslmode(env) ELSE Get(env, "POSTGRES_SSLMODE")

(* An sslmode the URL misspells counts as none.                            *)
EffectiveSslmode(env) == EnvOr(env, "POSTGRES_SSLMODE", UrlSslmode(env))

StorageUrl(env) == EnvOr(env, "S3_ENDPOINT_URL", [scheme |-> "http", rest |-> "origin"])
RedisUrl(env) == EnvOr(env, "REDIS_URL", [scheme |-> "redis", rest |-> "path"])

Validates(env) ==
  /\ ModeOf(env) = "mock" => EnvFlag(env, "ALLOW_MOCK_MODE")
  /\ ModeOf(env) = "production" =>
       /\ EnvOr(env, "POSTGRES_PASSWORD", "app") # "app"
       /\ StorageKey(env, "RUSTFS_ACCESS_KEY", "S3_ACCESS_KEY") # "rustfsadmin"
       /\ StorageKey(env, "RUSTFS_SECRET_KEY", "S3_SECRET_KEY") # "rustfsadmin"
       /\ EffectiveSslmode(env) \in Encrypting
       /\ Https(StorageUrl(env))
       /\ RedisUrl(env).scheme = "rediss"
       /\ Https(Issuer(env))

-----------------------------------------------------------------------------
(* ResourceServer::from_env and SecurityTxt::from_lookup                   *)

(* discovery_url_for appends a path to the issuer.                         *)
DiscoveryUrl(env) == EnvOr(env, "OIDC_DISCOVERY_URL", [Issuer(env) EXCEPT !.rest = "path"])

IsOrigin(url) == url.scheme \in {"http", "https"} /\ url.rest = "origin"

SecurityLines == {"SECURITY_TXT_CONTACT", "SECURITY_TXT_POLICY",
                  "SECURITY_TXT_CANONICAL", "SECURITY_TXT_PREFERRED_LANGUAGES"}

(* Without a contact the other lines are not even read.                    *)
SecurityTxt(env, now) ==
  IsSet(env, "SECURITY_TXT_CONTACT") =>
    /\ \A key \in SecurityLines :
         IsSet(env, key) => Get(env, key).rest # "unprintable"
    /\ Get(env, "SECURITY_TXT_CONTACT").scheme \in {"https", "mailto", "tel"}
    /\ \A key \in {"SECURITY_TXT_POLICY", "SECURITY_TXT_CANONICAL"} :
         IsSet(env, key) => Https(Get(env, key))
    /\ Get(env, "SECURITY_TXT_EXPIRES") \in Nat
    /\ Get(env, "SECURITY_TXT_EXPIRES") > now
    /\ Get(env, "SECURITY_TXT_EXPIRES") <= now + Year

ResourceServer(env, now) ==
  /\ EnvOr(env, "OIDC_AUDIENCE", "api") # ""
  /\ EnvOr(env, "OIDC_SCOPES_SUPPORTED", "list") = "list"
  /\ IsSet(env, "PUBLIC_BASE_URL") => IsOrigin(Get(env, "PUBLIC_BASE_URL"))
  /\ ModeOf(env) = "production" =>
       /\ Https(Issuer(env)) /\ Https(DiscoveryUrl(env))
       /\ IsSet(env, "PUBLIC_BASE_URL") /\ Https(Get(env, "PUBLIC_BASE_URL"))
  /\ SecurityTxt(env, now)

FromEnv(env, now) == Parses(env) /\ Validates(env) /\ ResourceServer(env, now)

-----------------------------------------------------------------------------
(* What main and the wiring read next to Settings.                         *)

(* A secret that is not UTF-8 is an error here, and not as good as unset.  *)
SubscriberSecret(env) ==
  LET secret == env["SUBSCRIBER_SECRET"]
  IN  /\ secret # NotUnicode
      /\ IF secret = Unset THEN ModeOf(env) # "production" ELSE secret >= 32

GracefulShutdownTimeout(env) == EnvPositive(env, "GRACEFUL_SHUTDOWN_TIMEOUT_SECONDS")
StatsCacheTtl(env) == EnvPositive(env, "STATS_CACHE_TTL_SECONDS")

(* connect_options: POSTGRES_SSLMODE, else what sqlx makes of the URL.     *)
ConnectSslmode(env) ==
  EnvOr(env, "POSTGRES_SSLMODE", EnvOr(env, "DATABASE_URL", "prefer"))

RunsMigrations(env) ==
  EnvOr(env, "RUN_MIGRATIONS_ON_STARTUP", "true") \in {"1", "true", "True"}

(* build_event_bus: without a secret every process signs with its own key. *)
SharedKey(env) == IsSet(env, "SUBSCRIBER_SECRET")
=============================================================================
