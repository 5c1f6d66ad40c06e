----------------------------- MODULE MCLifecycle ------------------------------
(***************************************************************************)
(* Instances of Lifecycle for TLC: the process is started in an empty      *)
(* environment, a mock one and a production one, and in each of these with *)
(* any two variables changed.                                              *)
(***************************************************************************)
EXTENDS Lifecycle

Url(scheme, rest) == [scheme |-> scheme, rest |-> rest]

Choices == [
  MODE |-> {Unset, NotUnicode, "dev", "production", "staging"},
  ALLOW_MOCK_MODE |-> {Unset, "true", "yes"},
  POSTGRES_PASSWORD |-> {Unset, "app"},
  POSTGRES_PORT |-> {Word, 65536},
  MQTT_PORT |-> {Word, 1883},
  POSTGRES_SSLMODE |-> {Unset, NotUnicode, "prefer", "verify-full", "on"},
  DATABASE_URL |-> {"prefer", "disable", "require", "on"},
  DB_POOL_SIZE |-> {Word, 0, 1},
  DB_POOL_MIN_SIZE |-> {1, 2},
  DB_POOL_RECYCLE |-> {0},
  DB_POOL_IDLE_TIMEOUT |-> {Word},
  DB_CONNECT_TIMEOUT |-> {0},
  RUN_MIGRATIONS_ON_STARTUP |-> {NotUnicode, "False", "1", "yes"},
  RUSTFS_ACCESS_KEY |-> {Unset, "rustfsadmin"},
  S3_ACCESS_KEY |-> {"key"},
  RUSTFS_SECRET_KEY |-> {Unset, "rustfsadmin"},
  S3_SECRET_KEY |-> {"key"},
  S3_ENDPOINT_URL |-> {Unset, Url("http", "path")},
  REDIS_URL |-> {Unset, Url("redis", "path")},
  RATE_LIMIT_MOCK_TOKEN_PER_MINUTE |-> {Word, 0},
  RATE_LIMIT_HERO_WRITE_PER_MINUTE |-> {Word},
  BULK_ACTION_MAX_MATCHED |-> {Word, 0},
  OIDC_ISSUER_URL |-> {Unset, Url("http", "path")},
  OIDC_ISSUER |-> {Url("http", "path"), Url("https", "path")},
  OIDC_DISCOVERY_URL |-> {Url("http", "path"), Url("https", "path")},
  OIDC_AUDIENCE |-> {"", "web"},
  OIDC_SCOPES_SUPPORTED |-> {"list", "openid"},
  PUBLIC_BASE_URL |-> {Unset} \cup {Url(s, r) : s \in {"http", "https"}, r \in {"origin", "path"}},
  SECURITY_TXT_CONTACT |-> {Unset, Url("mailto", "path"), Url("http", "path"),
                            Url("tel", "unprintable")},
  SECURITY_TXT_POLICY |-> {Url("http", "path"), Url("https", "unprintable")},
  SECURITY_TXT_CANONICAL |-> {Url("https", "path"), Url("http", "path")},
  SECURITY_TXT_PREFERRED_LANGUAGES |-> {Url("en", "path"), Url("en", "unprintable")},
  SECURITY_TXT_EXPIRES |-> {Unset, Word, 0, 1, 2, 3, 4},
  SUBSCRIBER_SECRET |-> {Unset, NotUnicode, 31, 32},
  GRACEFUL_SHUTDOWN_TIMEOUT_SECONDS |-> {NotUnicode, Word, 0, 30},
  STATS_CACHE_TTL_SECONDS |-> {Word, 0, 60}]

Empty == [key \in DOMAIN Choices |-> Unset]

MockBase == [Empty EXCEPT !.MODE = "mock", !.ALLOW_MOCK_MODE = "1"]

ProductionBase ==
  [Empty EXCEPT
    !.MODE = "production", !.POSTGRES_PASSWORD = "secret", !.POSTGRES_SSLMODE = "require",
    !.RUSTFS_ACCESS_KEY = "key", !.RUSTFS_SECRET_KEY = "key",
    !.S3_ENDPOINT_URL = Url("https", "origin"), !.REDIS_URL = Url("rediss", "path"),
    !.OIDC_ISSUER_URL = Url("https", "path"), !.PUBLIC_BASE_URL = Url("https", "origin"),
    !.SECURITY_TXT_CONTACT = Url("https", "path"), !.SECURITY_TXT_EXPIRES = 2,
    !.SUBSCRIBER_SECRET = 40]

Changes == UNION {{<<key, value>> : value \in Choices[key]} : key \in DOMAIN Choices}

MCEnvironments ==
  {[base EXCEPT ![c[1]] = c[2], ![d[1]] = d[2]] :
     base \in {Empty, MockBase, ProductionBase}, c \in Changes, d \in Changes}
=============================================================================
