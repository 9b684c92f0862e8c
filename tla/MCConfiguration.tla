------------------------- MODULE MCConfiguration -------------------------
(* The values an operator tries, and two deployments to start from.          *)
EXTENDS Configuration, TLC

Ports == {Unset, Empty, Dec(0), Dec(65535), Huge}
Ages == {Unset, Empty, Dec(86400), Dec(86401)}
Spans == {Unset, Empty, Dec(0), Dec(5), Span(-1)}
Texts == {Unset, Empty, Word("x")}
Endpoints == {Unset, Empty, Url("https", "op", 0), Url("", "op", 0), Word("x")}

MCValues ==
    [v \in Vars |->
        CASE v \in {"CORE_PORT", "CORE_DB_PORT"} -> Ports
          [] v \in {"CORE_OIDC_JWKS_MAX_AGE", "CORE_OIDC_DISCOVERY_MAX_AGE"} -> Ages
          [] v = "CORE_ENV" -> Texts \cup EnvNames
          [] v = "CORE_DB_SSLMODE" -> Texts \cup {Word("require")}
          [] v = "CORE_LOG_FORMAT" -> Texts \cup {Word("text")}
          [] v = "CORE_DB_POOL_MAX_CONNS" -> {Unset, Dec(0), Dec(2), Dec(20), Huge}
          [] v = "CORE_DB_POOL_MIN_CONNS" -> {Unset, Empty, Dec(-1), Dec(0), Dec(12)}
          [] v = "CORE_OIDC_ISSUER" ->
                Texts \cup {Url("https", "op", 0), Url("http", "op", 2), Url("https", "", 1)}
          [] v = "CORE_OIDC_DEV_GENERATE_KEY" -> {Unset, Empty, Dec(0), Dec(1), Dec(2)}
          [] v \in DOMAIN Paths -> Endpoints
          [] v \in {"CORE_DB_POOL_MAX_CONN_LIFETIME", "CORE_DB_POOL_MAX_CONN_IDLE_TIME",
                    "CORE_DB_POOL_HEALTH_CHECK_PERIOD"} -> Spans
          [] OTHER -> Texts]

\* What must be there, and a key source that the name allows.
Deployment(name, issuer, key, dev) ==
    [v \in Vars |->
        CASE v = "CORE_ENV" -> Word(name)
          [] v = "CORE_DB_PORT" -> Dec(65535)
          [] v = "CORE_OIDC_ISSUER" -> issuer
          [] v = "CORE_OIDC_KEY_FILE" -> key
          [] v = "CORE_OIDC_DEV_GENERATE_KEY" -> dev
          [] v \in Required -> Word("x")
          [] OTHER -> Unset]

MCBases ==
    {Deployment("prod", Url("https", "op", 0), Word("x"), Unset),
     Deployment("dev", Url("http", "op", 2), Unset, Dec(1))}
==========================================================================
