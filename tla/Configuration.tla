-------------------------- MODULE Configuration --------------------------
(***************************************************************************)
(* bootstrap() of cmd/core: config.Load and logger.Default read the process *)
(* environment, check one variable after the other and refuse the start     *)
(* with a message that names the variables at fault.  An operator changes   *)
(* the environment and starts again.                                        *)
(*                                                                          *)
(* A raw value is told apart by how the code's parsers take it, never by    *)
(* its characters.  A check is what a function of config.go decides, with   *)
(* the variables its message names.                                         *)
(***************************************************************************)
EXTENDS Integers, Sequences, FiniteSetsExt

CONSTANTS
    Values,     \* what an operator may set each variable to
    Bases,      \* environments of deployments that work
    MaxChanges  \* bound: variables that differ from such a deployment

Unset == <<"unset">>
Empty == <<"empty">>
Dec(n) == <<"int", n>>              \* a decimal number, of any size
Huge == <<"huge">>                  \* one that is beyond 32 bits, for TLC, which
                                    \* has no such number
Span(n) == <<"span", n>>            \* what time.ParseDuration reads as a duration
                                    \* with its unit: 5m or -5m
Word(w) == <<"word", w>>            \* none of these
\* A URL, or what url.Parse makes of it: scheme, host, slashes at its end.
Url(scheme, host, slashes) == <<"url", scheme, host, slashes>>

Kind(raw) == raw[1]

\* The defaults of what may be left out.
Defaults ==
    [CORE_PORT |-> Dec(8080), CORE_DB_SSLMODE |-> Word("disable"),
     CORE_DB_POOL_MAX_CONNS |-> Dec(10), CORE_DB_POOL_MIN_CONNS |-> Dec(1),
     CORE_DB_POOL_MAX_CONN_LIFETIME |-> Span(300),
     CORE_DB_POOL_MAX_CONN_IDLE_TIME |-> Span(120),
     CORE_DB_POOL_HEALTH_CHECK_PERIOD |-> Span(30),
     CORE_OIDC_KEY_FILE |-> Empty, CORE_OIDC_DEV_GENERATE_KEY |-> Dec(0),
     CORE_OIDC_KEY_ID |-> Empty,
     CORE_OIDC_JWKS_MAX_AGE |-> Dec(300), CORE_OIDC_DISCOVERY_MAX_AGE |-> Dec(0),
     CORE_LOG_FORMAT |-> Word("json")]

Required == {"CORE_ENV", "CORE_DB_HOST", "CORE_DB_PORT", "CORE_DB_USER",
             "CORE_DB_PASSWORD", "CORE_DB_NAME", "CORE_OIDC_ISSUER"}

\* The endpoints, with their paths under the issuer.
Paths ==
    [CORE_OIDC_AUTHORIZATION_ENDPOINT |-> "/authorize",
     CORE_OIDC_TOKEN_ENDPOINT |-> "/token",
     CORE_OIDC_USERINFO_ENDPOINT |-> "/userinfo",
     CORE_OIDC_JWKS_URI |-> "/jwks"]

Vars == DOMAIN Defaults \cup Required \cup DOMAIN Paths

ASSUME ConfigurationAssumption ==
    /\ MaxChanges \in Nat
    /\ DOMAIN Values = Vars
    /\ \A v \in Vars : \A raw \in Values[v] : Kind(raw) \in {"int", "span"} => raw[2] \in Int
    /\ \A e \in Bases : DOMAIN e = Vars /\ \A v \in Vars : e[v] \in Values[v]

---------------------------------------------------------------------------
(* The checks.                                                              *)

Check(blame, ok) == [blame |-> blame, ok |-> ok]

\* LookupEnv and `raw == ""`: what is set to nothing is not set.
Given(e, v) == e[v] \notin {Unset, Empty}

EnvNames == {Word("prod"), Word("staging"), Word("dev")}
SSLModes == {Word(m) : m \in {"disable", "allow", "prefer", "require", "verify-ca", "verify-full"}}

loadEnv(e) == Check({"CORE_ENV"}, e["CORE_ENV"] \in EnvNames)
Is(e, name) == e["CORE_ENV"] = Word(name)

\* An integer in a range.
Within(raw, low, high) == Kind(raw) = "int" /\ raw[2] >= low /\ raw[2] <= high

\* strconv.ParseInt for 32 bits, and a lower bound; no bound here is negative.
MaxInt32 == 2147483647
AtLeast(raw, low) == Within(raw, low, MaxInt32)

loadPort(e) == Check({"CORE_PORT"},
    Given(e, "CORE_PORT") => Within(e["CORE_PORT"], 1, 65535))

requiredPort(e, v) == Check({v}, Given(e, v) /\ Within(e[v], 1, 65535))

requiredString(e, v) == Check({v}, Given(e, v))

loadSSLMode(e) == Check({"CORE_DB_SSLMODE"},
    Given(e, "CORE_DB_SSLMODE") => e["CORE_DB_SSLMODE"] \in SSLModes)

\* Mutant: 0 is no negative number.
positiveInt32Lenient(e, v) == Check({v}, Given(e, v) => AtLeast(e[v], 0))

positiveInt32(e, v) == Check({v}, Given(e, v) => AtLeast(e[v], 1))

nonNegativeInt32(e, v) == Check({v}, Given(e, v) => AtLeast(e[v], 0))

Int32Or(e, v) == IF Given(e, v) /\ Kind(e[v]) = "int" THEN e[v][2] ELSE Defaults[v][2]

Bounds == {"CORE_DB_POOL_MIN_CONNS", "CORE_DB_POOL_MAX_CONNS"}

\* Mutant: only the lower bound is blamed.
minWithinMaxBlamingMin(e) == Check({"CORE_DB_POOL_MIN_CONNS"},
    Int32Or(e, "CORE_DB_POOL_MIN_CONNS") <= Int32Or(e, "CORE_DB_POOL_MAX_CONNS"))

\* Reached with both of them valid or left out.
minWithinMax(e) == Check(Bounds,
    Int32Or(e, "CORE_DB_POOL_MIN_CONNS") <= Int32Or(e, "CORE_DB_POOL_MAX_CONNS"))

\* ParseDuration wants a unit, except of 0.
nonNegativeDuration(e, v) == Check({v},
    Given(e, v) => e[v] = Dec(0) \/ (Kind(e[v]) = "span" /\ e[v][2] >= 0))

loadDatabase(e) ==
    << requiredString(e, "CORE_DB_HOST"), requiredPort(e, "CORE_DB_PORT"),
       requiredString(e, "CORE_DB_USER"), requiredString(e, "CORE_DB_PASSWORD"),
       requiredString(e, "CORE_DB_NAME"), loadSSLMode(e),
       positiveInt32(e, "CORE_DB_POOL_MAX_CONNS"),
       nonNegativeInt32(e, "CORE_DB_POOL_MIN_CONNS"), minWithinMax(e),
       nonNegativeDuration(e, "CORE_DB_POOL_MAX_CONN_LIFETIME"),
       nonNegativeDuration(e, "CORE_DB_POOL_MAX_CONN_IDLE_TIME"),
       nonNegativeDuration(e, "CORE_DB_POOL_HEALTH_CHECK_PERIOD") >>

\* http or https, https but in dev, and a host.  What is no URL has no scheme.
loadIssuer(e) ==
    LET raw == e["CORE_OIDC_ISSUER"]
        scheme == IF Kind(raw) = "url" THEN raw[2] ELSE ""
    IN << Check({"CORE_OIDC_ISSUER"}, scheme \in {"http", "https"}),
          Check({"CORE_OIDC_ISSUER", "CORE_ENV"}, scheme = "http" => Is(e, "dev")),
          Check({"CORE_OIDC_ISSUER"}, Kind(raw) = "url" /\ raw[3] # "") >>

devGen(e) == e["CORE_OIDC_DEV_GENERATE_KEY"] = Dec(1)

\* Mutant: a key file is required in every environment, as it is in prod.
keyFileOrDevGenFile(e) ==
    Check({"CORE_OIDC_KEY_FILE", "CORE_ENV"}, Given(e, "CORE_OIDC_KEY_FILE"))

\* The check that a staging or dev environment comes to first.
keyFileOrDevGen(e) ==
    Check({"CORE_OIDC_KEY_FILE", "CORE_OIDC_DEV_GENERATE_KEY", "CORE_ENV"},
          Given(e, "CORE_OIDC_KEY_FILE") \/ devGen(e))

loadKeySource(e) ==
    LET key == "CORE_OIDC_KEY_FILE"
        dev == "CORE_OIDC_DEV_GENERATE_KEY"
    IN << Check({dev}, Given(e, dev) => e[dev] \in {Dec(0), Dec(1)}),
          Check({dev, "CORE_ENV"}, ~(Is(e, "prod") /\ devGen(e))),
          Check({key, "CORE_ENV"}, Is(e, "prod") => Given(e, key)),
          keyFileOrDevGen(e),
          Check({key, dev}, ~(Given(e, key) /\ devGen(e))) >>

\* Mutant: an empty value is a number that cannot be read.
loadMaxAgeSet(e, v) == Check({v}, e[v] # Unset => Within(e[v], 0, 86400))

loadMaxAge(e, v) == Check({v}, Given(e, v) => Within(e[v], 0, 86400))

\* An override is an absolute URL.
resolveEndpoint(e, v) == Check({v},
    Given(e, v) => Kind(e[v]) = "url" /\ e[v][2] # "" /\ e[v][3] # "")

loadOIDC(e) ==
    loadIssuer(e) \o loadKeySource(e) \o
    << loadMaxAge(e, "CORE_OIDC_JWKS_MAX_AGE"), loadMaxAge(e, "CORE_OIDC_DISCOVERY_MAX_AGE"),
       resolveEndpoint(e, "CORE_OIDC_AUTHORIZATION_ENDPOINT"),
       resolveEndpoint(e, "CORE_OIDC_TOKEN_ENDPOINT"),
       resolveEndpoint(e, "CORE_OIDC_USERINFO_ENDPOINT"),
       resolveEndpoint(e, "CORE_OIDC_JWKS_URI") >>

FormatFromEnv(e) == Check({"CORE_LOG_FORMAT"},
    Given(e, "CORE_LOG_FORMAT") => e["CORE_LOG_FORMAT"] \in {Word("json"), Word("text")})

\* bootstrap(): config.Load, then logger.Default, in this order.
Checks(e) ==
    <<loadEnv(e), loadPort(e)>> \o loadDatabase(e) \o loadOIDC(e) \o <<FormatFromEnv(e)>>

---------------------------------------------------------------------------
(* What an accepted environment means.                                      *)

\* All slashes at the end of the issuer go.
TrimRight(raw) == IF Kind(raw) = "url" THEN Url(raw[2], raw[3], 0) ELSE raw

Issuer(e) ==
    IF Given(e, "CORE_OIDC_ISSUER") THEN TrimRight(e["CORE_OIDC_ISSUER"]) ELSE Empty

\* JoinPath puts one slash between the issuer and the path.
Meaning(e, v) ==
    IF v = "CORE_OIDC_ISSUER" THEN Issuer(e)
    ELSE IF Given(e, v) THEN e[v]
    ELSE IF v \in DOMAIN Paths THEN <<"under", Issuer(e), Paths[v]>>
    ELSE Defaults[v]

Config(e) == [v \in Vars |-> Meaning(e, v)]

Refusals(checks) == {i \in DOMAIN checks : ~checks[i].ok}

\* The first check that fails refuses the start.  (outcome is a function so that
\* TLC computes the checks once: it does so with the argument of a function.)
Bootstrap(e) ==
    LET outcome == [checks \in {Checks(e)} |->
            IF Refusals(checks) = {} THEN [blame |-> {}, config |-> Config(e)]
            ELSE [blame |-> checks[Min(Refusals(checks))].blame]]
    IN outcome[Checks(e)]

---------------------------------------------------------------------------
VARIABLES
    env,        \* the environment of the process
    run,        \* how bootstrap ended
    mending     \* whether the operator only sees to the messages by now

vars == <<env, run, mending>>

Started == run.blame = {}

Near(e) == \E b \in Bases : Cardinality({v \in Vars : e[v] # b[v]}) <= MaxChanges

Init ==
    /\ env \in Bases
    /\ run = Bootstrap(env)
    /\ mending = FALSE

\* The process is started with an environment.
Start(e) ==
    /\ env' = e
    /\ run' = Bootstrap(e)

\* The operator changes one variable, whatever the last message said.
Edit(v, raw) ==
    /\ ~mending /\ raw # env[v]
    /\ Near([env EXCEPT ![v] = raw])
    /\ Start([env EXCEPT ![v] = raw])
    /\ UNCHANGED mending

\* The operator changes one that the message names, to a value of which the next
\* message has nothing to say.  CORE_ENV says what the deployment is for and
\* stays, once it is one of the names.
Repair(v, raw) ==
    /\ v = "CORE_ENV" => env[v] \notin EnvNames
    /\ Start([env EXCEPT ![v] = raw])
    /\ v \notin run'.blame
    /\ mending' = TRUE

Repairs == \E v \in run.blame : \E raw \in Values[v] : Repair(v, raw)

Next == Repairs \/ \E v \in Vars : \E raw \in Values[v] : Edit(v, raw)

\* The operator sees to a process that does not start.
Spec == Init /\ [][Next]_vars /\ WF_vars(Repairs)

---------------------------------------------------------------------------
(* Properties.                                                              *)

PortVars == {"CORE_PORT", "CORE_DB_PORT"}
AgeVars == {"CORE_OIDC_JWKS_MAX_AGE", "CORE_OIDC_DISCOVERY_MAX_AGE"}
DurationVars == {"CORE_DB_POOL_MAX_CONN_LIFETIME", "CORE_DB_POOL_MAX_CONN_IDLE_TIME",
                 "CORE_DB_POOL_HEALTH_CHECK_PERIOD"}

\* The bounds of the pool are 32-bit numbers in their order, one of them set and
\* the other defaulted perhaps.
PoolFits(c) ==
    /\ Within(c["CORE_DB_POOL_MAX_CONNS"], 1, MaxInt32)
    /\ Within(c["CORE_DB_POOL_MIN_CONNS"], 0, c["CORE_DB_POOL_MAX_CONNS"][2])

NumbersFit(c) ==
    /\ \A v \in PortVars : Within(c[v], 1, 65535)
    /\ \A v \in AgeVars : Within(c[v], 0, 86400)
    /\ \A v \in DurationVars : c[v] = Dec(0) \/ (Kind(c[v]) = "span" /\ c[v][2] >= 0)

\* One key source, and in prod that is a file.
KeySourceFits(c) ==
    LET file == c["CORE_OIDC_KEY_FILE"] # Empty
        generated == c["CORE_OIDC_DEV_GENERATE_KEY"] = Dec(1)
    IN (file # generated) /\ (c["CORE_ENV"] = Word("prod") => file)

(* Every variable of an environment has one of its values, and a refusal blames
   variables.  What is accepted is complete, from what was set and what was
   defaulted: each required variable has a value, there is one key source, a
   file in prod, and the numbers are in the ranges that config.go checks.  These
   are config.go's ranges, not the driver's: a health check period of 0 is
   accepted. *)
TypeOK ==
    /\ mending \in BOOLEAN
    /\ DOMAIN env = Vars /\ \A v \in Vars : env[v] \in Values[v]
    /\ IF Started
       THEN /\ DOMAIN run.config = Vars
            /\ \A v \in Required : run.config[v] \notin {Unset, Empty}
            /\ PoolFits(run.config) /\ NumbersFit(run.config) /\ KeySourceFits(run.config)
       ELSE run.blame \subseteq Vars

Respelled(e, empty, slashes) ==
    [v \in Vars |->
        IF e[v] \in {Unset, Empty} THEN empty
        ELSE IF v = "CORE_OIDC_ISSUER" /\ Kind(e[v]) = "url"
             THEN Url(e[v][2], e[v][3], slashes)
             ELSE e[v]]

(* A variable set to nothing is the same as one that is not set (the tests'
   "empty means default"), and an issuer is the same with any slashes at its
   end: the process starts or is refused for the same reason, with the same
   configuration, in all 24 variables. *)
SpellingIsIrrelevant ==
    \A empty \in {Unset, Empty}, slashes \in 0..2 :
        Bootstrap(Respelled(env, empty, slashes)) = run

(* A refusal names all that its reason rests on: changing anything else never
   makes the process start. *)
BlameIsComplete ==
    [][~Started /\ (\A v \in run.blame : env'[v] = env[v]) => ~Started']_vars

(* Doing what the messages say, one variable at a time, brings the process up:
   no two checks demand the opposite of each other, none blames a variable
   that cannot help, and a repair never brings back an earlier complaint. *)
RepairsSucceed == mending ~> Started

==========================================================================
