----------------------- MODULE ConfigurationProofs -----------------------
(***************************************************************************)
(* That the spelling of an environment is irrelevant, for all values that   *)
(* the variables may have: every check of bootstrap() decides the same and  *)
(* what is accepted means the same.                                         *)
(***************************************************************************)
EXTENDS Configuration, SequenceTheorems, WellFoundedInduction, TLAPS

(* An environment read otherwise: only what is not given and the slashes of the
   issuer differ. *)
Same(e, f) ==
    \A v \in Vars :
        \/ f[v] = e[v]
        \/ e[v] \in {Unset, Empty} /\ f[v] \in {Unset, Empty}
        \/ /\ v = "CORE_OIDC_ISSUER"
           /\ Kind(e[v]) = "url" /\ Kind(f[v]) = "url"
           /\ f[v][2] = e[v][2] /\ f[v][3] = e[v][3]

(* The kinds of values are told apart. *)
LEMMA Kinds ==
    /\ Kind(Unset) = "unset" /\ Kind(Empty) = "empty"
    /\ \A n : Kind(Dec(n)) = "int" /\ Kind(Word(n)) = "word"
  BY DEF Kind, Unset, Empty, Dec, Word

(* What is given is given in both, and but for the issuer with one value. *)
LEMMA SameGiven ==
    ASSUME NEW e, NEW f, Same(e, f), NEW v \in Vars
    PROVE  /\ Given(e, v) <=> Given(f, v)
           /\ v # "CORE_OIDC_ISSUER" /\ Given(e, v) => f[v] = e[v]
           /\ v # "CORE_OIDC_ISSUER" =>
                 f[v] = e[v] \/ (Kind(e[v]) \in {"unset", "empty"} /\ Kind(f[v]) \in {"unset", "empty"})
  <1>1. CASE f[v] = e[v]
    BY <1>1 DEF Given
  <1>2. CASE e[v] \in {Unset, Empty} /\ f[v] \in {Unset, Empty}
    BY <1>2, Kinds DEF Given
  <1>3. CASE v = "CORE_OIDC_ISSUER" /\ Kind(e[v]) = "url" /\ Kind(f[v]) = "url"
    BY <1>3, Kinds DEF Given
  <1> QED
    BY <1>1, <1>2, <1>3 DEF Same

(* The variables that bootstrap() reads. *)
LEMMA Names ==
    /\ {"CORE_ENV", "CORE_OIDC_ISSUER", "CORE_DB_HOST", "CORE_DB_PORT", "CORE_DB_USER",
        "CORE_DB_PASSWORD", "CORE_DB_NAME"} \subseteq Vars
    /\ {"CORE_PORT", "CORE_DB_SSLMODE", "CORE_DB_POOL_MAX_CONNS",
        "CORE_DB_POOL_MIN_CONNS", "CORE_DB_POOL_MAX_CONN_LIFETIME",
        "CORE_DB_POOL_MAX_CONN_IDLE_TIME", "CORE_DB_POOL_HEALTH_CHECK_PERIOD",
        "CORE_OIDC_KEY_FILE", "CORE_OIDC_DEV_GENERATE_KEY", "CORE_OIDC_JWKS_MAX_AGE",
        "CORE_OIDC_DISCOVERY_MAX_AGE", "CORE_LOG_FORMAT"} \subseteq Vars
    /\ {"CORE_OIDC_AUTHORIZATION_ENDPOINT", "CORE_OIDC_TOKEN_ENDPOINT",
        "CORE_OIDC_USERINFO_ENDPOINT", "CORE_OIDC_JWKS_URI"} \subseteq Vars
  BY DEF Vars, Required, Defaults, Paths

(* A check that looks at what is given decides the same. *)
LEMMA SameCheck ==
    ASSUME NEW e, NEW f, Same(e, f), NEW v \in Vars \ {"CORE_OIDC_ISSUER"}
    PROVE  /\ requiredString(e, v) = requiredString(f, v)
           /\ requiredPort(e, v) = requiredPort(f, v)
           /\ positiveInt32(e, v) = positiveInt32(f, v)
           /\ nonNegativeInt32(e, v) = nonNegativeInt32(f, v)
           /\ nonNegativeDuration(e, v) = nonNegativeDuration(f, v)
           /\ loadMaxAge(e, v) = loadMaxAge(f, v)
           /\ resolveEndpoint(e, v) = resolveEndpoint(f, v)
           /\ Int32Or(e, v) = Int32Or(f, v)
<1>1. /\ Given(e, v) <=> Given(f, v)
      /\ Given(e, v) => f[v] = e[v]
  BY SameGiven
<1>2. requiredString(e, v) = requiredString(f, v)
  BY <1>1 DEF requiredString, Given
<1>3. requiredPort(e, v) = requiredPort(f, v)
  BY <1>1 DEF requiredPort
<1>4. positiveInt32(e, v) = positiveInt32(f, v)
  BY <1>1 DEF positiveInt32
<1>5. nonNegativeInt32(e, v) = nonNegativeInt32(f, v)
  BY <1>1 DEF nonNegativeInt32
<1>6. nonNegativeDuration(e, v) = nonNegativeDuration(f, v)
  BY <1>1 DEF nonNegativeDuration
<1>7. loadMaxAge(e, v) = loadMaxAge(f, v)
  BY <1>1 DEF loadMaxAge
<1>8. resolveEndpoint(e, v) = resolveEndpoint(f, v)
  BY <1>1 DEF resolveEndpoint
<1>9. Int32Or(e, v) = Int32Or(f, v)
  BY <1>1 DEF Int32Or
<1> QED
  BY <1>2, <1>3, <1>4, <1>5, <1>6, <1>7, <1>8, <1>9

(* So do those of one variable each. *)
LEMMA SameNamed ==
    ASSUME NEW e, NEW f, Same(e, f)
    PROVE  /\ loadEnv(e) = loadEnv(f) /\ loadPort(e) = loadPort(f)
           /\ loadSSLMode(e) = loadSSLMode(f) /\ FormatFromEnv(e) = FormatFromEnv(f)
           /\ \A name : Is(e, name) <=> Is(f, name)
           /\ devGen(e) <=> devGen(f)
<1>1. /\ {"CORE_ENV", "CORE_PORT", "CORE_DB_SSLMODE", "CORE_LOG_FORMAT",
          "CORE_OIDC_DEV_GENERATE_KEY"} \subseteq Vars \ {"CORE_OIDC_ISSUER"}
  BY Names
<1>0. \A v \in {"CORE_PORT", "CORE_DB_SSLMODE", "CORE_LOG_FORMAT"} :
        /\ Given(e, v) <=> Given(f, v)
        /\ Given(e, v) => f[v] = e[v]
  BY <1>1, SameGiven
<1>2. loadPort(e) = loadPort(f)
  BY <1>0 DEF loadPort
<1>3. loadSSLMode(e) = loadSSLMode(f)
  BY <1>0 DEF loadSSLMode
<1>4. FormatFromEnv(e) = FormatFromEnv(f)
  BY <1>0 DEF FormatFromEnv
<1>5. \/ f["CORE_ENV"] = e["CORE_ENV"]
      \/ Kind(e["CORE_ENV"]) \in {"unset", "empty"} /\ Kind(f["CORE_ENV"]) \in {"unset", "empty"}
  BY <1>1, SameGiven
<1>6. \A name : Is(e, name) <=> Is(f, name)
  BY <1>5, Kinds DEF Is
<1>7. loadEnv(e) = loadEnv(f)
  <2>1. \A x \in EnvNames : Kind(x) = "word"
    BY Kinds DEF EnvNames
  <2> QED
    BY <1>5, <2>1 DEF loadEnv
<1>8. devGen(e) <=> devGen(f)
  <2>1. LET dev == "CORE_OIDC_DEV_GENERATE_KEY"
        IN \/ f[dev] = e[dev]
           \/ Kind(e[dev]) \in {"unset", "empty"} /\ Kind(f[dev]) \in {"unset", "empty"}
    BY <1>1, SameGiven
  <2> QED
    BY <2>1, Kinds DEF devGen
<1> QED
  BY <1>2, <1>3, <1>4, <1>6, <1>7, <1>8

(* The checks of the issuer. *)
LEMMA SameIssuer ==
    ASSUME NEW e, NEW f, Same(e, f)
    PROVE  loadIssuer(e) = loadIssuer(f) /\ Issuer(e) = Issuer(f)
<1> DEFINE raw(x) == x["CORE_OIDC_ISSUER"]
<1>1. "CORE_OIDC_ISSUER" \in Vars
  BY Names
<1>2. Is(e, "dev") <=> Is(f, "dev")
  BY SameNamed
<1>3. CASE raw(e) = raw(f)
  BY <1>2, <1>3 DEF loadIssuer, Issuer, Given
<1>4. CASE raw(e) \in {Unset, Empty} /\ raw(f) \in {Unset, Empty}
  <2>1. Kind(raw(e)) # "url" /\ Kind(raw(f)) # "url" /\ ~Given(e, "CORE_OIDC_ISSUER")
        /\ ~Given(f, "CORE_OIDC_ISSUER")
    BY <1>4, Kinds DEF Given
  <2> QED
    BY <1>2, <2>1 DEF loadIssuer, Issuer
<1>5. CASE /\ Kind(raw(e)) = "url" /\ Kind(raw(f)) = "url"
           /\ raw(f)[2] = raw(e)[2] /\ raw(f)[3] = raw(e)[3]
  <2>1. Given(e, "CORE_OIDC_ISSUER") /\ Given(f, "CORE_OIDC_ISSUER")
    BY <1>5, Kinds DEF Given
  <2> QED
    BY <1>2, <1>5, <2>1 DEF loadIssuer, Issuer, TrimRight
<1> QED
  BY <1>1, <1>3, <1>4, <1>5 DEF Same

(* The checks of the key source. *)
LEMMA SameKeySource ==
    ASSUME NEW e, NEW f, Same(e, f)
    PROVE  loadKeySource(e) = loadKeySource(f)
<1> DEFINE key == "CORE_OIDC_KEY_FILE"
           dev == "CORE_OIDC_DEV_GENERATE_KEY"
<1>1. /\ Given(e, key) <=> Given(f, key)
      /\ Given(e, dev) <=> Given(f, dev)
      /\ Given(e, dev) => f[dev] = e[dev]
  BY Names, SameGiven
<1>2. /\ Is(e, "prod") <=> Is(f, "prod")
      /\ devGen(e) <=> devGen(f)
  BY SameNamed
<1>3. keyFileOrDevGen(e) = keyFileOrDevGen(f)
  BY <1>1, <1>2 DEF keyFileOrDevGen
<1> QED
  BY <1>1, <1>2, <1>3 DEF loadKeySource

(* All checks together. *)
LEMMA SameChecks ==
    ASSUME NEW e, NEW f, Same(e, f)
    PROVE  Checks(e) = Checks(f)
<1>1. minWithinMax(e) = minWithinMax(f)
  BY Names, SameCheck DEF minWithinMax
<1>2. loadDatabase(e) = loadDatabase(f)
  BY <1>1, Names, SameCheck, SameNamed DEF loadDatabase
<1>3. loadOIDC(e) = loadOIDC(f)
  BY Names, SameCheck, SameIssuer, SameKeySource DEF loadOIDC
<1> QED
  BY <1>2, <1>3, SameNamed DEF Checks

(* What is accepted means the same. *)
LEMMA SameConfig ==
    ASSUME NEW e, NEW f, Same(e, f)
    PROVE  Config(e) = Config(f)
<1>1. ASSUME NEW v \in Vars PROVE Meaning(e, v) = Meaning(f, v)
  BY SameGiven, SameIssuer DEF Meaning
<1> QED
  BY <1>1 DEF Config

(* bootstrap() ends in the same way. *)
LEMMA SameBootstrap ==
    ASSUME NEW e, NEW f, Same(e, f)
    PROVE  Bootstrap(e) = Bootstrap(f)
<1>1. Checks(e) = Checks(f) /\ Config(e) = Config(f)
  BY SameChecks, SameConfig
<1>2. Refusals(Checks(e)) = Refusals(Checks(f))
  BY <1>1
<1> QED
  BY <1>1, <1>2 DEF Bootstrap

LEMMA AlwaysBootstrapped == Spec => [](run = Bootstrap(env))
<1>1. Init => run = Bootstrap(env)
  BY DEF Init
<1>2. run = Bootstrap(env) /\ [Next]_vars => (run = Bootstrap(env))'
  BY DEF Next, Repairs, Repair, Edit, Start, vars
<1> QED
  BY <1>1, <1>2, PTL DEF Spec

(* Setting a variable to nothing is leaving it out, and slashes at the end of the
   issuer do not count, whatever the values of the variables. *)
THEOREM SpellingCorrect == Spec => []SpellingIsIrrelevant
<1>1. run = Bootstrap(env) => SpellingIsIrrelevant
  <2> SUFFICES ASSUME NEW empty \in {Unset, Empty}, NEW slashes \in 0..2
               PROVE  Bootstrap(Respelled(env, empty, slashes)) = Bootstrap(env)
    BY DEF SpellingIsIrrelevant
  <2>1. ASSUME NEW v \in Vars
        PROVE  Respelled(env, empty, slashes)[v] =
                  IF env[v] \in {Unset, Empty} THEN empty
                  ELSE IF v = "CORE_OIDC_ISSUER" /\ Kind(env[v]) = "url"
                       THEN Url(env[v][2], env[v][3], slashes)
                       ELSE env[v]
    BY DEF Respelled
  <2>2. \A a, b, c : Kind(Url(a, b, c)) = "url" /\ Url(a, b, c)[2] = a /\ Url(a, b, c)[3] = b
    BY DEF Kind, Url
  <2>3. Same(env, Respelled(env, empty, slashes))
    BY <2>1, <2>2 DEF Same
  <2> QED
    BY <2>3, SameBootstrap
<1> QED
  BY <1>1, AlwaysBootstrapped, PTL

---------------------------------------------------------------------------
(* What a check blames is what it looks at.                                 *)

Verdicts == [blame : SUBSET Vars, ok : BOOLEAN]

(* c and d are one check, of the environments e and f. *)
Accords(e, f, c, d) ==
    /\ c \in Verdicts /\ d \in Verdicts
    /\ c.blame = d.blame /\ c.blame # {}
    /\ (\A v \in c.blame : f[v] = e[v]) => c.ok = d.ok

Alike(e, f, s, t) ==
    /\ s \in Seq(Verdicts) /\ t \in Seq(Verdicts) /\ Len(s) = Len(t)
    /\ \A i \in 1 .. Len(s) : Accords(e, f, s[i], t[i])

LEMMA CheckAccords ==
    ASSUME NEW e, NEW f, NEW b \in SUBSET Vars, b # {}, NEW p \in BOOLEAN, NEW q \in BOOLEAN,
           (\A v \in b : f[v] = e[v]) => p = q
    PROVE  Accords(e, f, Check(b, p), Check(b, q))
<1>1. \A x \in BOOLEAN : /\ Check(b, x) \in Verdicts
                         /\ Check(b, x).blame = b /\ Check(b, x).ok = x
  BY DEF Check, Verdicts
<1> QED
  BY <1>1 DEF Accords

LEMMA ConcatAlike ==
    ASSUME NEW e, NEW f, NEW s1, NEW s2, NEW t1, NEW t2,
           Alike(e, f, s1, t1), Alike(e, f, s2, t2)
    PROVE  Alike(e, f, s1 \o s2, t1 \o t2)
<1>1. /\ s1 \in Seq(Verdicts) /\ s2 \in Seq(Verdicts) /\ Len(s1) = Len(t1)
      /\ t1 \in Seq(Verdicts) /\ t2 \in Seq(Verdicts) /\ Len(s2) = Len(t2)
      /\ Len(s1) \in Nat /\ Len(s2) \in Nat
  BY LenProperties DEF Alike
<1>2. /\ s1 \o s2 \in Seq(Verdicts) /\ t1 \o t2 \in Seq(Verdicts)
      /\ Len(s1 \o s2) = Len(s1) + Len(s2) /\ Len(t1 \o t2) = Len(s1) + Len(s2)
  <2>1. s1 \o s2 \in Seq(Verdicts) /\ Len(s1 \o s2) = Len(s1) + Len(s2)
    BY <1>1, ConcatProperties
  <2>2. t1 \o t2 \in Seq(Verdicts) /\ Len(t1 \o t2) = Len(t1) + Len(t2)
    BY <1>1, ConcatProperties
  <2> QED
    BY <1>1, <2>1, <2>2
<1>3. ASSUME NEW i \in 1 .. Len(s1) + Len(s2)
      PROVE  Accords(e, f, (s1 \o s2)[i], (t1 \o t2)[i])
  <2>1. /\ (s1 \o s2)[i] = IF i <= Len(s1) THEN s1[i] ELSE s2[i - Len(s1)]
        /\ (t1 \o t2)[i] = IF i <= Len(s1) THEN t1[i] ELSE t2[i - Len(s1)]
    BY <1>1, ConcatProperties
  <2>2. CASE i <= Len(s1)
    <3>1. i \in 1 .. Len(s1)
      BY <1>1, <2>2
    <3> QED
      BY <2>1, <2>2, <3>1 DEF Alike
  <2>3. CASE ~(i <= Len(s1))
    <3>1. i - Len(s1) \in 1 .. Len(s2)
      BY <1>1, <2>3
    <3> QED
      BY <2>1, <2>3, <3>1 DEF Alike
  <2> QED
    BY <2>2, <2>3
<1> QED
  BY <1>2, <1>3 DEF Alike

LEMMA OneAlike ==
    ASSUME NEW e, NEW f, NEW a1, NEW b1, Accords(e, f, a1, b1)
    PROVE  Alike(e, f, <<a1>>, <<b1>>)
  BY DEF Alike, Accords

LEMMA TwoAlike ==
    ASSUME NEW e, NEW f, NEW a1, NEW b1, Accords(e, f, a1, b1),
           NEW a2, NEW b2, Accords(e, f, a2, b2)
    PROVE  Alike(e, f, <<a1, a2>>, <<b1, b2>>)
  BY DEF Alike, Accords

LEMMA ThreeAlike ==
    ASSUME NEW e, NEW f, NEW a1, NEW b1, Accords(e, f, a1, b1),
           NEW a2, NEW b2, Accords(e, f, a2, b2), NEW a3, NEW b3, Accords(e, f, a3, b3)
    PROVE  Alike(e, f, <<a1, a2, a3>>, <<b1, b2, b3>>)
  BY DEF Alike, Accords

LEMMA FiveAlike ==
    ASSUME NEW e, NEW f, NEW a1, NEW b1, Accords(e, f, a1, b1),
           NEW a2, NEW b2, Accords(e, f, a2, b2), NEW a3, NEW b3, Accords(e, f, a3, b3),
           NEW a4, NEW b4, Accords(e, f, a4, b4), NEW a5, NEW b5, Accords(e, f, a5, b5)
    PROVE  Alike(e, f, <<a1, a2, a3, a4, a5>>, <<b1, b2, b3, b4, b5>>)
  BY DEF Alike, Accords

(* A longer sequence is its first three and the others. *)
LEMMA SixAlike ==
    ASSUME NEW e, NEW f, NEW a1, NEW b1, Accords(e, f, a1, b1),
           NEW a2, NEW b2, Accords(e, f, a2, b2), NEW a3, NEW b3, Accords(e, f, a3, b3),
           NEW a4, NEW b4, Accords(e, f, a4, b4), NEW a5, NEW b5, Accords(e, f, a5, b5),
           NEW a6, NEW b6, Accords(e, f, a6, b6)
    PROVE  Alike(e, f, <<a1, a2, a3, a4, a5, a6>>, <<b1, b2, b3, b4, b5, b6>>)
<1>1. /\ <<a1, a2, a3, a4, a5, a6>> = <<a1, a2, a3>> \o <<a4, a5, a6>>
      /\ <<b1, b2, b3, b4, b5, b6>> = <<b1, b2, b3>> \o <<b4, b5, b6>>
  <2>1. /\ a1 \in Verdicts /\ a2 \in Verdicts /\ a3 \in Verdicts
        /\ a4 \in Verdicts /\ a5 \in Verdicts /\ a6 \in Verdicts
        /\ b1 \in Verdicts /\ b2 \in Verdicts /\ b3 \in Verdicts
        /\ b4 \in Verdicts /\ b5 \in Verdicts /\ b6 \in Verdicts
    BY DEF Accords
  <2>2. <<a1, a2, a3, a4, a5, a6>> = <<a1, a2, a3>> \o <<a4, a5, a6>>
    BY <2>1
  <2>3. <<b1, b2, b3, b4, b5, b6>> = <<b1, b2, b3>> \o <<b4, b5, b6>>
    BY <2>1
  <2> QED
    BY <2>2, <2>3
<1> QED
  BY <1>1, ThreeAlike, ConcatAlike

(* The checks of one variable. *)
LEMMA VariableAccords ==
    ASSUME NEW e, NEW f, NEW v \in Vars
    PROVE  /\ Accords(e, f, requiredString(e, v), requiredString(f, v))
           /\ Accords(e, f, requiredPort(e, v), requiredPort(f, v))
           /\ Accords(e, f, positiveInt32(e, v), positiveInt32(f, v))
           /\ Accords(e, f, nonNegativeInt32(e, v), nonNegativeInt32(f, v))
           /\ Accords(e, f, nonNegativeDuration(e, v), nonNegativeDuration(f, v))
           /\ Accords(e, f, loadMaxAge(e, v), loadMaxAge(f, v))
           /\ Accords(e, f, resolveEndpoint(e, v), resolveEndpoint(f, v))
<1>0. {v} \in SUBSET Vars /\ {v} # {}
  OBVIOUS
<1> USE DEF Given, Within, AtLeast
<1>1. Accords(e, f, requiredString(e, v), requiredString(f, v))
  <2> DEFINE P(x) == Given(x, v)
  <2>1. P(e) \in BOOLEAN /\ P(f) \in BOOLEAN /\ (f[v] = e[v] => P(e) = P(f))
    OBVIOUS
  <2>2. requiredString(e, v) = Check({v}, P(e)) /\ requiredString(f, v) = Check({v}, P(f))
    BY DEF requiredString
  <2> HIDE DEF P
  <2> QED
    BY <1>0, <2>1, <2>2, CheckAccords
<1>2. Accords(e, f, requiredPort(e, v), requiredPort(f, v))
  <2> DEFINE P(x) == Given(x, v) /\ Within(x[v], 1, 65535)
  <2>1. P(e) \in BOOLEAN /\ P(f) \in BOOLEAN /\ (f[v] = e[v] => P(e) = P(f))
    OBVIOUS
  <2>2. requiredPort(e, v) = Check({v}, P(e)) /\ requiredPort(f, v) = Check({v}, P(f))
    BY DEF requiredPort
  <2> HIDE DEF P
  <2> QED
    BY <1>0, <2>1, <2>2, CheckAccords
<1>3. Accords(e, f, positiveInt32(e, v), positiveInt32(f, v))
  <2> DEFINE P(x) == Given(x, v) => AtLeast(x[v], 1)
  <2>1. P(e) \in BOOLEAN /\ P(f) \in BOOLEAN /\ (f[v] = e[v] => P(e) = P(f))
    OBVIOUS
  <2>2. positiveInt32(e, v) = Check({v}, P(e)) /\ positiveInt32(f, v) = Check({v}, P(f))
    BY DEF positiveInt32
  <2> HIDE DEF P
  <2> QED
    BY <1>0, <2>1, <2>2, CheckAccords
<1>4. Accords(e, f, nonNegativeInt32(e, v), nonNegativeInt32(f, v))
  <2> DEFINE P(x) == Given(x, v) => AtLeast(x[v], 0)
  <2>1. P(e) \in BOOLEAN /\ P(f) \in BOOLEAN /\ (f[v] = e[v] => P(e) = P(f))
    OBVIOUS
  <2>2. nonNegativeInt32(e, v) = Check({v}, P(e)) /\ nonNegativeInt32(f, v) = Check({v}, P(f))
    BY DEF nonNegativeInt32
  <2> HIDE DEF P
  <2> QED
    BY <1>0, <2>1, <2>2, CheckAccords
<1>5. Accords(e, f, nonNegativeDuration(e, v), nonNegativeDuration(f, v))
  <2> DEFINE P(x) == Given(x, v) => x[v] = Dec(0) \/ (Kind(x[v]) = "span" /\ x[v][2] >= 0)
  <2>1. P(e) \in BOOLEAN /\ P(f) \in BOOLEAN /\ (f[v] = e[v] => P(e) = P(f))
    OBVIOUS
  <2>2. nonNegativeDuration(e, v) = Check({v}, P(e)) /\ nonNegativeDuration(f, v) = Check({v}, P(f))
    BY DEF nonNegativeDuration
  <2> HIDE DEF P
  <2> QED
    BY <1>0, <2>1, <2>2, CheckAccords
<1>6. Accords(e, f, loadMaxAge(e, v), loadMaxAge(f, v))
  <2> DEFINE P(x) == Given(x, v) => Within(x[v], 0, 86400)
  <2>1. P(e) \in BOOLEAN /\ P(f) \in BOOLEAN /\ (f[v] = e[v] => P(e) = P(f))
    OBVIOUS
  <2>2. loadMaxAge(e, v) = Check({v}, P(e)) /\ loadMaxAge(f, v) = Check({v}, P(f))
    BY DEF loadMaxAge
  <2> HIDE DEF P
  <2> QED
    BY <1>0, <2>1, <2>2, CheckAccords
<1>7. Accords(e, f, resolveEndpoint(e, v), resolveEndpoint(f, v))
  <2> DEFINE P(x) == Given(x, v) => Kind(x[v]) = "url" /\ x[v][2] # "" /\ x[v][3] # ""
  <2>1. P(e) \in BOOLEAN /\ P(f) \in BOOLEAN /\ (f[v] = e[v] => P(e) = P(f))
    OBVIOUS
  <2>2. resolveEndpoint(e, v) = Check({v}, P(e)) /\ resolveEndpoint(f, v) = Check({v}, P(f))
    BY DEF resolveEndpoint
  <2> HIDE DEF P
  <2> QED
    BY <1>0, <2>1, <2>2, CheckAccords
<1> QED
  BY <1>1, <1>2, <1>3, <1>4, <1>5, <1>6, <1>7

LEMMA NamedAccords ==
    ASSUME NEW e, NEW f
    PROVE  /\ Accords(e, f, loadEnv(e), loadEnv(f))
           /\ Accords(e, f, loadPort(e), loadPort(f))
           /\ Accords(e, f, loadSSLMode(e), loadSSLMode(f))
           /\ Accords(e, f, FormatFromEnv(e), FormatFromEnv(f))
<1>1. Accords(e, f, loadEnv(e), loadEnv(f))
  <2> DEFINE v == "CORE_ENV"
             P(x) == x[v] \in EnvNames
  <2>1. P(e) \in BOOLEAN /\ P(f) \in BOOLEAN /\ (f[v] = e[v] => P(e) = P(f))
    BY DEF Given, Within
  <2>2. loadEnv(e) = Check({v}, P(e)) /\ loadEnv(f) = Check({v}, P(f))
    BY DEF loadEnv
  <2>3. {v} \in SUBSET Vars /\ {v} # {}
    BY Names
  <2> HIDE DEF P
  <2> QED
    BY <2>1, <2>2, <2>3, CheckAccords
<1>2. Accords(e, f, loadPort(e), loadPort(f))
  <2> DEFINE v == "CORE_PORT"
             P(x) == Given(x, v) => Within(x[v], 1, 65535)
  <2>1. P(e) \in BOOLEAN /\ P(f) \in BOOLEAN /\ (f[v] = e[v] => P(e) = P(f))
    BY DEF Given, Within
  <2>2. loadPort(e) = Check({v}, P(e)) /\ loadPort(f) = Check({v}, P(f))
    BY DEF loadPort
  <2>3. {v} \in SUBSET Vars /\ {v} # {}
    BY Names
  <2> HIDE DEF P
  <2> QED
    BY <2>1, <2>2, <2>3, CheckAccords
<1>3. Accords(e, f, loadSSLMode(e), loadSSLMode(f))
  <2> DEFINE v == "CORE_DB_SSLMODE"
             P(x) == Given(x, v) => x[v] \in SSLModes
  <2>1. P(e) \in BOOLEAN /\ P(f) \in BOOLEAN /\ (f[v] = e[v] => P(e) = P(f))
    BY DEF Given, Within
  <2>2. loadSSLMode(e) = Check({v}, P(e)) /\ loadSSLMode(f) = Check({v}, P(f))
    BY DEF loadSSLMode
  <2>3. {v} \in SUBSET Vars /\ {v} # {}
    BY Names
  <2> HIDE DEF P
  <2> QED
    BY <2>1, <2>2, <2>3, CheckAccords
<1>4. Accords(e, f, FormatFromEnv(e), FormatFromEnv(f))
  <2> DEFINE v == "CORE_LOG_FORMAT"
             P(x) == Given(x, v) => x[v] \in {Word("json"), Word("text")}
  <2>1. P(e) \in BOOLEAN /\ P(f) \in BOOLEAN /\ (f[v] = e[v] => P(e) = P(f))
    BY DEF Given, Within
  <2>2. FormatFromEnv(e) = Check({v}, P(e)) /\ FormatFromEnv(f) = Check({v}, P(f))
    BY DEF FormatFromEnv
  <2>3. {v} \in SUBSET Vars /\ {v} # {}
    BY Names
  <2> HIDE DEF P
  <2> QED
    BY <2>1, <2>2, <2>3, CheckAccords
<1> QED
  BY <1>1, <1>2, <1>3, <1>4

(* The checks of several variables. *)
LEMMA BoundsAccord ==
    ASSUME NEW e, NEW f
    PROVE  Accords(e, f, minWithinMax(e), minWithinMax(f))
<1> DEFINE P(x) == Int32Or(x, "CORE_DB_POOL_MIN_CONNS") <= Int32Or(x, "CORE_DB_POOL_MAX_CONNS")
<1>1. P(e) \in BOOLEAN /\ P(f) \in BOOLEAN
  OBVIOUS
<1>2. (\A v \in Bounds : f[v] = e[v]) => P(e) = P(f)
  BY DEF Bounds, Int32Or, Given
<1>3. minWithinMax(e) = Check(Bounds, P(e)) /\ minWithinMax(f) = Check(Bounds, P(f))
  BY DEF minWithinMax
<1>4. Bounds \in SUBSET Vars /\ Bounds # {}
  BY Names DEF Bounds
<1> HIDE DEF P
<1> QED
  BY <1>1, <1>2, <1>3, <1>4, CheckAccords

LEMMA IssuerAccords ==
    ASSUME NEW e, NEW f
    PROVE  Alike(e, f, loadIssuer(e), loadIssuer(f))
<1> DEFINE v == "CORE_OIDC_ISSUER"
           scheme(x) == IF Kind(x[v]) = "url" THEN x[v][2] ELSE ""
           P(x) == scheme(x) \in {"http", "https"}
           Q(x) == scheme(x) = "http" => Is(x, "dev")
           R(x) == Kind(x[v]) = "url" /\ x[v][3] # ""
<1>1. /\ P(e) \in BOOLEAN /\ P(f) \in BOOLEAN /\ (f[v] = e[v] => P(e) = P(f))
      /\ R(e) \in BOOLEAN /\ R(f) \in BOOLEAN /\ (f[v] = e[v] => R(e) = R(f))
  <2>1. P(e) \in BOOLEAN /\ P(f) \in BOOLEAN /\ R(e) \in BOOLEAN /\ R(f) \in BOOLEAN
    OBVIOUS
  <2>2. ASSUME f[v] = e[v] PROVE P(e) = P(f) /\ R(e) = R(f)
    BY <2>2, Zenon
  <2> QED
    BY <2>1, <2>2
<1>2. /\ Q(e) \in BOOLEAN /\ Q(f) \in BOOLEAN
      /\ f[v] = e[v] /\ f["CORE_ENV"] = e["CORE_ENV"] => Q(e) = Q(f)
  BY DEF Is
<1>3. ASSUME NEW x
      PROVE  loadIssuer(x) = <<Check({v}, P(x)), Check({v, "CORE_ENV"}, Q(x)), Check({v}, R(x))>>
  BY DEF loadIssuer
<1>4. /\ {v} \in SUBSET Vars /\ {v, "CORE_ENV"} \in SUBSET Vars
      /\ {v} # {} /\ {v, "CORE_ENV"} # {}
  BY Names
<1> HIDE DEF P, Q, R
<1>5. /\ Accords(e, f, Check({v}, P(e)), Check({v}, P(f)))
      /\ Accords(e, f, Check({v}, R(e)), Check({v}, R(f)))
  BY <1>1, <1>4, CheckAccords
<1>6. Accords(e, f, Check({v, "CORE_ENV"}, Q(e)), Check({v, "CORE_ENV"}, Q(f)))
  BY <1>2, <1>4, CheckAccords
<1> QED
  BY <1>3, <1>5, <1>6, ThreeAlike

LEMMA KeySourceAccords ==
    ASSUME NEW e, NEW f
    PROVE  Alike(e, f, loadKeySource(e), loadKeySource(f))
<1> DEFINE key == "CORE_OIDC_KEY_FILE"
           dev == "CORE_OIDC_DEV_GENERATE_KEY"
           P(x) == Given(x, dev) => x[dev] \in {Dec(0), Dec(1)}
           Q(x) == ~(Is(x, "prod") /\ devGen(x))
           R(x) == Is(x, "prod") => Given(x, key)
           S(x) == Given(x, key) \/ devGen(x)
           T(x) == ~(Given(x, key) /\ devGen(x))
<1>1. /\ P(e) \in BOOLEAN /\ P(f) \in BOOLEAN /\ (f[dev] = e[dev] => P(e) = P(f))
      /\ Q(e) \in BOOLEAN /\ Q(f) \in BOOLEAN /\ R(e) \in BOOLEAN /\ R(f) \in BOOLEAN
      /\ S(e) \in BOOLEAN /\ S(f) \in BOOLEAN /\ T(e) \in BOOLEAN /\ T(f) \in BOOLEAN
  BY DEF Given, Is, devGen
<1>2. /\ f[dev] = e[dev] /\ f["CORE_ENV"] = e["CORE_ENV"] => Q(e) = Q(f)
      /\ f[key] = e[key] /\ f["CORE_ENV"] = e["CORE_ENV"] => R(e) = R(f)
      /\ f[key] = e[key] /\ f[dev] = e[dev] => S(e) = S(f) /\ T(e) = T(f)
  BY DEF Given, Is, devGen
<1>3. ASSUME NEW x
      PROVE  loadKeySource(x) =
                << Check({dev}, P(x)), Check({dev, "CORE_ENV"}, Q(x)),
                   Check({key, "CORE_ENV"}, R(x)), Check({key, dev, "CORE_ENV"}, S(x)),
                   Check({key, dev}, T(x)) >>
  BY DEF loadKeySource, keyFileOrDevGen
<1>4. {key, dev, "CORE_ENV"} \subseteq Vars
  BY Names
<1> HIDE DEF P, Q, R, S, T
<1>5. Accords(e, f, Check({dev}, P(e)), Check({dev}, P(f)))
  BY <1>1, <1>4, CheckAccords
<1>6. Accords(e, f, Check({dev, "CORE_ENV"}, Q(e)), Check({dev, "CORE_ENV"}, Q(f)))
  BY <1>1, <1>2, <1>4, CheckAccords
<1>7. Accords(e, f, Check({key, "CORE_ENV"}, R(e)), Check({key, "CORE_ENV"}, R(f)))
  BY <1>1, <1>2, <1>4, CheckAccords
<1>8. Accords(e, f, Check({key, dev, "CORE_ENV"}, S(e)), Check({key, dev, "CORE_ENV"}, S(f)))
  BY <1>1, <1>2, <1>4, CheckAccords
<1>9. Accords(e, f, Check({key, dev}, T(e)), Check({key, dev}, T(f)))
  BY <1>1, <1>2, <1>4, CheckAccords
<1> QED
  BY <1>3, <1>5, <1>6, <1>7, <1>8, <1>9, FiveAlike

LEMMA DatabaseAccords ==
    ASSUME NEW e, NEW f
    PROVE  Alike(e, f, loadDatabase(e), loadDatabase(f))
<1> DEFINE First(x) ==
             << requiredString(x, "CORE_DB_HOST"), requiredPort(x, "CORE_DB_PORT"),
                requiredString(x, "CORE_DB_USER"), requiredString(x, "CORE_DB_PASSWORD"),
                requiredString(x, "CORE_DB_NAME"), loadSSLMode(x) >>
           Second(x) ==
             << positiveInt32(x, "CORE_DB_POOL_MAX_CONNS"),
                nonNegativeInt32(x, "CORE_DB_POOL_MIN_CONNS"), minWithinMax(x),
                nonNegativeDuration(x, "CORE_DB_POOL_MAX_CONN_LIFETIME"),
                nonNegativeDuration(x, "CORE_DB_POOL_MAX_CONN_IDLE_TIME"),
                nonNegativeDuration(x, "CORE_DB_POOL_HEALTH_CHECK_PERIOD") >>
<1>1. /\ Accords(e, f, requiredString(e, "CORE_DB_HOST"), requiredString(f, "CORE_DB_HOST"))
      /\ Accords(e, f, requiredPort(e, "CORE_DB_PORT"), requiredPort(f, "CORE_DB_PORT"))
      /\ Accords(e, f, requiredString(e, "CORE_DB_USER"), requiredString(f, "CORE_DB_USER"))
      /\ Accords(e, f, requiredString(e, "CORE_DB_PASSWORD"), requiredString(f, "CORE_DB_PASSWORD"))
      /\ Accords(e, f, requiredString(e, "CORE_DB_NAME"), requiredString(f, "CORE_DB_NAME"))
      /\ Accords(e, f, loadSSLMode(e), loadSSLMode(f))
  BY Names, VariableAccords, NamedAccords
<1>2. LET max == "CORE_DB_POOL_MAX_CONNS"
          min == "CORE_DB_POOL_MIN_CONNS"
          life == "CORE_DB_POOL_MAX_CONN_LIFETIME"
          idle == "CORE_DB_POOL_MAX_CONN_IDLE_TIME"
          period == "CORE_DB_POOL_HEALTH_CHECK_PERIOD"
      IN /\ Accords(e, f, positiveInt32(e, max), positiveInt32(f, max))
         /\ Accords(e, f, nonNegativeInt32(e, min), nonNegativeInt32(f, min))
         /\ Accords(e, f, minWithinMax(e), minWithinMax(f))
         /\ Accords(e, f, nonNegativeDuration(e, life), nonNegativeDuration(f, life))
         /\ Accords(e, f, nonNegativeDuration(e, idle), nonNegativeDuration(f, idle))
         /\ Accords(e, f, nonNegativeDuration(e, period), nonNegativeDuration(f, period))
  BY Names, VariableAccords, BoundsAccord
<1>3. Alike(e, f, First(e), First(f))
  BY <1>1, SixAlike
<1>4. Alike(e, f, Second(e), Second(f))
  BY <1>2, SixAlike
<1>5. loadDatabase(e) = First(e) \o Second(e)
  <2>1. \A i \in 1 .. 6 : First(e)[i] \in Verdicts /\ Second(e)[i] \in Verdicts
    BY <1>1, <1>2 DEF Accords
  <2> QED
    BY <2>1 DEF loadDatabase
<1>6. loadDatabase(f) = First(f) \o Second(f)
  <2>1. \A i \in 1 .. 6 : First(f)[i] \in Verdicts /\ Second(f)[i] \in Verdicts
    BY <1>1, <1>2 DEF Accords
  <2> QED
    BY <2>1 DEF loadDatabase
<1> HIDE DEF First, Second
<1> QED
  BY <1>3, <1>4, <1>5, <1>6, ConcatAlike

LEMMA OIDCAccords ==
    ASSUME NEW e, NEW f
    PROVE  Alike(e, f, loadOIDC(e), loadOIDC(f))
<1> DEFINE Rest(x) ==
             << loadMaxAge(x, "CORE_OIDC_JWKS_MAX_AGE"),
                loadMaxAge(x, "CORE_OIDC_DISCOVERY_MAX_AGE"),
                resolveEndpoint(x, "CORE_OIDC_AUTHORIZATION_ENDPOINT"),
                resolveEndpoint(x, "CORE_OIDC_TOKEN_ENDPOINT"),
                resolveEndpoint(x, "CORE_OIDC_USERINFO_ENDPOINT"),
                resolveEndpoint(x, "CORE_OIDC_JWKS_URI") >>
<1>1. LET age1 == "CORE_OIDC_JWKS_MAX_AGE"
          age2 == "CORE_OIDC_DISCOVERY_MAX_AGE"
          end1 == "CORE_OIDC_AUTHORIZATION_ENDPOINT"
          end2 == "CORE_OIDC_TOKEN_ENDPOINT"
          end3 == "CORE_OIDC_USERINFO_ENDPOINT"
          end4 == "CORE_OIDC_JWKS_URI"
      IN /\ Accords(e, f, loadMaxAge(e, age1), loadMaxAge(f, age1))
         /\ Accords(e, f, loadMaxAge(e, age2), loadMaxAge(f, age2))
         /\ Accords(e, f, resolveEndpoint(e, end1), resolveEndpoint(f, end1))
         /\ Accords(e, f, resolveEndpoint(e, end2), resolveEndpoint(f, end2))
         /\ Accords(e, f, resolveEndpoint(e, end3), resolveEndpoint(f, end3))
         /\ Accords(e, f, resolveEndpoint(e, end4), resolveEndpoint(f, end4))
  BY Names, VariableAccords
<1>2. Alike(e, f, Rest(e), Rest(f))
  BY <1>1, SixAlike
<1>3. \A x : loadOIDC(x) = (loadIssuer(x) \o loadKeySource(x)) \o Rest(x)
  BY DEF loadOIDC
<1> HIDE DEF Rest
<1>4. Alike(e, f, loadIssuer(e) \o loadKeySource(e), loadIssuer(f) \o loadKeySource(f))
  BY IssuerAccords, KeySourceAccords, ConcatAlike
<1> QED
  BY <1>2, <1>3, <1>4, ConcatAlike

LEMMA ChecksAccord ==
    ASSUME NEW e, NEW f
    PROVE  Alike(e, f, Checks(e), Checks(f))
<1>1. Alike(e, f, <<loadEnv(e), loadPort(e)>>, <<loadEnv(f), loadPort(f)>>)
  BY NamedAccords, TwoAlike
<1>2. Alike(e, f, <<FormatFromEnv(e)>>, <<FormatFromEnv(f)>>)
  BY NamedAccords, OneAlike
<1>3. Alike(e, f, <<loadEnv(e), loadPort(e)>> \o loadDatabase(e),
                  <<loadEnv(f), loadPort(f)>> \o loadDatabase(f))
  BY <1>1, DatabaseAccords, ConcatAlike
<1>4. Alike(e, f, <<loadEnv(e), loadPort(e)>> \o loadDatabase(e) \o loadOIDC(e),
                  <<loadEnv(f), loadPort(f)>> \o loadDatabase(f) \o loadOIDC(f))
  BY <1>3, OIDCAccords, ConcatAlike
<1>5. Alike(e, f,
        <<loadEnv(e), loadPort(e)>> \o loadDatabase(e) \o loadOIDC(e) \o <<FormatFromEnv(e)>>,
        <<loadEnv(f), loadPort(f)>> \o loadDatabase(f) \o loadOIDC(f) \o <<FormatFromEnv(f)>>)
  BY <1>2, <1>4, ConcatAlike
<1> QED
  BY <1>5 DEF Checks

---------------------------------------------------------------------------
(* How bootstrap() ends.                                                    *)

LEMMA Least ==
    ASSUME NEW S \in SUBSET Nat, S # {}
    PROVE  Min(S) \in S
<1> DEFINE R == {ss \in Nat \X Nat : ss[1] < ss[2]}
<1>1. IsWellFoundedOn(R, Nat)
  BY NatLessThanWellFounded DEF OpToRel
<1> HIDE DEF R
<1>2. PICK n \in S : \A m \in S : <<m, n>> \notin R
  BY <1>1, WFMin
<1>3. \A m \in S : n <= m
  <2> SUFFICES ASSUME NEW m \in S, ~(n <= m) PROVE FALSE
    OBVIOUS
  <2>1. m \in Nat /\ n \in Nat /\ m < n
    OBVIOUS
  <2>2. <<m, n>> \in R
    BY <2>1 DEF R
  <2> QED
    BY <1>2, <2>2
<1> QED
  BY <1>3 DEF Min

LEMMA Ends ==
    ASSUME NEW e
    PROVE  \/ /\ \A i \in DOMAIN Checks(e) : Checks(e)[i].ok
              /\ Bootstrap(e) = [blame |-> {}, config |-> Config(e)]
           \/ \E i \in DOMAIN Checks(e) : /\ ~Checks(e)[i].ok
                                         /\ Bootstrap(e) = [blame |-> Checks(e)[i].blame]
<1> DEFINE c == Checks(e)
<1>1. c \in Seq(Verdicts)
  BY ChecksAccord DEF Alike
<1>2. Bootstrap(e) = IF Refusals(c) = {} THEN [blame |-> {}, config |-> Config(e)]
                     ELSE [blame |-> c[Min(Refusals(c))].blame]
  BY DEF Bootstrap
<1> HIDE DEF c
<1>3. Refusals(c) \subseteq DOMAIN c /\ DOMAIN c \subseteq Nat
  BY <1>1, LenProperties DEF Refusals
<1>4. CASE Refusals(c) = {}
  BY <1>2, <1>4 DEF Refusals, c
<1>5. CASE Refusals(c) # {}
  <2>1. Min(Refusals(c)) \in Refusals(c)
    BY <1>3, <1>5, Least
  <2>2. Bootstrap(e) = [blame |-> c[Min(Refusals(c))].blame]
    BY <1>2, <1>5
  <2> QED
    BY <2>1, <2>2 DEF Refusals, c
<1> QED
  BY <1>4, <1>5

(* One who changes nothing that a refusal names is refused again. *)
LEMMA StillRefused ==
    ASSUME NEW e, NEW f, Bootstrap(e).blame # {},
           \A v \in Bootstrap(e).blame : f[v] = e[v]
    PROVE  Bootstrap(f).blame # {}
<1>1. /\ Alike(e, f, Checks(e), Checks(f))
      /\ DOMAIN Checks(e) = 1 .. Len(Checks(e)) /\ DOMAIN Checks(f) = 1 .. Len(Checks(e))
  <2>1. Alike(e, f, Checks(e), Checks(f))
    BY ChecksAccord
  <2>2. DOMAIN Checks(e) = 1 .. Len(Checks(e))
    BY <2>1, LenProperties DEF Alike
  <2>3. DOMAIN Checks(f) = 1 .. Len(Checks(f))
    BY <2>1, LenProperties DEF Alike
  <2> QED
    BY <2>1, <2>2, <2>3 DEF Alike
<1>2. PICK i \in DOMAIN Checks(e) : /\ ~Checks(e)[i].ok
                                   /\ Bootstrap(e).blame = Checks(e)[i].blame
  BY Ends
<1>3. i \in DOMAIN Checks(f) /\ ~Checks(f)[i].ok
  BY <1>1, <1>2 DEF Alike, Accords
<1>4. PICK j \in DOMAIN Checks(f) : Bootstrap(f) = [blame |-> Checks(f)[j].blame]
  BY <1>3, Ends
<1>5. Checks(f)[j].blame # {}
  BY <1>1 DEF Alike, Accords
<1> QED
  BY <1>4, <1>5

(* A refusal names all that its reason rests on: whatever else is changed, the
   process is refused again, for any values of the variables. *)
THEOREM BlameCorrect == Spec => BlameIsComplete
<1>1. run = Bootstrap(env) /\ (run = Bootstrap(env))' =>
         [~Started /\ (\A v \in run.blame : env'[v] = env[v]) => ~Started']_vars
  BY StillRefused DEF Started
<1> QED
  BY <1>1, AlwaysBootstrapped, PTL DEF BlameIsComplete

---------------------------------------------------------------------------
(* What an accepted environment means.                                      *)

Passes(s) == \A i \in DOMAIN s : s[i].ok

LEMMA ConcatPasses ==
    ASSUME NEW s \in Seq(Verdicts), NEW t \in Seq(Verdicts), Passes(s \o t)
    PROVE  Passes(s) /\ Passes(t)
<1>1. /\ Len(s) \in Nat /\ DOMAIN s = 1 .. Len(s)
      /\ Len(t) \in Nat /\ DOMAIN t = 1 .. Len(t)
  BY LenProperties
<1>2. s \o t \in Seq(Verdicts) /\ Len(s \o t) = Len(s) + Len(t)
  BY ConcatProperties
<1>3. DOMAIN (s \o t) = 1 .. Len(s) + Len(t)
  BY <1>2, LenProperties
<1>4. ASSUME NEW i \in DOMAIN s PROVE s[i].ok
  <2>1. i \in DOMAIN (s \o t) /\ (s \o t)[i] = s[i]
    BY <1>1, <1>3, ConcatProperties
  <2> QED
    BY <2>1 DEF Passes
<1>5. ASSUME NEW i \in DOMAIN t PROVE t[i].ok
  <2>1. i + Len(s) \in DOMAIN (s \o t) /\ ~(i + Len(s) <= Len(s)) /\ (i + Len(s)) - Len(s) = i
    BY <1>1, <1>3
  <2>2. (s \o t)[i + Len(s)] = t[i]
    BY <1>3, <2>1, ConcatProperties
  <2> QED
    BY <2>1, <2>2 DEF Passes
<1> QED
  BY <1>4, <1>5 DEF Passes

(* What the checks that TypeOK rests on have found. *)
LEMMA Passed ==
    ASSUME NEW e, Passes(Checks(e))
    PROVE  /\ loadEnv(e).ok
           /\ requiredString(e, "CORE_DB_HOST").ok /\ requiredPort(e, "CORE_DB_PORT").ok
           /\ requiredString(e, "CORE_DB_USER").ok /\ requiredString(e, "CORE_DB_PASSWORD").ok
           /\ requiredString(e, "CORE_DB_NAME").ok
           /\ positiveInt32(e, "CORE_DB_POOL_MAX_CONNS").ok
           /\ nonNegativeInt32(e, "CORE_DB_POOL_MIN_CONNS").ok
           /\ minWithinMax(e).ok
           /\ \A v \in DurationVars : nonNegativeDuration(e, v).ok
           /\ \A v \in AgeVars : loadMaxAge(e, v).ok
           /\ loadPort(e).ok
           /\ loadIssuer(e)[1].ok
           /\ \A i \in 1 .. 5 : loadKeySource(e)[i].ok
<1> DEFINE s1 == <<loadEnv(e), loadPort(e)>>
           s2 == s1 \o loadDatabase(e)
           s3 == s2 \o loadOIDC(e)
           s4 == <<FormatFromEnv(e)>>
<1>1. s1 \in Seq(Verdicts) /\ s4 \in Seq(Verdicts)
  BY NamedAccords DEF Accords
<1>2. loadDatabase(e) \in Seq(Verdicts) /\ loadOIDC(e) \in Seq(Verdicts)
  BY DatabaseAccords, OIDCAccords DEF Alike
<1>3. s2 \in Seq(Verdicts)
  BY <1>1, <1>2, ConcatProperties
<1>4. s3 \in Seq(Verdicts)
  BY <1>2, <1>3, ConcatProperties
<1>5. Passes(s3 \o s4)
  BY DEF Checks
<1> HIDE DEF s3, s4
<1>6. Passes(s3)
  BY <1>1, <1>4, <1>5, ConcatPasses
<1>7. Passes(s2) /\ Passes(loadOIDC(e))
  <2> HIDE DEF s2
  <2> QED
    BY <1>2, <1>3, <1>6, ConcatPasses DEF s3
<1>8. Passes(s1) /\ Passes(loadDatabase(e))
  <2> HIDE DEF s1
  <2> QED
    BY <1>1, <1>2, <1>7, ConcatPasses DEF s2
<1>9. loadEnv(e).ok /\ loadPort(e).ok
  BY <1>8 DEF Passes
<1>10. \A i \in 1 .. 12 : loadDatabase(e)[i].ok
  <2>1. DOMAIN loadDatabase(e) = 1 .. 12
    BY DEF loadDatabase
  <2> QED
    BY <1>8, <2>1 DEF Passes
<1>11. /\ requiredString(e, "CORE_DB_HOST").ok /\ requiredPort(e, "CORE_DB_PORT").ok
       /\ requiredString(e, "CORE_DB_USER").ok /\ requiredString(e, "CORE_DB_PASSWORD").ok
       /\ requiredString(e, "CORE_DB_NAME").ok
       /\ positiveInt32(e, "CORE_DB_POOL_MAX_CONNS").ok
       /\ nonNegativeInt32(e, "CORE_DB_POOL_MIN_CONNS").ok
       /\ minWithinMax(e).ok
       /\ \A v \in DurationVars : nonNegativeDuration(e, v).ok
  BY <1>10 DEF loadDatabase, DurationVars
<1>12. /\ loadIssuer(e)[1].ok
       /\ \A i \in 1 .. 5 : loadKeySource(e)[i].ok
       /\ \A v \in AgeVars : loadMaxAge(e, v).ok
  <2> DEFINE s5 == loadIssuer(e) \o loadKeySource(e)
             s6 == << loadMaxAge(e, "CORE_OIDC_JWKS_MAX_AGE"),
                      loadMaxAge(e, "CORE_OIDC_DISCOVERY_MAX_AGE"),
                      resolveEndpoint(e, "CORE_OIDC_AUTHORIZATION_ENDPOINT"),
                      resolveEndpoint(e, "CORE_OIDC_TOKEN_ENDPOINT"),
                      resolveEndpoint(e, "CORE_OIDC_USERINFO_ENDPOINT"),
                      resolveEndpoint(e, "CORE_OIDC_JWKS_URI") >>
  <2>1. loadIssuer(e) \in Seq(Verdicts) /\ loadKeySource(e) \in Seq(Verdicts)
    BY IssuerAccords, KeySourceAccords DEF Alike
  <2>2. s5 \in Seq(Verdicts)
    BY <2>1, ConcatProperties
  <2>3. s6 \in Seq(Verdicts)
    <3>1. /\ "CORE_OIDC_JWKS_MAX_AGE" \in Vars /\ "CORE_OIDC_DISCOVERY_MAX_AGE" \in Vars
          /\ "CORE_OIDC_AUTHORIZATION_ENDPOINT" \in Vars /\ "CORE_OIDC_TOKEN_ENDPOINT" \in Vars
          /\ "CORE_OIDC_USERINFO_ENDPOINT" \in Vars /\ "CORE_OIDC_JWKS_URI" \in Vars
      BY Names
    <3>2. \A v \in Vars : loadMaxAge(e, v) \in Verdicts /\ resolveEndpoint(e, v) \in Verdicts
      BY VariableAccords DEF Accords
    <3> QED
      BY <3>1, <3>2
  <2>4. Passes(s5 \o s6)
    BY <1>7 DEF loadOIDC
  <2>5. Passes(s5) /\ Passes(s6)
    <3> HIDE DEF s5, s6
    <3> QED
      BY <2>2, <2>3, <2>4, ConcatPasses
  <2>6. Passes(loadIssuer(e)) /\ Passes(loadKeySource(e))
    BY <2>1, <2>5, ConcatPasses
  <2>7. 1 \in DOMAIN loadIssuer(e) /\ DOMAIN loadKeySource(e) = 1 .. 5
    BY DEF loadIssuer, loadKeySource
  <2>8. \A v \in AgeVars : loadMaxAge(e, v).ok
    <3>1. s6[1].ok /\ s6[2].ok
      BY <2>5 DEF Passes
    <3> QED
      BY <3>1 DEF AgeVars
  <2> QED
    BY <2>6, <2>7, <2>8 DEF Passes
<1> QED
  BY <1>9, <1>11, <1>12

LEMMA AcceptedIsComplete ==
    ASSUME NEW e, Passes(Checks(e)), NEW v \in Required
    PROVE  Config(e)[v] \notin {Unset, Empty}
<1>1. v \in Vars /\ Config(e)[v] = Meaning(e, v)
  BY DEF Vars, Config
<1>2. CASE v \in {"CORE_DB_HOST", "CORE_DB_PORT", "CORE_DB_USER", "CORE_DB_PASSWORD", "CORE_DB_NAME"}
  <2>1. /\ requiredString(e, "CORE_DB_HOST").ok /\ requiredPort(e, "CORE_DB_PORT").ok
        /\ requiredString(e, "CORE_DB_USER").ok /\ requiredString(e, "CORE_DB_PASSWORD").ok
        /\ requiredString(e, "CORE_DB_NAME").ok
    BY Passed
  <2>2. \A w : (requiredString(e, w).ok => Given(e, w)) /\ (requiredPort(e, w).ok => Given(e, w))
    <3> TAKE w
    <3>1. requiredString(e, w).ok => Given(e, w)
      BY DEF requiredString, Check, Given
    <3>2. requiredPort(e, w).ok => Given(e, w)
      <4> DEFINE p == Given(e, w) /\ Within(e[w], 1, 65535)
      <4>1. p \in BOOLEAN
        OBVIOUS
      <4>2. p => Given(e, w)
        OBVIOUS
      <4>3. requiredPort(e, w).ok = p
        <5>1. requiredPort(e, w) = [blame |-> {w}, ok |-> p]
          BY DEF requiredPort, Check
        <5> HIDE DEF p
        <5> QED
          BY <5>1
      <4> HIDE DEF p
      <4> QED
        BY <4>1, <4>2, <4>3
    <3> QED
      BY <3>1, <3>2
  <2>3. Given(e, v)
    BY <1>2, <2>1, <2>2
  <2> QED
    BY <1>1, <1>2, <2>3 DEF Meaning, Given
<1>3. CASE v = "CORE_ENV"
  <2>1. loadEnv(e).ok
    BY Passed
  <2>2. e[v] \in EnvNames
    BY <1>3, <2>1 DEF loadEnv, Check
  <2>3. Kind(e[v]) = "word"
    BY <2>2 DEF EnvNames, Word, Kind
  <2>4. Given(e, v)
    BY <2>3, Kinds DEF Given
  <2> QED
    BY <1>1, <1>3, <2>4 DEF Meaning, Given
<1>4. CASE v = "CORE_OIDC_ISSUER"
  <2>1. Kind(e[v]) = "url"
    BY <1>4, Passed DEF loadIssuer, Check
  <2>2. Given(e, v)
    BY <2>1, Kinds DEF Given
  <2>3. Meaning(e, v) = Url(e[v][2], e[v][3], 0)
    BY <1>4, <2>1, <2>2 DEF Meaning, Issuer, TrimRight
  <2>4. Kind(Meaning(e, v)) = "url"
    BY <2>3 DEF Kind, Url
  <2> QED
    BY <1>1, <2>4, Kinds
<1> QED
  BY <1>2, <1>3, <1>4 DEF Required

LEMMA AcceptedPoolFits ==
    ASSUME NEW e, \A v \in Vars : e[v] \in Values[v], Passes(Checks(e))
    PROVE  PoolFits(Config(e))
<1> DEFINE min == "CORE_DB_POOL_MIN_CONNS"
           max == "CORE_DB_POOL_MAX_CONNS"
<1>1. /\ min \in Vars /\ max \in Vars /\ Bounds = {min, max}
      /\ Config(e)[min] = Meaning(e, min) /\ Config(e)[max] = Meaning(e, max)
  BY Names DEF Config, Bounds
<1>2. /\ Meaning(e, min) = IF Given(e, min) THEN e[min] ELSE Dec(1)
      /\ Meaning(e, max) = IF Given(e, max) THEN e[max] ELSE Dec(10)
  BY DEF Meaning, Paths, Defaults
<1>3. /\ Given(e, min) => Kind(e[min]) = "int" /\ e[min][2] >= 0
      /\ Given(e, max) => Kind(e[max]) = "int" /\ e[max][2] >= 1 /\ e[max][2] <= MaxInt32
      /\ Int32Or(e, min) <= Int32Or(e, max)
  BY Passed DEF nonNegativeInt32, positiveInt32, minWithinMax, Check, AtLeast, Within
<1>4. /\ Given(e, min) => e[min][2] \in Int
      /\ Given(e, max) => e[max][2] \in Int
  BY <1>1, <1>3, ConfigurationAssumption
<1>5. /\ Kind(Dec(1)) = "int" /\ Dec(1)[2] = 1 /\ Kind(Dec(10)) = "int" /\ Dec(10)[2] = 10
      /\ 10 <= MaxInt32
  BY DEF Kind, Dec, MaxInt32
<1>6. /\ Int32Or(e, min) = Meaning(e, min)[2] /\ Int32Or(e, max) = Meaning(e, max)[2]
  BY <1>2, <1>3 DEF Int32Or, Defaults
<1>7. /\ Kind(Meaning(e, min)) = "int" /\ Kind(Meaning(e, max)) = "int"
      /\ Meaning(e, min)[2] >= 0 /\ Meaning(e, max)[2] >= 1 /\ Meaning(e, max)[2] <= MaxInt32
  BY <1>2, <1>3, <1>4, <1>5
<1> QED
  BY <1>1, <1>3, <1>6, <1>7 DEF PoolFits, Within

LEMMA CheckHolds ==
    ASSUME NEW b, NEW p \in BOOLEAN, Check(b, p).ok
    PROVE  p
  BY DEF Check

(* Of a variable with a default, the value if one is given, else the default. *)
LEMMA Defaulted ==
    ASSUME NEW e, NEW v \in DOMAIN Defaults
    PROVE  /\ v \in Vars
           /\ Given(e, v) => Config(e)[v] = e[v]
           /\ ~Given(e, v) => Config(e)[v] = Defaults[v]
<1>1. v \in Vars /\ v # "CORE_OIDC_ISSUER" /\ v \notin DOMAIN Paths
  BY DEF Vars, Defaults, Paths
<1> QED
  BY <1>1 DEF Config, Meaning

LEMMA DefaultValues ==
    /\ PortVars \ {"CORE_DB_PORT"} \subseteq DOMAIN Defaults
    /\ AgeVars \cup DurationVars \subseteq DOMAIN Defaults
    /\ {"CORE_OIDC_KEY_FILE", "CORE_OIDC_DEV_GENERATE_KEY"} \subseteq DOMAIN Defaults
    /\ Defaults["CORE_PORT"] = Dec(8080)
    /\ \A v \in AgeVars : Defaults[v] \in {Dec(300), Dec(0)}
    /\ \A v \in DurationVars : Defaults[v] \in {Span(300), Span(120), Span(30)}
    /\ Defaults["CORE_OIDC_KEY_FILE"] = Empty
    /\ Defaults["CORE_OIDC_DEV_GENERATE_KEY"] = Dec(0)
  BY DEF Defaults, PortVars, AgeVars, DurationVars

(* What is not given has a default that the checks would accept. *)
LEMMA AcceptedNumbersFit ==
    ASSUME NEW e, Passes(Checks(e))
    PROVE  NumbersFit(Config(e))
<1>0. \A n \in Nat : /\ Kind(Dec(n)) = "int" /\ Dec(n)[2] = n
                     /\ Kind(Span(n)) = "span" /\ Span(n)[2] = n
  BY DEF Dec, Span, Kind
<1>1. Within(Config(e)["CORE_PORT"], 1, 65535)
  <2> DEFINE p == Given(e, "CORE_PORT") => Within(e["CORE_PORT"], 1, 65535)
  <2>1. Check({"CORE_PORT"}, p).ok
    BY Passed DEF loadPort
  <2>2. p
    <3>1. p \in BOOLEAN
      OBVIOUS
    <3> HIDE DEF p
    <3> QED
      BY <2>1, <3>1, CheckHolds
  <2>3. CASE Given(e, "CORE_PORT")
    BY <2>2, <2>3, Defaulted, DefaultValues DEF PortVars
  <2>4. CASE ~Given(e, "CORE_PORT")
    <3>1. Config(e)["CORE_PORT"] = Dec(8080)
      BY <2>4, Defaulted, DefaultValues DEF PortVars
    <3> QED
      BY <1>0, <3>1 DEF Within
  <2> QED
    BY <2>3, <2>4
<1>2. Within(Config(e)["CORE_DB_PORT"], 1, 65535)
  <2> DEFINE p == Given(e, "CORE_DB_PORT") /\ Within(e["CORE_DB_PORT"], 1, 65535)
  <2>1. Check({"CORE_DB_PORT"}, p).ok
    BY Passed DEF requiredPort
  <2>2. p
    <3>1. p \in BOOLEAN
      OBVIOUS
    <3> HIDE DEF p
    <3> QED
      BY <2>1, <3>1, CheckHolds
  <2>3. Config(e)["CORE_DB_PORT"] = e["CORE_DB_PORT"]
    BY <2>2, Names DEF Config, Meaning
  <2> QED
    BY <2>2, <2>3
<1>3. ASSUME NEW v \in AgeVars PROVE Within(Config(e)[v], 0, 86400)
  <2> DEFINE p == Given(e, v) => Within(e[v], 0, 86400)
  <2>1. Check({v}, p).ok
    BY Passed DEF loadMaxAge
  <2>2. p
    <3>1. p \in BOOLEAN
      OBVIOUS
    <3> HIDE DEF p
    <3> QED
      BY <2>1, <3>1, CheckHolds
  <2>3. CASE Given(e, v)
    BY <2>2, <2>3, Defaulted, DefaultValues
  <2>4. CASE ~Given(e, v)
    <3>1. Config(e)[v] \in {Dec(300), Dec(0)}
      BY <2>4, Defaulted, DefaultValues
    <3> QED
      BY <1>0, <3>1 DEF Within
  <2> QED
    BY <2>3, <2>4
<1>4. ASSUME NEW v \in DurationVars
      PROVE  Config(e)[v] = Dec(0) \/ (Kind(Config(e)[v]) = "span" /\ Config(e)[v][2] >= 0)
  <2> DEFINE p == Given(e, v) => e[v] = Dec(0) \/ (Kind(e[v]) = "span" /\ e[v][2] >= 0)
  <2>1. Check({v}, p).ok
    BY Passed DEF nonNegativeDuration
  <2>2. p
    <3>1. p \in BOOLEAN
      OBVIOUS
    <3> HIDE DEF p
    <3> QED
      BY <2>1, <3>1, CheckHolds
  <2>3. CASE Given(e, v)
    BY <2>2, <2>3, Defaulted, DefaultValues
  <2>4. CASE ~Given(e, v)
    <3>1. Config(e)[v] \in {Span(300), Span(120), Span(30)}
      BY <2>4, Defaulted, DefaultValues
    <3> QED
      BY <1>0, <3>1
  <2> QED
    BY <2>3, <2>4
<1> QED
  BY <1>1, <1>2, <1>3, <1>4 DEF NumbersFit, PortVars

LEMMA AcceptedKeySourceFits ==
    ASSUME NEW e, Passes(Checks(e))
    PROVE  KeySourceFits(Config(e))
<1> DEFINE key == "CORE_OIDC_KEY_FILE"
           dev == "CORE_OIDC_DEV_GENERATE_KEY"
           prod == Is(e, "prod")
           file == Given(e, key)
           generated == devGen(e)
<1>1. /\ Config(e)[key] = IF file THEN e[key] ELSE Empty
      /\ Config(e)[dev] = IF Given(e, dev) THEN e[dev] ELSE Dec(0)
  BY Defaulted, DefaultValues
<1>2. /\ Check({key, "CORE_ENV"}, prod => file).ok
      /\ Check({key, dev, "CORE_ENV"}, file \/ generated).ok
      /\ Check({key, dev}, ~(file /\ generated)).ok
  BY Passed DEF loadKeySource, keyFileOrDevGen
<1>3. (prod => file) /\ (file \/ generated) /\ ~(file /\ generated)
  <2> DEFINE p1 == prod => file
             p2 == file \/ generated
             p3 == ~(file /\ generated)
  <2>1. p1 \in BOOLEAN /\ p2 \in BOOLEAN /\ p3 \in BOOLEAN
    OBVIOUS
  <2>2. /\ Check({key, "CORE_ENV"}, p1).ok
        /\ Check({key, dev, "CORE_ENV"}, p2).ok
        /\ Check({key, dev}, p3).ok
    BY <1>2
  <2>3. p1 /\ p2 /\ p3
    <3> HIDE DEF p1, p2, p3
    <3> QED
      BY <2>1, <2>2, CheckHolds
  <2> QED
    BY <2>3
<1>4. Config(e)[key] # Empty <=> file
  BY <1>1, Kinds DEF Given
<1>5. Config(e)[dev] = Dec(1) <=> generated
  <2>1. Dec(0) # Dec(1) /\ Dec(1) \notin {Unset, Empty}
    <3>1. Dec(0)[2] = 0 /\ Dec(1)[2] = 1
      BY DEF Dec
    <3> QED
      BY <3>1, Kinds
  <2> QED
    BY <1>1, <2>1 DEF Given, devGen
<1>6. Config(e)["CORE_ENV"] = Word("prod") => prod
  <2>1. e["CORE_ENV"] \in EnvNames
    BY Passed DEF loadEnv, Check
  <2>2. Given(e, "CORE_ENV")
    BY <2>1, Kinds DEF EnvNames, Given
  <2>3. Config(e)["CORE_ENV"] = e["CORE_ENV"]
    BY <2>2, Names DEF Config, Meaning
  <2> QED
    BY <2>3 DEF Is
<1> QED
  BY <1>3, <1>4, <1>5, <1>6 DEF KeySourceFits

Outcome(r) ==
    IF r.blame = {}
    THEN /\ DOMAIN r.config = Vars
         /\ \A v \in Required : r.config[v] \notin {Unset, Empty}
         /\ PoolFits(r.config) /\ NumbersFit(r.config) /\ KeySourceFits(r.config)
    ELSE r.blame \subseteq Vars

LEMMA BootstrapType ==
    ASSUME NEW e, \A v \in Vars : e[v] \in Values[v]
    PROVE  Outcome(Bootstrap(e))
<1>1. CASE /\ \A i \in DOMAIN Checks(e) : Checks(e)[i].ok
           /\ Bootstrap(e) = [blame |-> {}, config |-> Config(e)]
  <2>1. Passes(Checks(e))
    BY <1>1 DEF Passes
  <2>2. DOMAIN Config(e) = Vars
    BY DEF Config
  <2> QED
    BY <1>1, <2>1, <2>2, AcceptedIsComplete, AcceptedPoolFits, AcceptedNumbersFit,
       AcceptedKeySourceFits DEF Outcome
<1>2. CASE \E i \in DOMAIN Checks(e) : Bootstrap(e) = [blame |-> Checks(e)[i].blame]
  <2>1. PICK i \in DOMAIN Checks(e) : Bootstrap(e) = [blame |-> Checks(e)[i].blame]
    BY <1>2
  <2>2. Checks(e) \in Seq(Verdicts)
    BY ChecksAccord DEF Alike
  <2>3. Checks(e)[i] \in Verdicts
    BY <2>2
  <2>4. Checks(e)[i].blame # {}
    <3>1. Alike(e, e, Checks(e), Checks(e)) /\ i \in 1 .. Len(Checks(e))
      BY <2>2, ChecksAccord, LenProperties
    <3> QED
      BY <3>1 DEF Alike, Accords
  <2> QED
    BY <2>1, <2>3, <2>4 DEF Outcome, Verdicts
<1> QED
  BY <1>1, <1>2, Ends

(* Every environment has values of its variables and every outcome is one that
   config.Load means to let through: with all that is required, one key source,
   a file's in prod, and every number in its range, whatever the values that the
   variables may have. *)
THEOREM ConfigurationTypeOK == Spec => []TypeOK
<1> DEFINE EnvOK(e) == DOMAIN e = Vars /\ \A v \in Vars : e[v] \in Values[v]
           IInv == mending \in BOOLEAN /\ EnvOK(env) /\ run = Bootstrap(env)
<1>1. Init => IInv
  BY ConfigurationAssumption DEF Init
<1>2. IInv /\ [Next]_vars => IInv'
  <2> SUFFICES ASSUME IInv, [Next]_vars PROVE IInv'
    OBVIOUS
  <2>1. ASSUME NEW v \in Vars, NEW raw \in Values[v], Start([env EXCEPT ![v] = raw]),
               mending' \in BOOLEAN
        PROVE  IInv'
    BY <2>1 DEF Start
  <2>2. CASE Repairs
    <3>1. PICK v \in run.blame : \E raw \in Values[v] : Repair(v, raw)
      BY <2>2 DEF Repairs
    <3>2. v \in Vars
      BY <3>1, BootstrapType DEF Outcome
    <3> QED
      BY <2>1, <3>1, <3>2 DEF Repair
  <2>3. CASE \E v \in Vars : \E raw \in Values[v] : Edit(v, raw)
    BY <2>1, <2>3 DEF Edit
  <2>4. CASE UNCHANGED vars
    BY <2>4 DEF vars
  <2> QED
    BY <2>2, <2>3, <2>4 DEF Next
<1>3. IInv => TypeOK
  BY BootstrapType DEF TypeOK, Started, Outcome
<1> QED
  BY <1>1, <1>2, <1>3, PTL DEF Spec

==========================================================================
