-------------------------- MODULE KeyPublication --------------------------
(***************************************************************************)
(* The two documents id-core publishes, the key set (/jwks) and the         *)
(* provider metadata (/.well-known/openid-configuration), as relying        *)
(* parties see them while pods restart and the operator changes the key or  *)
(* the environment.                                                         *)
(*                                                                          *)
(* A pod takes its environment when it is launched, reads the key file      *)
(* later (keystore.Init, after the database), and from then on answers from *)
(* a body, an ETag and a Cache-Control value computed once.  A relying      *)
(* party caches as RFC 9111 says and is external, as are the Secret with    *)
(* the key file and the operator.  Its requests are answered by any serving *)
(* pod, in one step: pods answer from constants.                            *)
(***************************************************************************)
EXTENDS Naturals

CONSTANTS
    Pods,           \* replicas of core
    Parties,        \* relying parties
    Settings,       \* environments the operator deploys
    MaxKeys         \* bound: keys made in a behaviour

Documents == {"jwks", "discovery"}

\* The longest max-age that config.Load accepts, in seconds.
OIDCMaxMaxAge == 86400

\* What of the environment decides the documents: CORE_OIDC_KEY_ID (0: unset),
\* key file or CORE_OIDC_DEV_GENERATE_KEY, the issuer with its endpoints, and
\* the two max-ages, which config.Load wants in 0..OIDCMaxMaxAge.
AnySetting ==
    [keyID : Nat, devGen : BOOLEAN, site : Nat, maxAge : [Documents -> Nat]]

ASSUME PublicationAssumption ==
    /\ MaxKeys \in Nat
    /\ Settings \subseteq AnySetting
    /\ \A s \in Settings, d \in Documents :
          s.maxAge[d] <= OIDCMaxMaxAge

VARIABLES
    setting,    \* the environment pods are launched with
    secret,     \* the key in the key file, 0 when there is no usable file
    ruled,      \* the operating rules were kept since all pods were last down
    made,       \* keys 1..made exist
    stage,      \* "down", "starting" or "serving"
    env,        \* the environment of a pod
    handlers,   \* what a serving pod answers from, for each document
    cache       \* what a relying party holds of each document

operator == <<setting, secret, ruled>>
pods == <<stage, env, handlers>>
vars == <<setting, secret, ruled, made, stage, env, handlers, cache>>

---------------------------------------------------------------------------
(* Documents: keystore.Init, jwks.New, discovery.New.                       *)

\* The kid is derived from the public key unless CORE_OIDC_KEY_ID names it.
Kid(k, keyID) == IF keyID = 0 THEN <<"derived", k>> ELSE <<"env", keyID>>

\* The one public key with its kid.
JWKS(s, k) == <<"jwks", Kid(k, s.keyID), k>>
\* The issuer and the endpoints under it.
Metadata(s) == <<"discovery", s.site>>

\* The JSON of a document; marshalling is deterministic.
Body(d, s, k) == IF d = "jwks" THEN JWKS(s, k) ELSE Metadata(s)

\* Mutant: the tag is made of what names the document, not of its bytes.
ETagOfName(body) == <<"etag", body[1], body[2]>>

\* The tag is a hash of the bytes; that it collides is left out.
ETag(body) == <<"etag", body>>

\* Mutant: no-cache is always there, next to a max-age.
CacheControlBoth(maxAge) == [noCache |-> TRUE, maxAge |-> maxAge]

\* "no-cache, must-revalidate" for 0, else "public, max-age=N, must-revalidate".
CacheControl(maxAge) == [noCache |-> maxAge = 0, maxAge |-> maxAge]

\* jwks.New and discovery.New: everything a request needs is computed here.
NewHandler(d, s, k) ==
    LET body == Body(d, s, k)
    IN [body |-> body, etag |-> ETag(body), cache |-> CacheControl(s.maxAge[d])]

NoTag == << >>

\* Mutant: whoever has some version is told that it has not changed.
AnswerToAnyTag(h, ifNoneMatch) ==
    IF ifNoneMatch # NoTag
    THEN [status |-> 304, etag |-> h.etag]
    ELSE [status |-> 200, etag |-> h.etag, body |-> h.body, cache |-> h.cache]

\* ServeHTTP: an exact match with If-None-Match is answered 304 with the ETag
\* alone, anything else 200 with body, ETag and Cache-Control.
Answer(h, ifNoneMatch) ==
    IF ifNoneMatch = h.etag
    THEN [status |-> 304, etag |-> h.etag]
    ELSE [status |-> 200, etag |-> h.etag, body |-> h.body, cache |-> h.cache]

---------------------------------------------------------------------------
NoHandler == [body |-> << >>, etag |-> NoTag, cache |-> CacheControl(0)]
\* "gone" is kept for the properties: how long no serving pod has published the
\* body.
NoEntry == [body |-> << >>, etag |-> NoTag, cache |-> CacheControl(0),
            age |-> 0, gone |-> 0]

Init ==
    /\ setting \in Settings
    /\ secret \in 0..MaxKeys /\ secret <= 1
    /\ ruled = TRUE
    /\ made = secret
    /\ stage = [p \in Pods |-> "down"]
    /\ env = [p \in Pods |-> setting]
    /\ handlers = [p \in Pods |-> [d \in Documents |-> NoHandler]]
    /\ cache = [r \in Parties |-> [d \in Documents |-> NoEntry]]

At(p, s) == stage[p] = s
Reach(p, s) == stage' = [stage EXCEPT ![p] = s]
AllDown == \A p \in Pods : At(p, "down")
Published(d) == {handlers[p][d].body : p \in {q \in Pods : At(q, "serving")}}

(***************************************************************************)
(* The operating rules of the requirements (F-8, F-24): the key is replaced *)
(* only while all pods are stopped, and a generated key serves one pod.     *)
(* Other settings may change under a rolling update.  The operator may      *)
(* break the rules;  ruled  is kept for the properties, and once all pods   *)
(* are down nothing is left of what was done before.                        *)
(***************************************************************************)
SameKeySource(s) == s.keyID = setting.keyID /\ s.devGen = setting.devGen

Ruled(kept) == ruled' = (ruled /\ kept)

\* run() up to the key store: the process has its environment now.
Launch(p) ==
    /\ At(p, "down")
    /\ Reach(p, "starting")
    /\ env' = [env EXCEPT ![p] = setting]
    /\ Ruled(setting.devGen => AllDown)
    /\ UNCHANGED <<setting, secret, made, handlers, cache>>

\* What a relying party holds is published again.
Republished(p) ==
    [r \in Parties |-> [d \in Documents |->
        IF cache[r][d].body = handlers'[p][d].body
        THEN [cache[r][d] EXCEPT !.gone = 0] ELSE cache[r][d]]]

Serve(p, k) ==
    /\ Reach(p, "serving")
    /\ handlers' = [handlers EXCEPT ![p] =
                      [d \in Documents |-> NewHandler(d, env[p], k)]]
    /\ cache' = Republished(p)
    /\ UNCHANGED <<operator, env>>

\* Mutant: a file that cannot be used is made up for by a generated key.
ServeFileOrOwnKey(p) ==
    /\ At(p, "starting")
    /\ ~env[p].devGen
    /\ \/ secret # 0 /\ Serve(p, secret) /\ UNCHANGED made
       \/ secret = 0 /\ made < MaxKeys /\ Serve(p, made + 1) /\ made' = made + 1

\* keystore.Init with a key file, then server.New and ListenAndServe.
ServeFileKey(p) ==
    /\ At(p, "starting")
    /\ ~env[p].devGen
    /\ secret # 0
    /\ Serve(p, secret)
    /\ UNCHANGED made

\* keystore.Init with CORE_OIDC_DEV_GENERATE_KEY=1: a key of its own.
ServeGeneratedKey(p) ==
    /\ At(p, "starting")
    /\ env[p].devGen
    /\ made < MaxKeys
    /\ made' = made + 1
    /\ Serve(p, made + 1)

\* The process ends: keystore.Init refused the file, another step of run()
\* failed, or the pod was stopped or died.
End(p) ==
    /\ ~At(p, "down")
    /\ Reach(p, "down")
    /\ handlers' = [handlers EXCEPT ![p] = [d \in Documents |-> NoHandler]]
    /\ ruled' = (ruled \/ AllDown')
    /\ UNCHANGED <<setting, secret, made, env, cache>>

---------------------------------------------------------------------------
(* Relying parties.                                                         *)

Holds(r, d) == cache[r][d].etag # NoTag
Fresh(e) == ~e.cache.noCache /\ e.age < e.cache.maxAge

\* A 304 renews the stored document and updates the stored headers by those it
\* carries; a 200 replaces the document.
Stored(e, a) ==
    IF a.status = 304
    THEN [e EXCEPT !.etag = a.etag, !.age = 0]
    ELSE [e EXCEPT !.body = a.body, !.etag = a.etag, !.cache = a.cache, !.age = 0]

Fetched(e, h, tag, published) ==
    LET f == Stored(e, Answer(h, tag))
    IN [f EXCEPT !.gone = IF f.body \in published THEN 0 ELSE @]

\* A party may ask at any time, and may leave If-None-Match out.
Fetch(r, d, p) ==
    /\ At(p, "serving")
    /\ \E tag \in {NoTag, cache[r][d].etag} :
          cache' = [cache EXCEPT ![r][d] =
                      Fetched(@, handlers[p][d], tag, Published(d))]
    /\ UNCHANGED <<operator, made, pods>>

\* Nothing tells apart the times from the max-age on.
Later(n, maxAge) == IF n < maxAge THEN n + 1 ELSE n

Aged(e, published) ==
    [e EXCEPT !.age = Later(@, e.cache.maxAge),
              !.gone = IF e.body \in published THEN 0 ELSE Later(@, e.cache.maxAge)]

\* Time passes.
Tick ==
    /\ cache' = [r \in Parties |-> [d \in Documents |->
          IF Holds(r, d) THEN Aged(cache[r][d], Published(d)) ELSE cache[r][d]]]
    /\ UNCHANGED <<operator, made, pods>>

---------------------------------------------------------------------------
(* The operator.                                                            *)

\* The Secret gets a new key, an earlier one, or a file that is of no use.
ReplaceKey(k) ==
    /\ k \in 0..MaxKeys /\ k <= made + 1 /\ k # secret
    /\ secret' = k
    /\ made' = IF k > made THEN k ELSE made
    /\ Ruled(AllDown)
    /\ UNCHANGED <<setting, pods, cache>>

ChangeSetting(s) ==
    /\ setting' = s
    /\ Ruled(AllDown \/ SameKeySource(s))
    /\ UNCHANGED <<secret, made, pods, cache>>

PodStep(p) == ServeFileKey(p) \/ ServeGeneratedKey(p) \/ End(p)

Next ==
    \/ \E p \in Pods : Launch(p) \/ PodStep(p)
    \/ \E r \in Parties, d \in Documents, p \in Pods : Fetch(r, d, p)
    \/ Tick
    \/ \E k \in 0..MaxKeys : ReplaceKey(k)
    \/ \E s \in Settings : ChangeSetting(s)

Safety == Init /\ [][Next]_vars

\* A party that relies on a document asks for it once it is not fresh.
Refresh(r, d) == ~Fresh(cache[r][d]) /\ \E p \in Pods : Fetch(r, d, p)

Spec ==
    /\ Safety
    /\ WF_vars(Tick)
    /\ \A r \in Parties, d \in Documents : WF_vars(Refresh(r, d))

---------------------------------------------------------------------------
(* Properties.                                                              *)

Kids == ({"derived"} \X (1..MaxKeys)) \cup ({"env"} \X Nat)
Bodies(d) == IF d = "jwks" THEN {"jwks"} \X Kids \X (1..MaxKeys)
             ELSE {"discovery"} \X Nat
Directives ==
    {c \in [noCache : BOOLEAN, maxAge : 0..OIDCMaxMaxAge] : c.noCache <=> c.maxAge = 0}
IsHandler(h, d) ==
    h \in [body : Bodies(d), etag : {ETag(h.body)}, cache : Directives]
IsEntry(e, d) ==
    e \in [body : Bodies(d), etag : {ETag(e.body)}, cache : Directives,
           age : 0..OIDCMaxMaxAge, gone : 0..OIDCMaxMaxAge]

ControlOK ==
    /\ setting \in Settings
    /\ made \in 0..MaxKeys /\ secret \in 0..made
    /\ ruled \in BOOLEAN
    /\ stage \in [Pods -> {"down", "starting", "serving"}]
    /\ env \in [Pods -> Settings]
HandlersOK ==
    /\ handlers = [p \in Pods |-> [d \in Documents |-> handlers[p][d]]]
    /\ \A p \in Pods, d \in Documents :
          IF At(p, "serving") THEN IsHandler(handlers[p][d], d)
          ELSE handlers[p][d] = NoHandler
CacheOK ==
    /\ cache = [r \in Parties |-> [d \in Documents |-> cache[r][d]]]
    /\ \A r \in Parties, d \in Documents :
          cache[r][d] = NoEntry \/ IsEntry(cache[r][d], d)

(* The variables stay in their types.  A serving pod answers from complete
   handlers, and a Cache-Control value says either no-cache or max-age, never
   both (discovery/handler.go: "no-cache and max-age contradict"). *)
TypeOK == ControlOK /\ HandlersOK /\ CacheOK

(* A document that a relying party uses without asking was published by some
   pod less than its max-age ago, whatever pods, keys and environments came and
   went in between: a 304 renews only what the answering pod publishes itself,
   although it compares nothing but tags. *)
StaleWithinMaxAge ==
    \A r \in Parties, d \in Documents :
        Fresh(cache[r][d]) => cache[r][d].gone < cache[r][d].cache.maxAge

(* As long as the operating rules are kept all serving pods publish the same key
   set, with the same ETag, also while other settings are rolled out (F-21, F-24:
   a pod reads the key file long after its environment). *)
OneKeySetPublished ==
    ruled => \A p, q \in Pods :
        At(p, "serving") /\ At(q, "serving") =>
            /\ handlers[p]["jwks"].body = handlers[q]["jwks"].body
            /\ handlers[p]["jwks"].etag = handlers[q]["jwks"].etag

(* Once all pods serve for good, every relying party comes to hold a document
   that is published, and keeps to published ones: no ETag and no Cache-Control
   value given out before can hold it to an old key. *)
NewDocumentsArrive ==
    \A r \in Parties, d \in Documents :
        <>[](\A p \in Pods : At(p, "serving"))
            => <>[](cache[r][d].body \in Published(d))

=============================================================================
