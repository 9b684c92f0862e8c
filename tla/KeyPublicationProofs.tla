----------------------- MODULE KeyPublicationProofs -----------------------
(***************************************************************************)
(* Proofs about KeyPublication for any pods, relying parties, settings and  *)
(* bounds: the types, that a document used without asking is not older than *)
(* its max-age, and that the operating rules keep all pods on one key set.  *)
(***************************************************************************)
EXTENDS KeyPublication, TLAPS

---------------------------------------------------------------------------
(* What the operators on documents return.                                  *)

LEMMA MaxAgeInNat == OIDCMaxMaxAge \in Nat
  BY DEF OIDCMaxMaxAge

(* A handler built from a setting and a key has its shape. *)
LEMMA NewHandlerType ==
    ASSUME NEW d \in Documents, NEW s \in Settings, NEW k \in 1..MaxKeys
    PROVE  IsHandler(NewHandler(d, s, k), d)
<1>1. s \in AnySetting /\ s.maxAge[d] <= OIDCMaxMaxAge /\ OIDCMaxMaxAge \in Nat
  BY PublicationAssumption, MaxAgeInNat
<1>2. s.maxAge[d] \in 0..OIDCMaxMaxAge /\ s.keyID \in Nat /\ s.site \in Nat
  BY <1>1 DEF AnySetting
<1>3. Kid(k, s.keyID) \in Kids
  BY <1>2 DEF Kid, Kids
<1>4. Body(d, s, k) \in Bodies(d)
  BY <1>2, <1>3 DEF Body, JWKS, Metadata, Bodies, Documents
<1>5. CacheControl(s.maxAge[d]) \in Directives
  BY <1>2 DEF CacheControl, Directives
<1> QED
  BY <1>4, <1>5 DEF NewHandler, IsHandler

(* Tags of different documents differ, and no document has the empty tag. *)
LEMMA TagsIdentify ==
    /\ \A b, c : ETag(b) = ETag(c) => b = c
    /\ \A b : ETag(b) # NoTag
  BY DEF ETag, NoTag

(* A relying party that is answered holds the body the answering pod publishes,
   whether or not the pod sent it, and no age. *)
LEMMA FetchedIsPublished ==
    ASSUME NEW d \in Documents, NEW h, IsHandler(h, d),
           NEW e, e = NoEntry \/ IsEntry(e, d), NEW tag, tag = NoTag \/ tag = e.etag,
           NEW published, h.body \in published
    PROVE  /\ IsEntry(Fetched(e, h, tag, published), d)
           /\ Fetched(e, h, tag, published).body = h.body
           /\ Fetched(e, h, tag, published).age = 0
           /\ Fetched(e, h, tag, published).gone = 0
<1>0. PICK f, g :
        /\ f = Stored(e, Answer(h, tag))
        /\ g = Fetched(e, h, tag, published)
        /\ g = [f EXCEPT !.gone = IF f.body \in published THEN 0 ELSE f.gone]
  BY DEF Fetched
<1> SUFFICES IsEntry(g, d) /\ g.body = h.body /\ g.age = 0 /\ g.gone = 0
  BY <1>0
<1>1. h.etag = ETag(h.body) /\ h.body \in Bodies(d) /\ h.cache \in Directives
  BY DEF IsHandler
<1>2. 0 \in 0..OIDCMaxMaxAge
  BY MaxAgeInNat
<1>3. CASE tag = h.etag
  <2>1. IsEntry(e, d)
    BY <1>1, <1>3, TagsIdentify DEF NoEntry
  <2>2. e.body = h.body
    BY <1>1, <1>3, <2>1, TagsIdentify DEF IsEntry
  <2>3. f = [e EXCEPT !.etag = h.etag, !.age = 0]
    BY <1>0, <1>3 DEF Stored, Answer
  <2> QED
    BY <1>0, <1>1, <1>2, <2>1, <2>2, <2>3 DEF IsEntry
<1>4. CASE tag # h.etag
  <2>1. f = [e EXCEPT !.body = h.body, !.etag = h.etag, !.cache = h.cache, !.age = 0]
    BY <1>0, <1>4 DEF Stored, Answer
  <2>2. CASE e = NoEntry
    <3>1. f = [body |-> h.body, etag |-> h.etag, cache |-> h.cache,
               age |-> 0, gone |-> 0]
      BY <2>1, <2>2 DEF NoEntry
    <3>2. g = [body |-> h.body, etag |-> ETag(h.body), cache |-> h.cache,
               age |-> 0, gone |-> 0]
      <4>1. f.body \in published
        BY <3>1
      <4>2. g = [f EXCEPT !.gone = 0]
        BY <1>0, <4>1
      <4> QED
        BY <1>1, <3>1, <4>2
    <3> QED
      BY <1>1, <1>2, <3>2 DEF IsEntry
  <2>3. CASE IsEntry(e, d)
    <3>1. f = [body |-> h.body, etag |-> h.etag, cache |-> h.cache,
               age |-> 0, gone |-> e.gone]
      BY <2>1, <2>3 DEF IsEntry
    <3>2. g = [body |-> h.body, etag |-> ETag(h.body), cache |-> h.cache,
               age |-> 0, gone |-> 0]
      <4>1. f.body \in published
        BY <3>1
      <4>2. g = [f EXCEPT !.gone = 0]
        BY <1>0, <4>1
      <4> QED
        BY <1>1, <3>1, <4>2
    <3> QED
      BY <1>1, <1>2, <3>2 DEF IsEntry
  <2> QED
    BY <2>2, <2>3
<1> QED
  BY <1>3, <1>4

---------------------------------------------------------------------------
(* Types.                                                                   *)

(* An entry whose body is published again keeps its shape. *)
LEMMA EntryKept ==
    ASSUME NEW d \in Documents, NEW e, IsEntry(e, d), NEW f, f = [e EXCEPT !.gone = 0]
    PROVE  IsEntry(f, d)
  BY MaxAgeInNat DEF IsEntry

(* Time stays within the longest max-age. *)
LEMMA LaterInBounds ==
    ASSUME NEW n \in 0..OIDCMaxMaxAge, NEW maxAge \in 0..OIDCMaxMaxAge
    PROVE  Later(n, maxAge) \in 0..OIDCMaxMaxAge
  BY MaxAgeInNat DEF Later

(* An entry that ages keeps its shape; its age goes on, and so does the time its
   body has been gone unless it is published. *)
LEMMA AgedEntry ==
    ASSUME NEW d \in Documents, NEW e, IsEntry(e, d), NEW published
    PROVE  /\ IsEntry(Aged(e, published), d)
           /\ Aged(e, published).age = Later(e.age, e.cache.maxAge)
           /\ \/ Aged(e, published).gone = 0
              \/ Aged(e, published).gone = Later(e.gone, e.cache.maxAge)
<1>1. PICK gone :
        /\ gone = 0 \/ gone = Later(e.gone, e.cache.maxAge)
        /\ Aged(e, published) = [e EXCEPT !.age = Later(e.age, e.cache.maxAge), !.gone = gone]
  BY DEF Aged
<1>2. /\ Later(e.age, e.cache.maxAge) \in 0..OIDCMaxMaxAge
      /\ Later(e.gone, e.cache.maxAge) \in 0..OIDCMaxMaxAge
      /\ 0 \in 0..OIDCMaxMaxAge
  <2>1. /\ e.age \in 0..OIDCMaxMaxAge /\ e.gone \in 0..OIDCMaxMaxAge
        /\ e.cache \in Directives
    BY DEF IsEntry
  <2>2. e.cache.maxAge \in 0..OIDCMaxMaxAge
    BY <2>1 DEF Directives
  <2>3. Later(e.age, e.cache.maxAge) \in 0..OIDCMaxMaxAge
    BY <2>1, <2>2, LaterInBounds
  <2>4. Later(e.gone, e.cache.maxAge) \in 0..OIDCMaxMaxAge
    BY <2>1, <2>2, LaterInBounds
  <2> QED
    BY <2>3, <2>4, MaxAgeInNat
<1> QED
  BY <1>1, <1>2 DEF IsEntry

(* A change of the cache that replaces entries by entries keeps CacheOK. *)
LEMMA CacheChange ==
    ASSUME cache' = [r \in Parties |-> [d \in Documents |-> cache'[r][d]]],
           \A r \in Parties, d \in Documents :
              cache'[r][d] = NoEntry \/ IsEntry(cache'[r][d], d)
    PROVE  CacheOK'
  BY DEF CacheOK

(* The counters of an entry, empty or not, are in their range. *)
LEMMA CountersInBounds ==
    ASSUME CacheOK, NEW r \in Parties, NEW d \in Documents
    PROVE  cache[r][d].age \in 0..OIDCMaxMaxAge /\ cache[r][d].gone \in 0..OIDCMaxMaxAge
<1>1. 0 \in 0..OIDCMaxMaxAge
  BY MaxAgeInNat
<1>2. cache[r][d] = NoEntry \/ IsEntry(cache[r][d], d)
  BY DEF CacheOK
<1> QED
  BY <1>1, <1>2 DEF NoEntry, IsEntry

(* A pod that begins to serve keeps the types of the documents. *)
LEMMA ServeTypes ==
    ASSUME TypeOK, NEW p \in Pods, NEW k \in 1..MaxKeys, Serve(p, k)
    PROVE  HandlersOK' /\ CacheOK'
<1>1. env[p] \in Settings /\ p \in DOMAIN stage
  BY DEF TypeOK, ControlOK
<1>2. /\ stage' = [stage EXCEPT ![p] = "serving"]
      /\ handlers' = [handlers EXCEPT ![p] =
                        [d \in Documents |-> NewHandler(d, env[p], k)]]
      /\ cache' = Republished(p)
  BY DEF Serve, Reach
<1>3. \A d \in Documents : IsHandler(NewHandler(d, env[p], k), d)
  BY <1>1, NewHandlerType
<1>4. HandlersOK'
  <2>1. handlers' = [q \in Pods |-> [d \in Documents |-> handlers'[q][d]]]
    BY <1>2 DEF TypeOK, HandlersOK
  <2>2. ASSUME NEW q \in Pods, NEW d \in Documents
        PROVE  IF stage'[q] = "serving" THEN IsHandler(handlers'[q][d], d)
               ELSE handlers'[q][d] = NoHandler
    <3>1. CASE q = p
      <4>1. stage'[q] = "serving" /\ handlers'[q][d] = NewHandler(d, env[p], k)
        BY <1>1, <1>2, <3>1 DEF TypeOK, HandlersOK
      <4> QED
        BY <1>3, <4>1
    <3>2. CASE q # p
      <4>1. stage'[q] = stage[q] /\ handlers'[q][d] = handlers[q][d]
        BY <1>2, <3>2 DEF TypeOK, HandlersOK, ControlOK
      <4> QED
        BY <4>1 DEF TypeOK, HandlersOK, At
    <3> QED
      BY <3>1, <3>2
  <2> QED
    BY <2>1, <2>2 DEF HandlersOK, At
<1>5. CacheOK'
  <2>1. cache' = [r \in Parties |-> [d \in Documents |-> cache'[r][d]]]
    BY <1>2 DEF Republished
  <2>2. ASSUME NEW r \in Parties, NEW d \in Documents
        PROVE  cache'[r][d] = NoEntry \/ IsEntry(cache'[r][d], d)
    <3>1. \/ cache'[r][d] = [cache[r][d] EXCEPT !.gone = 0]
          \/ cache'[r][d] = cache[r][d]
      BY <1>2 DEF Republished
    <3>2. CASE cache[r][d] = NoEntry
      BY <3>1, <3>2 DEF NoEntry
    <3>3. CASE IsEntry(cache[r][d], d)
      BY <3>1, <3>3, EntryKept
    <3> QED
      BY <3>2, <3>3 DEF TypeOK, CacheOK
  <2> QED
    BY <2>1, <2>2, CacheChange
<1> QED
  BY <1>4, <1>5

(* A relying party that fetches holds a complete entry of the document that the
   answering pod publishes, just confirmed; its other entry stays. *)
LEMMA FetchEffect ==
    ASSUME TypeOK, NEW r \in Parties, NEW d \in Documents, NEW p \in Pods,
           Fetch(r, d, p)
    PROVE  /\ cache' = [q \in Parties |-> [c \in Documents |-> cache'[q][c]]]
           /\ \A q \in Parties, c \in Documents :
                 (q # r \/ c # d) => cache'[q][c] = cache[q][c]
           /\ IsEntry(cache'[r][d], d)
           /\ cache'[r][d].age = 0 /\ cache'[r][d].gone = 0
           /\ cache'[r][d].body = handlers[p][d].body
<1>1. /\ IsHandler(handlers[p][d], d)
      /\ handlers[p][d].body \in Published(d)
      /\ cache[r][d] = NoEntry \/ IsEntry(cache[r][d], d)
  BY DEF Fetch, Published, TypeOK, HandlersOK, CacheOK
<1>2. PICK tag \in {NoTag, cache[r][d].etag} :
        cache' = [cache EXCEPT ![r][d] =
                    Fetched(cache[r][d], handlers[p][d], tag, Published(d))]
  BY DEF Fetch
<1>3. tag = NoTag \/ tag = cache[r][d].etag
  OBVIOUS
<1> DEFINE f == Fetched(cache[r][d], handlers[p][d], tag, Published(d))
<1>4. IsEntry(f, d) /\ f.body = handlers[p][d].body /\ f.age = 0 /\ f.gone = 0
  BY <1>3, <1>1, FetchedIsPublished
<1>5. /\ cache' = [q \in Parties |-> [c \in Documents |-> cache'[q][c]]]
      /\ \A q \in Parties, c \in Documents :
            cache'[q][c] = IF q = r /\ c = d THEN f ELSE cache[q][c]
  BY <1>2 DEF TypeOK, CacheOK
<1> HIDE DEF f
<1> QED
  BY <1>4, <1>5

(* What Tick does to one entry. *)
LEMMA TickEffect ==
    ASSUME Tick, NEW r \in Parties, NEW d \in Documents
    PROVE  cache'[r][d] = IF Holds(r, d) THEN Aged(cache[r][d], Published(d))
                          ELSE cache[r][d]
  BY DEF Tick

(* Every step keeps the types. *)
LEMMA TypeStep ==
    ASSUME TypeOK, [Next]_vars
    PROVE  TypeOK'
<1>1. ASSUME UNCHANGED <<made, secret, handlers, cache>>, ControlOK',
             \A p \in Pods : stage'[p] = "serving" <=> stage[p] = "serving"
      PROVE  TypeOK'
  BY <1>1 DEF TypeOK, HandlersOK, CacheOK, At
<1>2. ASSUME NEW p \in Pods, Launch(p)
      PROVE  TypeOK'
  <2>1. ControlOK' /\ \A q \in Pods : stage'[q] = "serving" <=> stage[q] = "serving"
    BY <1>2 DEF Launch, Reach, Ruled, At, TypeOK, ControlOK
  <2> QED
    BY <1>1, <1>2, <2>1 DEF Launch
<1>3. ASSUME NEW p \in Pods, NEW k \in 1..MaxKeys, Serve(p, k),
             made' \in 0..MaxKeys, secret \in 0..made'
      PROVE  TypeOK'
  <2>1. ControlOK'
    BY <1>3 DEF Serve, Reach, operator, TypeOK, ControlOK
  <2> QED
    BY <1>3, <2>1, ServeTypes DEF TypeOK
<1>4. ASSUME NEW p \in Pods, ServeFileKey(p)
      PROVE  TypeOK'
  <2>1. secret \in 1..MaxKeys /\ made' \in 0..MaxKeys /\ secret \in 0..made'
    BY <1>4, PublicationAssumption DEF ServeFileKey, TypeOK, ControlOK
  <2> QED
    BY <1>3, <1>4, <2>1 DEF ServeFileKey
<1>5. ASSUME NEW p \in Pods, ServeGeneratedKey(p)
      PROVE  TypeOK'
  <2>1. /\ made + 1 \in 1..MaxKeys
        /\ made' \in 0..MaxKeys /\ secret \in 0..made'
    BY <1>5, PublicationAssumption DEF ServeGeneratedKey, TypeOK, ControlOK
  <2> QED
    BY <1>3, <1>5, <2>1 DEF ServeGeneratedKey
<1>6. ASSUME NEW p \in Pods, End(p)
      PROVE  TypeOK'
  <2>1. ControlOK'
    BY <1>6 DEF End, Reach, TypeOK, ControlOK
  <2>2. CacheOK'
    BY <1>6 DEF End, TypeOK, CacheOK
  <2>3. HandlersOK'
    BY <1>6 DEF End, Reach, At, TypeOK, ControlOK, HandlersOK
  <2> QED
    BY <2>1, <2>2, <2>3 DEF TypeOK
<1>7. ASSUME NEW r \in Parties, NEW d \in Documents, NEW p \in Pods, Fetch(r, d, p)
      PROVE  TypeOK'
  <2>1. ControlOK' /\ HandlersOK'
    BY <1>7 DEF Fetch, operator, pods, TypeOK, ControlOK, HandlersOK, At
  <2>2. \A q \in Parties, c \in Documents :
          cache'[q][c] = NoEntry \/ IsEntry(cache'[q][c], c)
    BY <1>7, FetchEffect DEF TypeOK, CacheOK
  <2> QED
    BY <1>7, <2>1, <2>2, FetchEffect, CacheChange DEF TypeOK
<1>8. ASSUME Tick
      PROVE  TypeOK'
  <2>1. ControlOK' /\ HandlersOK'
    BY <1>8 DEF Tick, operator, pods, TypeOK, ControlOK, HandlersOK, At
  <2>2. cache' = [r \in Parties |-> [d \in Documents |-> cache'[r][d]]]
    BY <1>8 DEF Tick
  <2>3. ASSUME NEW r \in Parties, NEW d \in Documents
        PROVE  cache'[r][d] = NoEntry \/ IsEntry(cache'[r][d], d)
    <3>1. cache[r][d] = NoEntry \/ IsEntry(cache[r][d], d)
      BY DEF TypeOK, CacheOK
    <3>2. CASE ~Holds(r, d)
      BY <1>8, <3>1, <3>2, TickEffect
    <3>3. CASE Holds(r, d)
      <4>1. IsEntry(cache[r][d], d)
        BY <3>1, <3>3 DEF Holds, NoEntry
      <4> QED
        BY <1>8, <3>3, <4>1, TickEffect, AgedEntry
    <3> QED
      BY <3>2, <3>3
  <2> QED
    BY <2>1, <2>2, <2>3, CacheChange DEF TypeOK
<1>9. ASSUME NEW k \in 0..MaxKeys, ReplaceKey(k)
      PROVE  TypeOK'
  <2>1. ControlOK'
    BY <1>9, PublicationAssumption DEF ReplaceKey, Ruled, pods, TypeOK, ControlOK
  <2> QED
    BY <1>9, <2>1 DEF ReplaceKey, pods, TypeOK, HandlersOK, CacheOK, At
<1>10. ASSUME NEW s \in Settings, ChangeSetting(s)
       PROVE  TypeOK'
  <2>1. ControlOK'
    BY <1>10 DEF ChangeSetting, Ruled, pods, TypeOK, ControlOK
  <2> QED
    BY <1>10, <2>1 DEF ChangeSetting, pods, TypeOK, HandlersOK, CacheOK, At
<1>11. CASE UNCHANGED vars
  BY <1>11 DEF vars, TypeOK, ControlOK, HandlersOK, CacheOK, At
<1> QED
  BY <1>2, <1>4, <1>5, <1>6, <1>7, <1>8, <1>9, <1>10, <1>11 DEF Next, PodStep

(* The variables keep their types, and a Cache-Control value is never both
   no-cache and a max-age. *)
THEOREM PublicationTypeOK == Safety => []TypeOK
<1>1. Init => TypeOK
  BY PublicationAssumption
     DEF Init, TypeOK, ControlOK, HandlersOK, CacheOK, At
<1>2. TypeOK /\ [Next]_vars => TypeOK'
  BY TypeStep
<1> QED
  BY <1>1, <1>2, PTL DEF Safety

---------------------------------------------------------------------------
(* Age.  A document is confirmed only by a pod that publishes it, so it has   *)
(* not been gone for longer than it has gone unconfirmed.                     *)

GoneWithinAge ==
    \A r \in Parties, d \in Documents : cache[r][d].gone <= cache[r][d].age

(* Time that passes keeps the order of two counters. *)
LEMMA LaterMonotone ==
    \A m, n, maxAge \in Nat :
        /\ m <= n => Later(m, maxAge) <= Later(n, maxAge)
        /\ 0 <= Later(n, maxAge)
  BY DEF Later

(* Every step keeps GoneWithinAge. *)
LEMMA AgeStep ==
    ASSUME TypeOK, GoneWithinAge, [Next]_vars
    PROVE  GoneWithinAge'
<1>1. ASSUME UNCHANGED cache
      PROVE  GoneWithinAge'
  BY <1>1 DEF GoneWithinAge
<1>2. ASSUME NEW p \in Pods, NEW k, Serve(p, k)
      PROVE  GoneWithinAge'
  <2>1. SUFFICES ASSUME NEW r \in Parties, NEW d \in Documents
                 PROVE  cache'[r][d].gone <= cache'[r][d].age
    BY DEF GoneWithinAge
  <2>2. cache'[r][d] = IF cache[r][d].body = handlers'[p][d].body
                       THEN [cache[r][d] EXCEPT !.gone = 0] ELSE cache[r][d]
    BY <1>2 DEF Serve, Republished
  <2>3. CASE cache[r][d] = NoEntry
    BY <2>2, <2>3 DEF NoEntry
  <2>4. CASE IsEntry(cache[r][d], d)
    BY <2>2, <2>4, CountersInBounds DEF IsEntry, GoneWithinAge, TypeOK
  <2> QED
    BY <2>3, <2>4 DEF TypeOK, CacheOK
<1>3. ASSUME NEW r \in Parties, NEW d \in Documents, NEW p \in Pods, Fetch(r, d, p)
      PROVE  GoneWithinAge'
  BY <1>3, FetchEffect DEF GoneWithinAge
<1>4. ASSUME Tick
      PROVE  GoneWithinAge'
  <2>1. SUFFICES ASSUME NEW r \in Parties, NEW d \in Documents
                 PROVE  cache'[r][d].gone <= cache'[r][d].age
    BY DEF GoneWithinAge
  <2>2. CASE ~Holds(r, d)
    BY <1>4, <2>2, TickEffect DEF GoneWithinAge
  <2>3. CASE Holds(r, d)
    <3>1. IsEntry(cache[r][d], d)
      BY <2>3 DEF TypeOK, CacheOK, Holds, NoEntry
    <3>2. /\ cache'[r][d].age = Later(cache[r][d].age, cache[r][d].cache.maxAge)
          /\ \/ cache'[r][d].gone = 0
             \/ cache'[r][d].gone = Later(cache[r][d].gone, cache[r][d].cache.maxAge)
      BY <1>4, <2>3, <3>1, TickEffect, AgedEntry
    <3>3. /\ cache[r][d].age \in Nat /\ cache[r][d].gone \in Nat
          /\ cache[r][d].cache.maxAge \in Nat
      BY <3>1, MaxAgeInNat DEF IsEntry, Directives
    <3>4. cache[r][d].gone <= cache[r][d].age
      BY DEF GoneWithinAge
    <3> QED
      BY <3>2, <3>3, <3>4, LaterMonotone
  <2> QED
    BY <2>2, <2>3
<1>5. CASE UNCHANGED vars
  BY <1>1, <1>5 DEF vars
<1> QED
  BY <1>1, <1>2, <1>3, <1>4, <1>5
     DEF Next, PodStep, Launch, ServeFileKey, ServeGeneratedKey, End, ReplaceKey,
         ChangeSetting

(* A document that a relying party uses without asking was published less than
   its max-age ago (ServeHTTP of both handlers: equal tags mean equal bodies). *)
THEOREM AgeCorrect == Safety => []StaleWithinMaxAge
<1>1. Init => TypeOK /\ GoneWithinAge
  BY PublicationAssumption
     DEF Init, TypeOK, ControlOK, HandlersOK, CacheOK, At, GoneWithinAge, NoEntry
<1>2. TypeOK /\ GoneWithinAge /\ [Next]_vars => (TypeOK /\ GoneWithinAge)'
  BY TypeStep, AgeStep
<1>3. TypeOK /\ GoneWithinAge => StaleWithinMaxAge
  <2>1. ASSUME TypeOK, GoneWithinAge, NEW r \in Parties, NEW d \in Documents,
               Fresh(cache[r][d])
        PROVE  cache[r][d].gone < cache[r][d].cache.maxAge
    <3>1. IsEntry(cache[r][d], d)
      BY <2>1 DEF TypeOK, CacheOK, Fresh, NoEntry, CacheControl
    <3>2. /\ cache[r][d].cache.maxAge \in Nat /\ cache[r][d].age \in Nat
          /\ cache[r][d].gone \in Nat
      BY <3>1, PublicationAssumption DEF IsEntry, Directives
    <3> QED
      BY <2>1, <3>2 DEF GoneWithinAge, Fresh
  <2> QED
    BY <2>1 DEF StaleWithinMaxAge
<1> QED
  BY <1>1, <1>2, <1>3, PTL DEF Safety

---------------------------------------------------------------------------
(* The operating rules.  All pods that run took the same key source, and read *)
(* the same file; or there is one pod only.                                   *)

OneSource ==
    /\ \A p \in Pods : ~At(p, "down") =>
          env[p].keyID = setting.keyID /\ env[p].devGen = setting.devGen
    /\ setting.devGen =>
          \A p, q \in Pods : ~At(p, "down") /\ ~At(q, "down") => p = q
    /\ ~setting.devGen =>
          \A p \in Pods : At(p, "serving") =>
              /\ handlers[p]["jwks"].body = <<"jwks", Kid(secret, setting.keyID), secret>>
              /\ handlers[p]["jwks"].etag = ETag(handlers[p]["jwks"].body)
RulesInv == ruled => OneSource

(* Every step keeps RulesInv. *)
LEMMA RulesStep ==
    ASSUME TypeOK, RulesInv, [Next]_vars
    PROVE  RulesInv'
<1> USE DEF RulesInv, OneSource, At
<1>1. ASSUME UNCHANGED <<setting, secret, ruled, stage, env, handlers>>
      PROVE  RulesInv'
  BY <1>1
<1>2. ASSUME NEW p \in Pods, Launch(p)
      PROVE  RulesInv'
  BY <1>2 DEF Launch, Reach, Ruled, AllDown, TypeOK, ControlOK
<1>3. ASSUME NEW p \in Pods, ServeFileKey(p)
      PROVE  RulesInv'
  <2> SUFFICES ASSUME ruled' PROVE OneSource'
    OBVIOUS
  <2>1. /\ stage[p] = "starting" /\ ~env[p].devGen
        /\ UNCHANGED <<setting, secret, ruled, env>>
        /\ stage' = [stage EXCEPT ![p] = "serving"]
        /\ handlers' = [handlers EXCEPT ![p] =
                          [d \in Documents |-> NewHandler(d, env[p], secret)]]
    BY <1>3 DEF ServeFileKey, Serve, Reach, operator
  <2>2. ~setting.devGen /\ env[p].keyID = setting.keyID
    BY <2>1
  <2>3. handlers'[p]["jwks"] = NewHandler("jwks", env[p], secret)
    BY <2>1 DEF TypeOK, HandlersOK, Documents
  <2>4. /\ handlers'[p]["jwks"].body = <<"jwks", Kid(secret, setting.keyID), secret>>
        /\ handlers'[p]["jwks"].etag = ETag(handlers'[p]["jwks"].body)
    BY <2>2, <2>3 DEF NewHandler, Body, JWKS
  <2>5. \A q \in Pods : q # p => stage'[q] = stage[q] /\ handlers'[q] = handlers[q]
    BY <2>1 DEF TypeOK, ControlOK, HandlersOK
  <2> QED
    BY <2>1, <2>2, <2>4, <2>5
<1>4. ASSUME NEW p \in Pods, ServeGeneratedKey(p)
      PROVE  RulesInv'
  BY <1>4 DEF ServeGeneratedKey, Serve, Reach, operator, TypeOK, ControlOK
<1>5. ASSUME NEW p \in Pods, End(p)
      PROVE  RulesInv'
  <2>1. /\ UNCHANGED <<setting, secret, env>>
        /\ stage'[p] = "down"
        /\ \A q \in Pods : q # p => stage'[q] = stage[q] /\ handlers'[q] = handlers[q]
    BY <1>5 DEF End, Reach, TypeOK, ControlOK, HandlersOK
  <2>2. CASE ruled
    BY <2>1, <2>2
  <2>3. CASE ~ruled
    <3>1. ruled' => AllDown'
      BY <1>5, <2>3 DEF End
    <3>2. AllDown' => OneSource'
      BY DEF AllDown
    <3> QED
      BY <3>1, <3>2
  <2> QED
    BY <2>2, <2>3
<1>6. ASSUME NEW k \in 0..MaxKeys, ReplaceKey(k)
      PROVE  RulesInv'
  BY <1>6 DEF AllDown, Ruled, ReplaceKey, pods
<1>7. ASSUME NEW s \in Settings, ChangeSetting(s)
      PROVE  RulesInv'
  BY <1>7 DEF AllDown, Ruled, SameKeySource, ChangeSetting, pods
<1>8. CASE UNCHANGED vars
  BY <1>1, <1>8 DEF vars
<1> QED
  BY <1>1, <1>2, <1>3, <1>4, <1>5, <1>6, <1>7, <1>8
     DEF Next, PodStep, Fetch, Tick, operator, pods

(* As long as the key is replaced only while all pods are stopped, and one pod
   runs where the key is generated, all serving pods publish one key set (F-8,
   F-21, F-24); and again once all pods have been down. *)
THEOREM RulesCorrect == Safety => []OneKeySetPublished
<1>1. Init => TypeOK /\ RulesInv
  BY PublicationAssumption
     DEF Init, TypeOK, ControlOK, HandlersOK, CacheOK, At, RulesInv, OneSource
<1>2. TypeOK /\ RulesInv /\ [Next]_vars => (TypeOK /\ RulesInv)'
  BY TypeStep, RulesStep
<1>3. RulesInv => OneKeySetPublished
  BY DEF RulesInv, OneSource, OneKeySetPublished, At
<1> QED
  BY <1>1, <1>2, <1>3, PTL DEF Safety

=============================================================================
