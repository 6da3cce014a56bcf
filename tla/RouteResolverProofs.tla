------------------------- MODULE RouteResolverProofs -------------------------
(***************************************************************************)
(* What the claim catalog and the route resolver promise, for every set of *)
(* artifacts, requests and configurations.                                 *)
(***************************************************************************)
EXTENDS RouteResolver, SequenceTheorems, TLAPS

-----------------------------------------------------------------------------
(* Names.                                                                  *)

\* normalizeParserTypeName() is idempotent and leaves the wildcard to itself, so
\* that decoding and admitting a claim may both normalize it.
LEMMA NormalForm ==
  ASSUME NEW enc, NEW name \in Seq(STRING), NEW m,
         m = normalizeParserTypeName(enc, name), m # NoName
  PROVE  /\ normalizeParserTypeName(enc, m) = m
         /\ m = Wildcard <=> name = Wildcard
<1>1. enc \in registeredParserEncodings /\ ~isEmpty(name)
  BY DEF normalizeParserTypeName
<1>2. CASE name = Wildcard
  BY <1>1, <1>2 DEF normalizeParserTypeName
<1>3. CASE name # Wildcard /\ enc = "ros2msg"
  <2>1. CASE m = name
    BY <1>3, <2>1
  <2>2. CASE m # name
    <3>1. m = <<name[1], "msg", name[2]>>
      BY <1>1, <1>3, <2>2 DEF normalizeParserTypeName
    <3>2. Len(name) = 2
      BY <1>1, <1>3, <2>2 DEF normalizeParserTypeName
    <3>3. name[1] # "" /\ name[2] # ""
      BY <1>1, <1>3, <2>2 DEF normalizeParserTypeName
    <3>4. Len(m) = 3 /\ m[1] = name[1] /\ m[2] = "msg" /\ m[3] = name[2]
      BY <3>1
    <3>5. m # Wildcard /\ ~isEmpty(m)
      BY <3>4 DEF Wildcard, NoName, isEmpty
    <3>6. normalizeParserTypeName(enc, m) = m
      BY <1>1, <1>3, <3>3, <3>4, <3>5 DEF normalizeParserTypeName
    <3> QED
      BY <1>3, <3>5, <3>6
  <2> QED
    BY <2>1, <2>2
<1>4. CASE name # Wildcard /\ enc = "protobuf"
  <2>1. m = IF name[1] = "" THEN Tail(name) ELSE name
    BY <1>1, <1>4 DEF normalizeParserTypeName
  <2>2. \A i \in DOMAIN m : isIdentifier(m[i])
    BY <1>1, <1>4 DEF normalizeParserTypeName
  <2>3. name # <<>>
    BY <1>1 DEF NoName, isEmpty
  <2>4. Len(name) >= 1
    BY <2>3
  <2>5. m \in Seq(STRING)
    BY <2>1, <2>3, HeadTailProperties
  <2>6. Len(m) >= 1
    <3>1. CASE name[1] = ""
      <4>1. Len(name) # 1
        BY <1>1, <3>1 DEF isEmpty
      <4>2. m = Tail(name)
        BY <2>1, <3>1
      <4>3. Len(m) = Len(name) - 1
        BY <2>3, <4>2, HeadTailProperties
      <4> QED
        BY <2>4, <4>1, <4>3, LenProperties
    <3>2. CASE name[1] # ""
      BY <2>1, <2>4, <3>2
    <3> QED
      BY <3>1, <3>2
  <2>7. 1 \in DOMAIN m
    BY <2>5, <2>6, LenProperties
  <2>8. isIdentifier(m[1])
    BY <2>2, <2>7
  <2>9. m[1] # ""
    BY <2>8 DEF isIdentifier
  <2>10. ~isEmpty(m) /\ m # Wildcard
    <3>1. ~isEmpty(m)
      BY <2>9 DEF isEmpty
    <3>2. m[1] # "*"
      BY <2>8 DEF isIdentifier
    <3>3. m # Wildcard
      BY <3>2 DEF Wildcard
    <3> QED
      BY <3>1, <3>3
  <2>11. normalizeParserTypeName(enc, m) = m
    BY <1>1, <1>4, <2>2, <2>9, <2>10 DEF normalizeParserTypeName
  <2> QED
    BY <1>4, <2>10, <2>11
<1>5. CASE name # Wildcard /\ enc = "json"
  BY <1>1, <1>5 DEF normalizeParserTypeName
<1> QED
  BY <1>1, <1>2, <1>3, <1>4, <1>5 DEF registeredParserEncodings

-----------------------------------------------------------------------------
(* The catalog.                                                            *)

\* The values the order of candidates compares, and the counters.
ClaimTypes ==
  \A e \in claims : /\ e.claim.provider \in Providers /\ e.claim.id \in ClaimIds
                    /\ e.claim.priority \in Int /\ e.claim.provenance \in Int

Counters == generation \in Nat /\ loads \in Nat /\ probes \in Nat

CatalogFacts == Counters /\ ClaimTypes /\ CatalogInv

\* What admission stores of an admissible batch.
LEMMA Entries ==
  ASSUME NEW a \in Artifacts, admissible(batchOf(a)), NEW g,
         NEW e \in entriesOf(batchOf(a), a.provenance, g)
  PROVE  /\ validClaim(e.claim)
         /\ e.claim.type = normalizeParserTypeName(e.claim.encoding, e.claim.type)
         /\ e.provider_generation = g
         /\ e.claim.provider \in Providers /\ e.claim.id \in ClaimIds
         /\ e.claim.priority \in Int /\ e.claim.provenance \in Int
         /\ \A f \in claims : identityOf(e.claim) # identityOf(f.claim)
         /\ \A f \in entriesOf(batchOf(a), a.provenance, g) :
              e # f => identityOf(e.claim) # identityOf(f.claim)
<1>1. PICK c \in batchOf(a) :
        e = [claim |-> normalized(c, a.provenance), provider_generation |-> g]
  BY DEF entriesOf
<1>2. /\ c.provider \in Providers /\ c.id \in ClaimIds /\ c.type \in Seq(STRING)
      /\ c.priority \in Int /\ a.provenance \in Int
  BY ArtifactsAssumption
<1>3. validClaim(c)
  BY DEF admissible
<1> DEFINE m == normalizeParserTypeName(c.encoding, c.type)
<1>4. /\ e.claim.encoding = c.encoding /\ e.claim.type = m /\ e.claim.routes = c.routes
      /\ e.claim.object = c.object /\ e.claim.digests = c.digests
      /\ e.claim.provider = c.provider /\ e.claim.id = c.id
      /\ e.claim.priority = c.priority /\ e.claim.provenance = a.provenance
      /\ e.provider_generation = g
  BY <1>1 DEF normalized
<1>5. m # NoName
  BY <1>3 DEF validClaim
<1>6. normalizeParserTypeName(c.encoding, m) = m /\ (m = Wildcard <=> c.type = Wildcard)
  BY <1>2, <1>5, NormalForm
<1>7. validClaim(e.claim)
  BY <1>3, <1>4, <1>5, <1>6 DEF validClaim
<1>8. \A f \in claims : identityOf(e.claim) # identityOf(f.claim)
  BY <1>4 DEF admissible, identityOf
<1>9. ASSUME NEW f \in entriesOf(batchOf(a), a.provenance, g), e # f
      PROVE  identityOf(e.claim) # identityOf(f.claim)
  <2>1. PICK d \in batchOf(a) :
          f = [claim |-> normalized(d, a.provenance), provider_generation |-> g]
    BY DEF entriesOf
  <2>2. c # d
    BY <1>1, <1>9, <2>1
  <2>3. identityOf(c) # identityOf(d)
    BY <2>2 DEF admissible
  <2>4. f.claim.provider = d.provider /\ f.claim.id = d.id
    BY <2>1 DEF normalized
  <2> QED
    BY <1>4, <2>3, <2>4 DEF identityOf
<1> QED
  BY <1>2, <1>4, <1>6, <1>7, <1>8, <1>9

\* Admission is transactional.
LEMMA AdmitStep ==
  ASSUME CatalogFacts, NEW a \in Artifacts, admit(a), probes' = probes
  PROVE  CatalogFacts' /\ generation' >= generation /\ (claims' # claims <=> generation' # generation)
<1> USE DEF CatalogFacts, Counters
<1>1. loads' = loads + 1
  BY DEF admit
<1>2. CASE claims' = claims /\ generation' = generation
  BY <1>1, <1>2 DEF ClaimTypes, CatalogInv
<1>3. CASE /\ decodes(a) /\ admissible(batchOf(a)) /\ batchOf(a) # {}
           /\ claims' = claims \cup entriesOf(batchOf(a), a.provenance, loads + 1)
           /\ generation' = generation + 1
  <2> DEFINE new == entriesOf(batchOf(a), a.provenance, loads + 1)
  <2>1. \A e \in new :
          /\ validClaim(e.claim)
          /\ e.claim.type = normalizeParserTypeName(e.claim.encoding, e.claim.type)
          /\ e.provider_generation = loads + 1
          /\ e.claim.provider \in Providers /\ e.claim.id \in ClaimIds
          /\ e.claim.priority \in Int /\ e.claim.provenance \in Int
          /\ \A f \in claims : identityOf(e.claim) # identityOf(f.claim)
          /\ \A f \in new : e # f => identityOf(e.claim) # identityOf(f.claim)
    BY <1>3, Entries
  <2>2. PICK e \in new : TRUE
    BY <1>3 DEF entriesOf
  <2> HIDE DEF new
  <2>3. claims' = claims \cup new
    BY <1>3 DEF new
  <2>4. e \notin claims
    BY <2>1, <2>2
  <2>5. claims' # claims /\ generation' # generation /\ generation' >= generation
    BY <1>3, <2>2, <2>3, <2>4
  <2>6. ClaimTypes'
    BY <2>1, <2>3 DEF ClaimTypes
  <2>7. CatalogInv'
    <3>1. ASSUME NEW x \in claims'
          PROVE  /\ validClaim(x.claim)
                 /\ x.claim.type = normalizeParserTypeName(x.claim.encoding, x.claim.type)
                 /\ x.provider_generation \in 1..loads'
      BY <1>1, <2>1, <2>3 DEF CatalogInv
    <3>2. ASSUME NEW x \in claims', NEW y \in claims', x # y
          PROVE  identityOf(x.claim) # identityOf(y.claim)
      BY <2>1, <2>3, <3>2 DEF CatalogInv
    <3> QED
      BY <3>1, <3>2 DEF CatalogInv
  <2> QED
    BY <1>1, <1>3, <2>5, <2>6, <2>7
<1> QED
  BY <1>2, <1>3 DEF admit

\* Removing claims keeps the rest as it was.
LEMMA RemoveStep ==
  ASSUME CatalogFacts, claims' \subseteq claims, claims' # claims,
         generation' = generation + 1, loads' = loads, probes' = probes
  PROVE  CatalogFacts' /\ generation' >= generation /\ (claims' # claims <=> generation' # generation)
<1>1. Counters' /\ generation' >= generation /\ generation' # generation
  BY DEF CatalogFacts, Counters
<1>2. ClaimTypes' /\ CatalogInv'
  BY DEF CatalogFacts, ClaimTypes, CatalogInv
<1> QED
  BY <1>1, <1>2 DEF CatalogFacts

\* Every step keeps the catalog in order, and the generation counts its changes.
LEMMA CatalogStep ==
  ASSUME CatalogFacts, [Next]_vars
  PROVE  /\ CatalogFacts'
         /\ [/\ generation' >= generation
             /\ claims' # claims <=> generation' # generation]_vars
<1>1. ASSUME UNCHANGED catalog, probes' \in Nat
      PROVE  CatalogFacts' /\ generation' >= generation /\ (claims' # claims <=> generation' # generation)
  BY <1>1 DEF catalog, CatalogFacts, Counters, ClaimTypes, CatalogInv
<1>2. CASE UNCHANGED vars
  BY <1>1, <1>2 DEF vars, resolver, CatalogFacts, Counters
<1>3. ASSUME NEW a \in Artifacts, Admit(a)
      PROVE  CatalogFacts' /\ generation' >= generation /\ (claims' # claims <=> generation' # generation)
  BY <1>3, AdmitStep DEF Admit, resolver
<1>4. ASSUME NEW p \in Providers, RemoveProvider(p)
      PROVE  CatalogFacts' /\ generation' >= generation /\ (claims' # claims <=> generation' # generation)
  BY <1>4, RemoveStep DEF RemoveProvider, removeProvider, resolver
<1>5. CASE ClearCatalog
  BY <1>5, RemoveStep DEF ClearCatalog, clear, resolver
<1>6. ASSUME NEW p \in Providers, invalidateProviderConfig(p)
      PROVE  UNCHANGED catalog /\ probes' \in Nat
  BY <1>6 DEF invalidateProviderConfig, CatalogFacts, Counters
<1>7. CASE clearAllCachedState
  BY <1>1, <1>7 DEF clearAllCachedState, CatalogFacts, Counters
<1>8. ASSUME NEW q \in Requests, NEW pin \in Providers \cup {NoProvider}, NEW c \in Configs,
             ResolveBegin(q, pin, c)
      PROVE  UNCHANGED catalog /\ probes' \in Nat
  BY <1>8 DEF ResolveBegin, resolver, CatalogFacts, Counters
<1>9. CASE ConfigThrows
  BY <1>1, <1>9 DEF ConfigThrows, resolver, CatalogFacts, Counters
<1>10. ASSUME NEW e \in claims, CacheHit(e)
       PROVE  UNCHANGED catalog /\ probes' \in Nat
  BY <1>10 DEF CacheHit, CatalogFacts, Counters
<1>11. ASSUME NEW e \in claims, NEW o, Probe(e, o)
       PROVE  UNCHANGED catalog /\ probes' \in Nat
  BY <1>11 DEF Probe, CatalogFacts, Counters
<1> QED
  BY <1>1, <1>2, <1>3, <1>4, <1>5, <1>6, <1>7, <1>8, <1>9, <1>10, <1>11 DEF Next

\* The catalog never holds an invalid claim, a name out of normal form or two
\* claims of one identity, whatever artifacts are loaded in whatever order.
THEOREM CatalogInvariance == Spec => []CatalogInv
<1>1. Init => CatalogFacts
  BY DEF Init, CatalogInit, CatalogFacts, Counters, ClaimTypes, CatalogInv
<1>2. CatalogFacts /\ [Next]_vars => CatalogFacts'
  BY CatalogStep
<1>3. CatalogFacts => CatalogInv
  BY DEF CatalogFacts
<1> QED
  BY <1>1, <1>2, <1>3, PTL DEF Spec

\* generation() changes with the claims and only with them.
THEOREM GenerationCounts == Spec => GenerationTracks
<1>1. Init => CatalogFacts
  BY DEF Init, CatalogInit, CatalogFacts, Counters, ClaimTypes, CatalogInv
<1>2. CatalogFacts /\ [Next]_vars => CatalogFacts'
  BY CatalogStep
<1>3. CatalogFacts /\ [Next]_vars
        => [/\ generation' >= generation
            /\ claims' # claims <=> generation' # generation]_vars
  BY CatalogStep
<1> QED
  BY <1>1, <1>2, <1>3, PTL DEF Spec, GenerationTracks

-----------------------------------------------------------------------------
(* The resolver.                                                           *)

\* A request as resolve() keeps it, and what a cached answer says it was asked.
Shaped(n, r) == n = [encoding |-> n.encoding, type |-> n.type, schema |-> n.schema, route |-> r]

\* Every cached answer belongs to the route and the probe its key names.
CacheHonest ==
  /\ cache = [r \in Routes |-> cache[r]]
  /\ \A r \in Routes : \A x \in cache[r] :
       LET p == x.decision.probe
       IN  /\ Shaped(p.request, r)
           /\ p = [provider |-> p.provider, id |-> p.id,
                   provider_generation |-> p.provider_generation,
                   request |-> p.request, digest |-> p.digest]
           /\ x.key = [provider |-> p.provider, id |-> p.id,
                       provider_generation |-> p.provider_generation,
                       encoding |-> p.request.encoding, type |-> p.request.type,
                       schema |-> p.request.schema, config |-> p.digest]
           /\ x.decision.number \in 1..probes

ResFields ==
  res = [phase |-> res.phase, request |-> res.request, pin |-> res.pin, config |-> res.config,
         remaining |-> res.remaining, considered |-> res.considered, winner |-> res.winner,
         answer |-> res.answer, status |-> res.status, probed |-> res.probed,
         expected |-> res.expected]

\* Of a call under way: every candidate is still to come or was refused.
Walk ==
  /\ res.remaining \subseteq candidates(res.request, res.pin)
  /\ \A e \in candidates(res.request, res.pin) \ res.remaining :
       \E x \in res.considered : x.entry = e /\ x.decision.outcome # "accept"

ResInv ==
  /\ res.phase \in {"idle", "running", "returned"}
  /\ res.phase # "idle" =>
       ResFields /\ Shaped(res.request, res.request.route) /\ res.request.route \in Routes
  /\ res.phase = "running" => Walk /\ res.winner = {}

ResolverInv ==
  /\ CatalogFacts /\ CacheHonest /\ RoutesKeepApart /\ ResInv
  /\ DecisionsFresh /\ BestWins /\ PinHolds

\* The policy order compares numbers.
LEMMA OrderTypes ==
  ASSUME ClaimTypes, NEW e \in claims
  PROVE  /\ e.claim.provider \in Int /\ e.claim.priority \in Int
         /\ e.claim.provenance \in Int /\ Lex[e.claim.id] \in Int
<1>1. /\ e.claim.provider \in Providers /\ e.claim.id \in ClaimIds
      /\ e.claim.priority \in Int /\ e.claim.provenance \in Int
  BY DEF ClaimTypes
<1>2. e.claim.provider \in Int
  <2>1. \A p \in Providers : p \in Nat
    BY CatalogAssumption
  <2> QED
    BY <1>1, <2>1
<1>3. Lex[e.claim.id] \in Int
  <2> DEFINE i == e.claim.id
  <2> HIDE DEF i
  <2>1. i \in ClaimIds
    BY <1>1 DEF i
  <2>2. Lex[i] \in Nat
    BY <2>1, CatalogAssumption
  <2> QED
    BY <2>2 DEF i
<1> QED
  BY <1>1, <1>2, <1>3

\* It is asymmetric, and Beats() is that order.
LEMMA OrderAsymmetric ==
  ASSUME ClaimTypes, NEW e \in claims, NEW f \in claims, before(e.claim, f.claim)
  PROVE  ~Beats(f.claim, e.claim)
  BY OrderTypes DEF before, Beats, hasSamePolicyRank, exact

LEMMA OrderIrreflexive ==
  ASSUME ClaimTypes, NEW e \in claims
  PROVE  ~Beats(e.claim, e.claim)
  BY OrderTypes DEF Beats, hasSamePolicyRank, exact

\* What resolve() makes of a fresh decision about the first remaining candidate.
LEMMA ApplyStep ==
  ASSUME ResolverInv, NEW e \in claims, Current(e), NEW decision,
         decision.probe = probeOf(e, res.request, res.config[e.claim.provider]),
         Apply(e, decision), UNCHANGED catalog
  PROVE  ResInv' /\ DecisionsFresh' /\ BestWins' /\ PinHolds'
<1> DEFINE seen == res.considered \cup {[entry |-> e, decision |-> decision]}
           rest == res.remaining \ {e}
<1>1. res.phase = "running" /\ e \in res.remaining
  BY DEF Current
<1>2. ResFields /\ Shaped(res.request, res.request.route) /\ res.request.route \in Routes
  BY <1>1 DEF ResolverInv, ResInv
<1>3. /\ res'.request = res.request /\ res'.pin = res.pin /\ res'.config = res.config
      /\ res'.considered = seen /\ res'.remaining = rest /\ ResFields'
  BY <1>2 DEF Apply, ResFields
<1>4. claims' = claims
  BY DEF catalog
<1>5. candidates(res.request, res.pin)' = candidates(res.request, res.pin)
  BY <1>3, <1>4 DEF candidates, matches
<1>6. DecisionsFresh'
  BY <1>1, <1>3, <1>4 DEF ResolverInv, DecisionsFresh
<1>7. e \in candidates(res.request, res.pin)
  BY <1>1 DEF ResolverInv, ResInv, Walk
<1>8. CASE decision.outcome = "accept"
  <2>1. res'.phase = "returned" /\ res'.status = "Selected" /\ res'.winner = {e}
    BY <1>2, <1>8 DEF Apply, ResFields
  <2>2. BestWins'
    <3> SUFFICES ASSUME NEW f \in claims, matches(f.claim, res.request, res.pin),
                        Beats(f.claim, e.claim)
                 PROVE  \E x \in res.considered : x.entry = f /\ x.decision.outcome # "accept"
      BY <1>3, <1>4, <2>1 DEF BestWins, Beats, exact, hasSamePolicyRank, matches
    <3>1. f \in candidates(res.request, res.pin)
      BY DEF candidates
    <3>2. f # e
      BY OrderIrreflexive DEF ResolverInv, CatalogFacts
    <3>3. f \notin res.remaining
      BY <3>2, OrderAsymmetric DEF ResolverInv, CatalogFacts, Current
    <3> QED
      BY <1>1, <3>1, <3>3 DEF ResolverInv, ResInv, Walk
  <2>3. PinHolds'
    BY <1>3, <1>7, <2>1 DEF PinHolds, candidates, matches
  <2> QED
    BY <1>2, <1>3, <1>6, <2>1, <2>2, <2>3 DEF ResInv
<1>9. CASE decision.outcome # "accept"
  <2>1. /\ res'.phase = IF rest = {} THEN "returned" ELSE "running"
        /\ res'.winner = {}
        /\ res'.status = IF rest # {} THEN "Pending"
                         ELSE IF res.pin # NoProvider THEN "PinnedProviderRejected"
                         ELSE "NoProviderAccepted"
    BY <1>1, <1>2, <1>9 DEF Apply, ResFields, ResolverInv, ResInv
  <2>2. Walk'
    <3> DEFINE C == candidates(res.request, res.pin)
    <3>1. res.remaining \subseteq C
          /\ \A f \in C \ res.remaining :
               \E x \in res.considered : x.entry = f /\ x.decision.outcome # "accept"
      BY <1>1 DEF ResolverInv, ResInv, Walk
    <3> HIDE DEF C
    <3>2. ASSUME NEW f \in C \ rest
          PROVE  \E x \in seen : x.entry = f /\ x.decision.outcome # "accept"
      <4>1. CASE f = e
        <5> DEFINE x == [entry |-> e, decision |-> decision]
        <5>1. x \in seen /\ x.entry = e /\ x.decision = decision
          OBVIOUS
        <5> QED
          BY <1>9, <4>1, <5>1
      <4>2. CASE f # e
        BY <3>1, <4>2
      <4> QED
        BY <4>1, <4>2
    <3>3. C' = C
      BY <1>5 DEF C
    <3> QED
      BY <1>3, <3>1, <3>2, <3>3 DEF Walk, C
  <2>3. BestWins' /\ PinHolds'
    BY <1>3, <2>1 DEF BestWins, PinHolds
  <2> QED
    BY <1>2, <1>3, <1>6, <2>1, <2>2, <2>3 DEF ResInv
<1> QED
  BY <1>8, <1>9

\* A cached answer whose key is that of e answers a probe of e as it is now.
LEMMA HitIsFresh ==
  ASSUME ResolverInv, NEW e \in claims, res.phase = "running", NEW x \in cachedFor(e)
  PROVE  x.decision.probe = probeOf(e, res.request, res.config[e.claim.provider])
<1> DEFINE r == res.request.route  p == x.decision.probe
<1>1. Shaped(res.request, r) /\ r \in Routes
  BY DEF ResolverInv, ResInv
<1>2. x \in cache[r] /\ x.key = keyOf(e, res.request, res.config[e.claim.provider])
  BY DEF cachedFor
<1>3. /\ Shaped(p.request, r)
      /\ p = [provider |-> p.provider, id |-> p.id,
              provider_generation |-> p.provider_generation,
              request |-> p.request, digest |-> p.digest]
      /\ x.key = [provider |-> p.provider, id |-> p.id,
                  provider_generation |-> p.provider_generation,
                  encoding |-> p.request.encoding, type |-> p.request.type,
                  schema |-> p.request.schema, config |-> p.digest]
  BY <1>1, <1>2 DEF ResolverInv, CacheHonest
<1>4. /\ p.provider = e.claim.provider /\ p.id = e.claim.id
      /\ p.provider_generation = e.provider_generation
      /\ p.digest = res.config[e.claim.provider]
      /\ p.request.encoding = res.request.encoding /\ p.request.type = res.request.type
      /\ p.request.schema = res.request.schema
  BY <1>2, <1>3 DEF keyOf
<1>5. p.request = res.request
  BY <1>1, <1>3, <1>4 DEF Shaped
<1> QED
  BY <1>3, <1>4, <1>5 DEF probeOf

\* A new answer is kept under the key of its probe and in the cache of its route,
\* with a number no other answer has.
LEMMA ProbeKeepsCache ==
  ASSUME ResolverInv, NEW e \in claims, NEW o, Probe(e, o)
  PROVE  CacheHonest' /\ RoutesKeepApart'
<1> DEFINE digest == res.config[e.claim.provider]
           r == res.request.route
           decision == [outcome |-> o, number |-> probes + 1,
                        probe |-> probeOf(e, res.request, digest)]
           new == [key |-> keyOf(e, res.request, digest), decision |-> decision]
<1>1. probes \in Nat /\ probes' = probes + 1
  BY DEF Probe, ResolverInv, CatalogFacts, Counters
<1>2. res.phase = "running"
  BY DEF Probe, Current
<1>3. Shaped(res.request, r) /\ r \in Routes
  BY <1>2 DEF ResolverInv, ResInv
<1>4. cache' = [cache EXCEPT ![r] = @ \cup {new}]
  BY DEF Probe
<1>5. /\ new.decision.number = probes + 1
      /\ new.decision.probe = probeOf(e, res.request, digest)
      /\ new.key = keyOf(e, res.request, digest)
  OBVIOUS
<1>6. /\ cache' = [s \in Routes |-> cache'[s]]
      /\ cache'[r] = cache[r] \cup {new}
      /\ \A s \in Routes : s # r => cache'[s] = cache[s]
  BY <1>3, <1>4 DEF ResolverInv, CacheHonest
<1> HIDE DEF new
<1>7. ASSUME NEW s \in Routes, NEW x \in cache'[s]
      PROVE  LET p == x.decision.probe
             IN  /\ Shaped(p.request, s)
                 /\ p = [provider |-> p.provider, id |-> p.id,
                         provider_generation |-> p.provider_generation,
                         request |-> p.request, digest |-> p.digest]
                 /\ x.key = [provider |-> p.provider, id |-> p.id,
                             provider_generation |-> p.provider_generation,
                             encoding |-> p.request.encoding, type |-> p.request.type,
                             schema |-> p.request.schema, config |-> p.digest]
                 /\ x.decision.number \in 1..probes'
  <2>1. CASE x \in cache[s]
    <3>1. x.decision.number \in 1..probes
      BY <2>1 DEF ResolverInv, CacheHonest
    <3>2. x.decision.number \in 1..probes'
      BY <1>1, <3>1
    <3> QED
      BY <2>1, <3>2 DEF ResolverInv, CacheHonest
  <2>2. CASE s = r /\ x = new
    <3>1. /\ x.decision.number = probes + 1
          /\ x.decision.probe = probeOf(e, res.request, digest)
          /\ x.key = keyOf(e, res.request, digest)
      BY <1>5, <2>2
    <3>2. x.decision.number \in 1..probes'
      BY <1>1, <3>1
    <3>3. Shaped(x.decision.probe.request, s)
      BY <1>3, <2>2, <3>1 DEF probeOf
    <3> QED
      BY <3>1, <3>2, <3>3 DEF probeOf, keyOf
  <2> QED
    BY <1>6, <2>1, <2>2
<1>8. CacheHonest'
  BY <1>6, <1>7 DEF CacheHonest, Shaped
<1>9. RoutesKeepApart'
  <2>1. \A s \in Routes : \A x \in cache[s] : x.decision.number # new.decision.number
    <3> SUFFICES ASSUME NEW s \in Routes, NEW x \in cache[s]
                 PROVE  x.decision.number # new.decision.number
      OBVIOUS
    <3>1. x.decision.number \in 1..probes
      BY DEF ResolverInv, CacheHonest
    <3> QED
      BY <1>1, <1>5, <3>1
  <2> SUFFICES ASSUME NEW x \in cache'["scalar"], NEW y \in cache'["object"]
               PROVE  x.decision.number # y.decision.number
    BY DEF RoutesKeepApart
  <2>2. CASE r = "scalar"
    BY <1>6, <2>1, <2>2 DEF ResolverInv, RoutesKeepApart, Routes
  <2>3. CASE r = "object"
    BY <1>6, <2>1, <2>3 DEF ResolverInv, RoutesKeepApart, Routes
  <2> QED
    BY <1>3, <2>2, <2>3 DEF Routes
<1> QED
  BY <1>8, <1>9

\* Between two calls the host changes the catalog or drops cached answers.
LEMMA HostStep ==
  ASSUME ResolverInv, CatalogFacts', res' = Idle, probes' = probes,
         \A r \in Routes : cache'[r] \subseteq cache[r], cache' = [r \in Routes |-> cache'[r]]
  PROVE  ResolverInv'
<1>1. ResInv' /\ DecisionsFresh' /\ BestWins' /\ PinHolds'
  BY DEF Idle, ResInv, DecisionsFresh, BestWins, PinHolds
<1>2. CacheHonest'
  <2> SUFFICES ASSUME NEW r \in Routes, NEW x \in cache'[r]
               PROVE  LET p == x.decision.probe
                      IN  /\ Shaped(p.request, r)
                          /\ p = [provider |-> p.provider, id |-> p.id,
                                  provider_generation |-> p.provider_generation,
                                  request |-> p.request, digest |-> p.digest]
                          /\ x.key = [provider |-> p.provider, id |-> p.id,
                                      provider_generation |-> p.provider_generation,
                                      encoding |-> p.request.encoding, type |-> p.request.type,
                                      schema |-> p.request.schema, config |-> p.digest]
                          /\ x.decision.number \in 1..probes
    BY DEF CacheHonest, Shaped
  <2>1. x \in cache[r]
    OBVIOUS
  <2> QED
    BY <2>1 DEF ResolverInv, CacheHonest
<1>3. RoutesKeepApart'
  BY DEF ResolverInv, RoutesKeepApart, Routes
<1> QED
  BY <1>1, <1>2, <1>3 DEF ResolverInv

\* The start of resolve().
LEMMA BeginStep ==
  ASSUME ResolverInv, NEW q \in Requests, NEW pin, NEW config, ResolveBegin(q, pin, config)
  PROVE  ResolverInv'
<1> DEFINE n == normalRequest(q)  C == candidates(n, pin)
<1>1. UNCHANGED <<catalog, resolver>>
  BY DEF ResolveBegin
<1>2. claims' = claims /\ cache' = cache /\ probes' = probes /\ CatalogFacts'
  BY <1>1 DEF catalog, resolver, ResolverInv, CatalogFacts, Counters, ClaimTypes, CatalogInv
<1>3. CacheHonest' /\ RoutesKeepApart'
  BY <1>2 DEF ResolverInv, CacheHonest, RoutesKeepApart, Shaped
<1>4. Shaped(n, n.route) /\ n.route \in Routes
  BY ResolverAssumption DEF normalRequest, Shaped
<1>5. /\ res'.phase = IF C = {} THEN "returned" ELSE "running"
      /\ res'.request = n /\ res'.pin = pin /\ res'.config = config
      /\ res'.remaining = C /\ res'.considered = {} /\ res'.winner = {}
      /\ res'.status = IF C # {} THEN "Pending"
                       ELSE IF pin # NoProvider THEN "PinnedProviderUnavailable"
                       ELSE "NoCandidates"
      /\ ResFields'
  BY DEF ResolveBegin, ResFields
<1>6. candidates(res.request, res.pin)' = C
  BY <1>2, <1>5 DEF candidates, matches
<1>7. Walk'
  BY <1>5, <1>6 DEF Walk
<1>8. ResInv'
  BY <1>4, <1>5, <1>7 DEF ResInv, Shaped
<1>9. DecisionsFresh' /\ BestWins' /\ PinHolds'
  BY <1>5 DEF DecisionsFresh, BestWins, PinHolds
<1> QED
  BY <1>2, <1>3, <1>8, <1>9 DEF ResolverInv

LEMMA ResolverStep ==
  ASSUME ResolverInv, [Next]_vars
  PROVE  ResolverInv'
<1> USE DEF Mutates
<1>1. CatalogFacts'
  BY CatalogStep DEF ResolverInv
<1>2. cache = [r \in Routes |-> cache[r]]
  BY DEF ResolverInv, CacheHonest
<1>3. CASE UNCHANGED vars
  <2>1. res' = res /\ cache' = cache /\ probes' = probes /\ claims' = claims
    BY <1>3 DEF vars, resolver, catalog
  <2> QED
    BY <1>1, <2>1 DEF ResolverInv, CacheHonest, Shaped, RoutesKeepApart, ResInv, ResFields, Walk,
                      DecisionsFresh, BestWins, PinHolds, candidates, matches, Beats, exact, hasSamePolicyRank,
                      probeOf
<1>4. ASSUME NEW a \in Artifacts, Admit(a) PROVE ResolverInv'
  BY <1>1, <1>2, <1>4, HostStep DEF Admit, resolver
<1>5. ASSUME NEW p \in Providers, RemoveProvider(p) PROVE ResolverInv'
  BY <1>1, <1>2, <1>5, HostStep DEF RemoveProvider, resolver
<1>6. ASSUME NEW p \in Providers, invalidateProviderConfig(p) PROVE ResolverInv'
  BY <1>1, <1>6, HostStep DEF invalidateProviderConfig
<1>7. CASE ClearCatalog
  BY <1>1, <1>2, <1>7, HostStep DEF ClearCatalog, resolver
<1>8. CASE clearAllCachedState
  BY <1>1, <1>8, HostStep DEF clearAllCachedState
<1>9. CASE ConfigThrows
  BY <1>1, <1>2, <1>9, HostStep DEF ConfigThrows, resolver
<1>10. ASSUME NEW e \in claims, CacheHit(e) PROVE ResolverInv'
  <2>1. cache' = cache /\ probes' = probes /\ UNCHANGED catalog /\ Current(e)
    BY <1>10 DEF CacheHit
  <2>2. PICK x \in cachedFor(e) : Apply(e, x.decision)
    BY <1>10 DEF CacheHit
  <2>3. ResInv' /\ DecisionsFresh' /\ BestWins' /\ PinHolds'
    BY <2>1, <2>2, HitIsFresh, ApplyStep DEF Current
  <2>4. CacheHonest' /\ RoutesKeepApart'
    BY <2>1 DEF ResolverInv, CacheHonest, RoutesKeepApart, Shaped
  <2> QED
    BY <1>1, <2>3, <2>4 DEF ResolverInv
<1>11. ASSUME NEW e \in claims, NEW o, Probe(e, o) PROVE ResolverInv'
  <2> DEFINE decision == [outcome |-> o, number |-> probes + 1,
                          probe |-> probeOf(e, res.request, res.config[e.claim.provider])]
  <2>1. Apply(e, decision) /\ UNCHANGED catalog /\ Current(e)
    BY <1>11 DEF Probe
  <2>2. decision.probe = probeOf(e, res.request, res.config[e.claim.provider])
    OBVIOUS
  <2> HIDE DEF decision
  <2>3. ResInv' /\ DecisionsFresh' /\ BestWins' /\ PinHolds'
    BY <2>1, <2>2, ApplyStep
  <2> QED
    BY <1>1, <1>11, <2>3, ProbeKeepsCache DEF ResolverInv
<1> QED
  BY <1>3, <1>4, <1>5, <1>6, <1>7, <1>8, <1>9, <1>10, <1>11, BeginStep DEF Next

LEMMA ResolverInit == Init => ResolverInv
  BY DEF Init, CatalogInit, ResolverInv, CatalogFacts, Counters, ClaimTypes, CatalogInv, CacheHonest,
         RoutesKeepApart, Routes, Idle, ResInv, DecisionsFresh, BestWins, PinHolds

\* resolve() never acts on a stale answer, picks the best claim that says yes, lets
\* a pin fail closed, and never gives one instance to both routes: for every
\* catalog, configuration and history of loads, removals and invalidations.
THEOREM ResolverSafety ==
  Spec => [](DecisionsFresh /\ BestWins /\ PinHolds /\ RoutesKeepApart)
<1>1. ResolverInv /\ [Next]_vars => ResolverInv'
  BY ResolverStep
<1>2. ResolverInv => DecisionsFresh /\ BestWins /\ PinHolds /\ RoutesKeepApart
  BY DEF ResolverInv
<1> QED
  BY ResolverInit, <1>1, <1>2, PTL DEF Spec

\* resolve() answers as the documented policy says, pinned or not.
THEOREM ResolverPolicy == Spec => []PolicyDecides
<1>1. ResolverInv /\ [Next]_vars => ResolverInv'
  BY ResolverStep
<1>2. ResolverInv => PolicyDecides
  BY DEF ResolverInv, PolicyDecides
<1> QED
  BY ResolverInit, <1>1, <1>2, PTL DEF Spec

-----------------------------------------------------------------------------
(* A repeated call.                                                        *)

\* The key of a candidate of the call under way, and the candidates.
Key(e) == keyOf(e, res.request, res.config[e.claim.provider])
Cands == candidates(res.request, res.pin)

\* No key is answered in two ways.
CacheFunctional == \A r \in Routes : \A x, y \in cache[r] : x.key = y.key => x = y

\* f was refused in this call; a refusal of f is cached that is no younger than n.
Refused(f) == \E x \in res.considered : x.entry = f /\ x.decision.outcome # "accept"
RefusalCached(f, n) ==
  \E y \in cache[res.request.route] :
    y.key = Key(f) /\ y.decision.outcome # "accept" /\ y.decision.number =< n

\* Whatever a call considered is cached when it returns.
Remembered ==
  res.phase # "idle" =>
    /\ res.probed \in Nat /\ res.probed =< probes
    /\ \A x \in res.considered :
         \E y \in cache[res.request.route] : y.key = Key(x.entry) /\ y.decision = x.decision

\* What a call has answered: nothing so far, nothing after all were refused, or the
\* first candidate that was not.
AnswerExplained ==
  /\ res.phase = "running" => res.answer = <<>>
  /\ res.phase = "returned" =>
       \/ res.answer = <<>> /\ \A f \in Cands : Refused(f)
       \/ \E x \in res.considered :
            /\ x.entry \in Cands /\ x.decision.outcome = "accept"
            /\ res.answer = <<identityOf(x.entry.claim), x.decision.number>>
            /\ \A f \in Cands : before(f.claim, x.entry.claim) => Refused(f)

\* What the cache will make a repeated call answer.
Forecast ==
  res.phase = "running" /\ res.expected # NoAnswer =>
    \/ res.expected = <<>> /\ \A f \in Cands : RefusalCached(f, res.probed)
    \/ \E w \in res.remaining, y \in cache[res.request.route] :
         /\ y.key = Key(w) /\ y.decision.outcome = "accept" /\ y.decision.number =< res.probed
         /\ res.expected = <<identityOf(w.claim), y.decision.number>>
         /\ \A f \in Cands : before(f.claim, w.claim) => RefusalCached(f, res.probed)

\* The inductive invariant of repeated calls, beside ResolverInv.
RepeatInv == CacheFunctional /\ Remembered /\ AnswerExplained /\ Forecast /\ RepeatIsStable

LEMMA OrderStrict ==
  ASSUME ClaimTypes, NEW e \in claims, NEW f \in claims, before(e.claim, f.claim)
  PROVE  ~before(f.claim, e.claim)
BY OrderTypes DEF before, exact

\* A repeated call finds the first remaining candidate in the cache: refused, or the
\* one that was the answer.
LEMMA ForecastHit ==
  ASSUME ResolverInv, RepeatInv, NEW e \in claims, Current(e), res.expected # NoAnswer
  PROVE  \E y \in cachedFor(e) :
           /\ y.decision.number =< res.probed
           /\ y.decision.outcome = "accept" =>
                res.expected = <<identityOf(e.claim), y.decision.number>>
           /\ y.decision.outcome # "accept" =>
                \/ res.expected = <<>> /\ \A f \in Cands : RefusalCached(f, res.probed)
                \/ \E w \in res.remaining \ {e}, z \in cache[res.request.route] :
                     /\ z.key = Key(w) /\ z.decision.outcome = "accept" /\ z.decision.number =< res.probed
                     /\ res.expected = <<identityOf(w.claim), z.decision.number>>
                     /\ \A f \in Cands : before(f.claim, w.claim) => RefusalCached(f, res.probed)
<1>1. res.phase = "running" /\ e \in res.remaining /\ e \in Cands /\ res.remaining \subseteq Cands
  BY DEF Current, ResolverInv, ResInv, Walk, Cands
<1>2. \A y \in cache[res.request.route] : y.key = Key(e) => y \in cachedFor(e)
  BY DEF cachedFor, Key
<1>3. CASE res.expected = <<>> /\ \A f \in Cands : RefusalCached(f, res.probed)
  <2>1. RefusalCached(e, res.probed)
    BY <1>1, <1>3
  <2> QED
    BY <1>2, <1>3, <2>1 DEF RefusalCached
<1>4. ASSUME NEW w \in res.remaining, NEW z \in cache[res.request.route],
             z.key = Key(w), z.decision.outcome = "accept", z.decision.number =< res.probed,
             res.expected = <<identityOf(w.claim), z.decision.number>>,
             \A f \in Cands : before(f.claim, w.claim) => RefusalCached(f, res.probed)
      PROVE  \E y \in cachedFor(e) :
               /\ y.decision.number =< res.probed
               /\ y.decision.outcome = "accept" =>
                    res.expected = <<identityOf(e.claim), y.decision.number>>
               /\ y.decision.outcome # "accept" =>
                    \E v \in res.remaining \ {e}, x \in cache[res.request.route] :
                         /\ x.key = Key(v) /\ x.decision.outcome = "accept" /\ x.decision.number =< res.probed
                         /\ res.expected = <<identityOf(v.claim), x.decision.number>>
                         /\ \A f \in Cands : before(f.claim, v.claim) => RefusalCached(f, res.probed)
  <2>1. CASE w = e
    BY <1>2, <1>4, <2>1
  <2>2. CASE w # e
    <3>1. before(e.claim, w.claim)
      BY <2>2 DEF Current
    <3>2. PICK y \in cache[res.request.route] :
            y.key = Key(e) /\ y.decision.outcome # "accept" /\ y.decision.number =< res.probed
      BY <1>1, <1>4, <3>1 DEF RefusalCached
    <3>3. w \in res.remaining \ {e}
      BY <2>2
    <3> QED
      BY <1>2, <1>4, <3>2, <3>3
  <2> QED
    BY <2>1, <2>2
<1> QED
  BY <1>1, <1>3, <1>4 DEF RepeatInv, Forecast

\* The steps of resolve() keep the call and only add to its route's cache.
LEMMA CallKept ==
  ASSUME ResolverInv, NEW e \in claims, Current(e), NEW decision, Apply(e, decision), UNCHANGED catalog
  PROVE  /\ res'.request = res.request /\ res'.pin = res.pin /\ res'.config = res.config
         /\ res'.probed = res.probed /\ res'.expected = res.expected
         /\ res'.considered = res.considered \cup {[entry |-> e, decision |-> decision]}
         /\ res'.remaining = res.remaining \ {e}
         /\ claims' = claims /\ Cands' = Cands /\ \A f : Key(f)' = Key(f)
<1>1. res.phase = "running" /\ ResFields
  BY DEF Current, ResolverInv, ResInv
<1>2. /\ res'.request = res.request /\ res'.pin = res.pin /\ res'.config = res.config
      /\ res'.probed = res.probed /\ res'.expected = res.expected
      /\ res'.considered = res.considered \cup {[entry |-> e, decision |-> decision]}
      /\ res'.remaining = res.remaining \ {e}
  BY <1>1 DEF Apply, ResFields
<1>3. claims' = claims
  BY DEF catalog
<1>4. Cands' = Cands
  BY <1>2, <1>3 DEF Cands, candidates, matches
<1>5. \A f : Key(f)' = Key(f)
  BY <1>2 DEF Key, keyOf
<1> QED
  BY <1>2, <1>3, <1>4, <1>5

\* A cached refusal stays one as the cache grows.
LEMMA RefusalsStay ==
  ASSUME ResolverInv, NEW e \in claims, Current(e), NEW decision, Apply(e, decision), UNCHANGED catalog,
         \A r \in Routes : cache[r] \subseteq cache'[r],
         NEW f, RefusalCached(f, res.probed)
  PROVE  RefusalCached(f, res.probed)'
<1>1. res'.request = res.request /\ res'.probed = res.probed /\ Key(f)' = Key(f)
  BY CallKept
<1>2. res.request.route \in Routes
  BY DEF Current, ResolverInv, ResInv
<1> QED
  BY <1>1, <1>2 DEF RefusalCached

\* What a decision makes of a call, provided that it is cached by then and, of a
\* repeated call, that it is the decision forecast.
LEMMA ApplyRepeat ==
  ASSUME ResolverInv, RepeatInv, NEW e \in claims, Current(e), NEW decision,
         Apply(e, decision), UNCHANGED catalog,
         \A r \in Routes : cache[r] \subseteq cache'[r], probes' \in Nat, probes =< probes',
         \E y \in cache'[res.request.route] : y.key = Key(e) /\ y.decision = decision,
         res.expected # NoAnswer =>
           /\ decision.number =< res.probed
           /\ decision.outcome = "accept" => res.expected = <<identityOf(e.claim), decision.number>>
           /\ decision.outcome # "accept" =>
                \/ res.expected = <<>> /\ \A f \in Cands : RefusalCached(f, res.probed)
                \/ \E w \in res.remaining \ {e}, z \in cache[res.request.route] :
                     /\ z.key = Key(w) /\ z.decision.outcome = "accept" /\ z.decision.number =< res.probed
                     /\ res.expected = <<identityOf(w.claim), z.decision.number>>
                     /\ \A f \in Cands : before(f.claim, w.claim) => RefusalCached(f, res.probed)
  PROVE  Remembered' /\ AnswerExplained' /\ Forecast' /\ RepeatIsStable'
<1> DEFINE new == [entry |-> e, decision |-> decision]
<1>1. /\ res'.request = res.request /\ res'.probed = res.probed /\ res'.expected = res.expected
      /\ res'.considered = res.considered \cup {new} /\ res'.remaining = res.remaining \ {e}
      /\ claims' = claims /\ Cands' = Cands /\ \A f : Key(f)' = Key(f)
  BY CallKept
<1>2. new.entry = e /\ new.decision = decision
  OBVIOUS
<1> HIDE DEF new
<1>3. /\ res.phase = "running" /\ ResFields /\ Walk /\ res.request.route \in Routes
      /\ e \in res.remaining /\ e \in Cands /\ res.remaining \subseteq Cands /\ Cands \subseteq claims
  BY DEF Current, ResolverInv, ResInv, Walk, Cands, candidates
<1>4. Remembered'
  <2>1. res.probed \in Nat /\ res.probed =< probes /\ probes \in Nat
    BY <1>3 DEF RepeatInv, Remembered, ResolverInv, CatalogFacts, Counters
  <2>2. res'.probed \in Nat /\ res'.probed =< probes'
    BY <1>1, <2>1
  <2>3. ASSUME NEW x \in res'.considered
        PROVE  \E y \in cache'[res'.request.route] : y.key = Key(x.entry)' /\ y.decision = x.decision
    <3>1. CASE x \in res.considered
      BY <1>1, <1>3, <3>1 DEF RepeatInv, Remembered
    <3>2. CASE x = new
      BY <1>1, <1>2, <3>2
    <3> QED
      BY <1>1, <3>1, <3>2
  <2> QED
    BY <2>2, <2>3 DEF Remembered
<1>5. \A f \in Cands \ res.remaining : Refused(f) /\ Refused(f)'
  BY <1>1, <1>3 DEF Walk, Refused, Cands
<1>6. \A x \in res'.considered : res.expected # NoAnswer => x.decision.number =< res.probed
  BY <1>1, <1>2, <1>3 DEF RepeatInv, RepeatIsStable
<1>7. CASE decision.outcome = "accept"
  <2>1. res'.phase = "returned" /\ res'.answer = <<identityOf(e.claim), decision.number>>
    BY <1>3, <1>7 DEF Apply, ResFields
  <2>2. ASSUME NEW f \in Cands, before(f.claim, e.claim)
        PROVE  Refused(f)'
    <3>1. f \in claims /\ ~before(e.claim, f.claim)
      BY <1>3, <2>2, OrderStrict DEF ResolverInv, CatalogFacts
    <3>2. f \notin res.remaining
      <4>1. f # e
        BY <2>2, <3>1
      <4> QED
        BY <3>1, <4>1 DEF Current
    <3> QED
      BY <1>5, <3>2
  <2>3. AnswerExplained'
    <3>1. new \in res'.considered /\ new.entry \in Cands'
      BY <1>1, <1>2, <1>3
    <3>2. \A f \in Cands' : before(f.claim, new.entry.claim)' => Refused(f)'
      BY <1>1, <1>2, <2>2 DEF before, exact
    <3> QED
      BY <1>2, <1>7, <2>1, <3>1, <3>2 DEF AnswerExplained, identityOf
  <2>4. RepeatIsStable'
    BY <1>1, <1>6, <1>7, <2>1 DEF RepeatIsStable
  <2>5. Forecast'
    BY <2>1 DEF Forecast
  <2> QED
    BY <1>4, <2>3, <2>4, <2>5
<1>8. CASE decision.outcome # "accept"
  <2>1. /\ res'.phase = IF res.remaining \ {e} = {} THEN "returned" ELSE "running"
        /\ res'.answer = <<>>
    BY <1>3, <1>8 DEF Apply, ResFields, RepeatInv, AnswerExplained
  <2>2. AnswerExplained'
    <3>1. Refused(e)'
      BY <1>1, <1>2, <1>8 DEF Refused
    <3>2. ASSUME res'.phase = "returned", NEW f \in Cands
          PROVE  Refused(f)'
      BY <1>5, <2>1, <3>1, <3>2
    <3> QED
      BY <1>1, <2>1, <3>2 DEF AnswerExplained
  <2>3. ASSUME res.expected # NoAnswer
        PROVE  \/ res.expected = <<>> /\ \A f \in Cands : RefusalCached(f, res.probed)'
               \/ \E w \in res.remaining \ {e}, z \in cache[res.request.route] :
                    /\ z.key = Key(w) /\ z.decision.outcome = "accept" /\ z.decision.number =< res.probed
                    /\ res.expected = <<identityOf(w.claim), z.decision.number>>
                    /\ \A f \in Cands : before(f.claim, w.claim) => RefusalCached(f, res.probed)'
    <3>1. \A f \in Cands : RefusalCached(f, res.probed) => RefusalCached(f, res.probed)'
      BY RefusalsStay
    <3> QED
      BY <1>8, <2>3, <3>1
  <2>4. Forecast'
    <3> SUFFICES ASSUME res'.phase = "running", res'.expected # NoAnswer
                 PROVE  \/ res'.expected = <<>> /\ \A f \in Cands' : RefusalCached(f, res.probed)'
                        \/ \E w \in res'.remaining, y \in cache'[res'.request.route] :
                             /\ y.key = Key(w)' /\ y.decision.outcome = "accept"
                             /\ y.decision.number =< res'.probed
                             /\ res'.expected = <<identityOf(w.claim), y.decision.number>>
                             /\ \A f \in Cands' : before(f.claim, w.claim) => RefusalCached(f, res.probed)'
      BY DEF Forecast, before, exact, identityOf
    <3>1. cache[res.request.route] \subseteq cache'[res'.request.route]
      BY <1>1, <1>3
    <3> QED
      BY <1>1, <2>3, <3>1
  <2>5. RepeatIsStable'
    <3>1. ASSUME res'.phase = "returned", res.expected # NoAnswer
          PROVE  res.expected = <<>>
      BY <2>1, <2>3, <3>1
    <3> QED
      BY <1>1, <1>6, <2>1, <3>1 DEF RepeatIsStable
  <2> QED
    BY <1>4, <2>2, <2>4, <2>5
<1> QED
  BY <1>7, <1>8

\* A repeated call is forecast by what the first one left in the cache.
LEMMA BeginRepeat ==
  ASSUME ResolverInv, RepeatInv, NEW q \in Requests, NEW pin, NEW config, ResolveBegin(q, pin, config)
  PROVE  RepeatInv'
<1> DEFINE n == normalRequest(q)  C == candidates(n, pin)
<1>1. /\ res'.phase = IF C = {} THEN "returned" ELSE "running"
      /\ res'.request = n /\ res'.pin = pin /\ res'.config = config
      /\ res'.remaining = C /\ res'.considered = {} /\ res'.answer = <<>> /\ res'.probed = probes
      /\ res'.expected # NoAnswer =>
           /\ res.phase = "returned" /\ res.request = n /\ res.pin = pin /\ res.config = config
           /\ res'.expected = res.answer
  BY DEF ResolveBegin
<1>2. claims' = claims /\ cache' = cache /\ probes' = probes /\ probes \in Nat
  BY DEF ResolveBegin, catalog, resolver, ResolverInv, CatalogFacts, Counters
<1>3. Cands' = C
  BY <1>1, <1>2 DEF Cands, candidates, matches
<1>4. CacheFunctional' /\ Remembered'
  BY <1>1, <1>2 DEF RepeatInv, CacheFunctional, Remembered
<1>5. AnswerExplained'
  BY <1>1, <1>3 DEF AnswerExplained
<1>6. ASSUME res'.expected # NoAnswer
      PROVE  /\ Cands = C /\ \A f : Key(f)' = Key(f)
             /\ \A f : Refused(f) => RefusalCached(f, res.probed)'
             /\ \A x \in res.considered : \E y \in cache[res.request.route] :
                  y.key = Key(x.entry) /\ y.decision = x.decision /\ y.decision.number =< probes
  <2>1. Cands = C
    BY <1>1, <1>6 DEF Cands
  <2>2. \A f : Key(f)' = Key(f)
    BY <1>1, <1>6 DEF Key, keyOf
  <2>3. res.request.route \in Routes /\ res'.request = res.request
    BY <1>1, <1>6 DEF ResolverInv, ResInv
  <2>4. \A y \in cache[res.request.route] : y.decision.number =< probes
    <3>1. \A r \in Routes : \A y \in cache[r] : y.decision.number \in 1..probes
      BY DEF ResolverInv, CacheHonest
    <3>2. \A y \in cache[res.request.route] : y.decision.number \in 1..probes
      BY <2>3, <3>1
    <3> QED
      BY <1>2, <3>2
  <2>5. \A x \in res.considered : \E y \in cache[res.request.route] :
          y.key = Key(x.entry) /\ y.decision = x.decision
    BY <1>1, <1>6 DEF RepeatInv, Remembered
  <2>6. ASSUME NEW f, Refused(f) PROVE RefusalCached(f, res.probed)'
    BY <1>1, <1>2, <2>2, <2>3, <2>4, <2>5, <2>6 DEF Refused, RefusalCached
  <2> QED
    BY <2>1, <2>2, <2>4, <2>5, <2>6
<1>7. ASSUME res'.expected # NoAnswer
      PROVE  \/ res.answer = <<>> /\ \A f \in C : RefusalCached(f, res.probed)'
             \/ \E w \in C, y \in cache[res.request.route] :
                  /\ y.key = Key(w)' /\ y.decision.outcome = "accept" /\ y.decision.number =< probes
                  /\ res.answer = <<identityOf(w.claim), y.decision.number>>
                  /\ \A f \in C : before(f.claim, w.claim) => RefusalCached(f, res.probed)'
  <2>1. res.phase = "returned"
    BY <1>1, <1>7
  <2>2. CASE res.answer = <<>> /\ \A f \in Cands : Refused(f)
    BY <1>6, <1>7, <2>2
  <2>3. ASSUME NEW x \in res.considered, x.entry \in Cands, x.decision.outcome = "accept",
               res.answer = <<identityOf(x.entry.claim), x.decision.number>>,
               \A f \in Cands : before(f.claim, x.entry.claim) => Refused(f)
        PROVE  \E w \in C, y \in cache[res.request.route] :
                  /\ y.key = Key(w)' /\ y.decision.outcome = "accept" /\ y.decision.number =< probes
                  /\ res.answer = <<identityOf(w.claim), y.decision.number>>
                  /\ \A f \in C : before(f.claim, w.claim) => RefusalCached(f, res.probed)'
    <3>1. PICK y \in cache[res.request.route] :
            y.key = Key(x.entry) /\ y.decision = x.decision /\ y.decision.number =< probes
      BY <1>6, <1>7
    <3>2. x.entry \in C /\ y.key = Key(x.entry)'
      BY <1>6, <1>7, <2>3, <3>1
    <3>3. \A f \in C : before(f.claim, x.entry.claim) => RefusalCached(f, res.probed)'
      BY <1>6, <1>7, <2>3
    <3> QED
      BY <2>3, <3>1, <3>2, <3>3
  <2> QED
    BY <2>1, <2>2, <2>3 DEF RepeatInv, AnswerExplained
<1>8. Forecast'
  <2> SUFFICES ASSUME res'.phase = "running", res'.expected # NoAnswer
               PROVE  \/ res'.expected = <<>> /\ \A f \in Cands' : RefusalCached(f, res.probed)'
                      \/ \E w \in res'.remaining, y \in cache'[res'.request.route] :
                           /\ y.key = Key(w)' /\ y.decision.outcome = "accept"
                           /\ y.decision.number =< res'.probed
                           /\ res'.expected = <<identityOf(w.claim), y.decision.number>>
                           /\ \A f \in Cands' : before(f.claim, w.claim) => RefusalCached(f, res.probed)'
    BY DEF Forecast, before, exact, identityOf
  <2> HIDE DEF C, n
  <2>1. res'.expected = res.answer /\ res'.request = res.request /\ cache' = cache
    BY <1>1, <1>2
  <2> QED
    BY <1>1, <1>3, <1>7, <2>1
<1>9. RepeatIsStable'
  <2>1. ASSUME C = {}, res'.expected # NoAnswer PROVE res.answer = <<>>
    BY <1>7, <2>1
  <2> QED
    BY <1>1, <2>1 DEF RepeatIsStable
<1> QED
  BY <1>4, <1>5, <1>8, <1>9 DEF RepeatInv

\* Between two calls nothing is expected.
LEMMA HostRepeat ==
  ASSUME RepeatInv, res' = Idle, \A r \in Routes : cache'[r] \subseteq cache[r]
  PROVE  RepeatInv'
<1>1. CacheFunctional'
  BY DEF RepeatInv, CacheFunctional
<1>2. Remembered' /\ AnswerExplained' /\ Forecast' /\ RepeatIsStable'
  BY DEF Idle, Remembered, AnswerExplained, Forecast, RepeatIsStable
<1> QED
  BY <1>1, <1>2 DEF RepeatInv

\* A hit is the decision forecast, for the cache has one answer for a key.
LEMMA HitRepeat ==
  ASSUME ResolverInv, RepeatInv, NEW e \in claims, CacheHit(e)
  PROVE  RepeatInv'
<1>1. Current(e) /\ UNCHANGED catalog /\ cache' = cache /\ probes' = probes /\ probes \in Nat
  BY DEF CacheHit, ResolverInv, CatalogFacts, Counters
<1>2. PICK x \in cachedFor(e) : Apply(e, x.decision)
  BY DEF CacheHit
<1>3. res.request.route \in Routes
  BY <1>1 DEF Current, ResolverInv, ResInv
<1>4. \A y \in cachedFor(e) : y = x
  BY <1>2, <1>3 DEF cachedFor, RepeatInv, CacheFunctional
<1>5. x \in cache'[res.request.route] /\ x.key = Key(e)
  BY <1>1, <1>2 DEF cachedFor, Key
<1>6. ASSUME res.expected # NoAnswer
      PROVE  /\ x.decision.number =< res.probed
             /\ x.decision.outcome = "accept" => res.expected = <<identityOf(e.claim), x.decision.number>>
             /\ x.decision.outcome # "accept" =>
                  \/ res.expected = <<>> /\ \A f \in Cands : RefusalCached(f, res.probed)
                  \/ \E w \in res.remaining \ {e}, z \in cache[res.request.route] :
                       /\ z.key = Key(w) /\ z.decision.outcome = "accept"
                       /\ z.decision.number =< res.probed
                       /\ res.expected = <<identityOf(w.claim), z.decision.number>>
                       /\ \A f \in Cands : before(f.claim, w.claim) => RefusalCached(f, res.probed)
  <2>1. PICK y \in cachedFor(e) :
           /\ y.decision.number =< res.probed
           /\ y.decision.outcome = "accept" =>
                res.expected = <<identityOf(e.claim), y.decision.number>>
           /\ y.decision.outcome # "accept" =>
                \/ res.expected = <<>> /\ \A f \in Cands : RefusalCached(f, res.probed)
                \/ \E w \in res.remaining \ {e}, z \in cache[res.request.route] :
                     /\ z.key = Key(w) /\ z.decision.outcome = "accept" /\ z.decision.number =< res.probed
                     /\ res.expected = <<identityOf(w.claim), z.decision.number>>
                     /\ \A f \in Cands : before(f.claim, w.claim) => RefusalCached(f, res.probed)
    BY <1>1, <1>6, ForecastHit
  <2>2. y = x
    BY <1>4
  <2> QED
    BY <2>1, <2>2
<1> DEFINE decision == x.decision
<1>7. /\ \A r \in Routes : cache[r] \subseteq cache'[r]
      /\ probes' \in Nat /\ probes =< probes'
      /\ \E y \in cache'[res.request.route] : y.key = Key(e) /\ y.decision = x.decision
  BY <1>1, <1>5
<1> HIDE DEF decision
<1>8. Remembered' /\ AnswerExplained' /\ Forecast' /\ RepeatIsStable'
  BY <1>1, <1>2, <1>6, <1>7, ApplyRepeat
<1>9. CacheFunctional'
  BY <1>1 DEF RepeatInv, CacheFunctional
<1> QED
  BY <1>8, <1>9 DEF RepeatInv

\* A repeated call never gets as far as a probe.
LEMMA ProbeRepeat ==
  ASSUME ResolverInv, RepeatInv, NEW e \in claims, NEW o, Probe(e, o)
  PROVE  RepeatInv'
<1> DEFINE digest == res.config[e.claim.provider]
           r == res.request.route
           decision == [outcome |-> o, number |-> probes + 1, probe |-> probeOf(e, res.request, digest)]
           new == [key |-> keyOf(e, res.request, digest), decision |-> decision]
<1>1. /\ Current(e) /\ UNCHANGED catalog /\ cachedFor(e) = {} /\ probes \in Nat /\ probes' = probes + 1
      /\ Apply(e, decision) /\ cache' = [cache EXCEPT ![r] = @ \cup {new}]
  BY DEF Probe, ResolverInv, CatalogFacts, Counters
<1>2. r \in Routes /\ DOMAIN cache = Routes
  BY <1>1 DEF Current, ResolverInv, ResInv, CacheHonest
<1>3. new.key = Key(e) /\ new.decision = decision
  BY DEF Key
<1> HIDE DEF new, decision, digest
<1>4. /\ \A s \in Routes : cache[s] \subseteq cache'[s] /\ (s # r => cache'[s] = cache[s])
      /\ cache'[r] = cache[r] \cup {new}
  BY <1>1, <1>2
<1>5. CacheFunctional'
  <2>1. \A y \in cache[r] : y.key # new.key
    BY <1>1, <1>3 DEF cachedFor, Key
  <2> SUFFICES ASSUME NEW s \in Routes, NEW x \in cache'[s], NEW y \in cache'[s], x.key = y.key
               PROVE  x = y
    BY DEF CacheFunctional
  <2> HIDE DEF r
  <2>2. CASE x \in cache[s] /\ y \in cache[s]
    BY <2>2 DEF RepeatInv, CacheFunctional
  <2>3. CASE x \notin cache[s] \/ y \notin cache[s]
    BY <1>4, <2>1, <2>3
  <2> QED
    BY <2>2, <2>3
<1>6. res.expected = NoAnswer
  BY <1>1, ForecastHit
<1>7. \E y \in cache'[res.request.route] : y.key = Key(e) /\ y.decision = decision
  BY <1>3, <1>4
<1>8. probes' \in Nat /\ probes =< probes'
  BY <1>1
<1> HIDE DEF r
<1>9. Remembered' /\ AnswerExplained' /\ Forecast' /\ RepeatIsStable'
  BY <1>1, <1>4, <1>6, <1>7, <1>8, ApplyRepeat
<1> QED
  BY <1>5, <1>9 DEF RepeatInv

LEMMA RepeatStep ==
  ASSUME ResolverInv, RepeatInv, [Next]_vars
  PROVE  RepeatInv'
<1> USE DEF Mutates
<1>1. CASE UNCHANGED vars
  <2>1. res' = res /\ cache' = cache /\ probes' = probes /\ claims' = claims
    BY <1>1 DEF vars, resolver, catalog
  <2>2. Cands' = Cands
    BY <2>1 DEF Cands, candidates, matches
  <2>3. \A f : Key(f)' = Key(f) /\ Refused(f)' = Refused(f)
    BY <2>1 DEF Key, keyOf, Refused
  <2>4. \A f : RefusalCached(f, res.probed)' = RefusalCached(f, res.probed)
    BY <2>1, <2>3 DEF RefusalCached
  <2>5. CacheFunctional' /\ Remembered' /\ RepeatIsStable'
    BY <2>1, <2>3 DEF RepeatInv, CacheFunctional, Remembered, RepeatIsStable
  <2>6. AnswerExplained'
    BY <2>1, <2>2, <2>3 DEF RepeatInv, AnswerExplained, before, exact, identityOf
  <2>7. Forecast'
    BY <2>1, <2>2, <2>3, <2>4 DEF RepeatInv, Forecast, before, exact, identityOf
  <2> QED
    BY <2>5, <2>6, <2>7 DEF RepeatInv
<1>2. cache = [r \in Routes |-> cache[r]]
  BY DEF ResolverInv, CacheHonest
<1>3. ASSUME NEW a \in Artifacts, Admit(a) PROVE RepeatInv'
  BY <1>3, HostRepeat DEF Admit, resolver
<1>4. ASSUME NEW p \in Providers, RemoveProvider(p) PROVE RepeatInv'
  BY <1>4, HostRepeat DEF RemoveProvider, resolver
<1>5. ASSUME NEW p \in Providers, invalidateProviderConfig(p) PROVE RepeatInv'
  BY <1>5, HostRepeat DEF invalidateProviderConfig
<1>6. CASE ClearCatalog
  BY <1>6, HostRepeat DEF ClearCatalog, resolver
<1>7. CASE clearAllCachedState
  BY <1>7, HostRepeat DEF clearAllCachedState
<1>8. CASE ConfigThrows
  BY <1>8, HostRepeat DEF ConfigThrows, resolver
<1> QED
  BY <1>1, <1>3, <1>4, <1>5, <1>6, <1>7, <1>8, BeginRepeat, HitRepeat, ProbeRepeat DEF Next

\* A call that repeats the one just returned gives the same answer, from the same
\* instance, and probes nobody: for every catalog, configuration and history.
THEOREM ResolverRepeats == Spec => []RepeatIsStable
<1>1. Init => RepeatInv
  BY DEF Init, Idle, RepeatInv, CacheFunctional, Remembered, AnswerExplained, Forecast, RepeatIsStable
<1>2. ResolverInv /\ RepeatInv /\ [Next]_vars => (ResolverInv /\ RepeatInv)'
  BY ResolverStep, RepeatStep
<1>3. RepeatInv => RepeatIsStable
  BY DEF RepeatInv
<1> QED
  BY ResolverInit, <1>1, <1>2, <1>3, PTL DEF Spec
=============================================================================
