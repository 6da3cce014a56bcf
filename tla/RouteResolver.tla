---------------------------- MODULE RouteResolver ----------------------------
(***************************************************************************)
(* ParserRouteResolver (pj_plugins/src/parser_route_resolver.cpp) over the *)
(* claim catalog, with the host that mutates the catalog and invalidates   *)
(* cached answers between two calls.  Pins and provider configurations are *)
(* arguments of a call.                                                    *)
(*                                                                         *)
(* resolve() probes the candidates of a request in policy order and keeps  *)
(* every answer in a cache per route.  A provider may answer a probe in    *)
(* any way: a decline, an error, an exception and an invalid outcome are   *)
(* told apart by the diagnostics only, and all are "refuse" here.          *)
(* Neither class is thread-safe, so nothing else happens while a request   *)
(* is being resolved.  Texts of trace and diagnostics are left out.        *)
(***************************************************************************)
EXTENDS ClaimCatalog, FiniteSets

CONSTANTS
  Requests,      \* what the host asks for: encoding, type, schema digest, route
  Configs,       \* what provider_config may return: a digest for every provider
  NoProvider,    \* no pin
  MaxProbes      \* bound: probes made

Routes == {"scalar", "object"}

ASSUME ResolverAssumption ==
  /\ NoProvider \notin Providers /\ MaxProbes \in Nat
  /\ \A q \in Requests : q.route \in Routes

VARIABLES
  cache,       \* scalar_probe_cache_ and object_probe_cache_
  ambiguities, \* reported_ambiguities_
  probes,      \* probes made so far; an accepted one retains the instance of its number
  res          \* the call of resolve() under way, or the one just returned

resolver == <<cache, ambiguities, probes>>
vars     == <<catalog, resolver, res>>

Idle     == [phase |-> "idle"]
NoAnswer == <<"none">>     \* unlike every answer

Init ==
  /\ CatalogInit
  /\ cache = [r \in Routes |-> {}]
  /\ ambiguities = {}
  /\ probes = 0
  /\ res = Idle

-----------------------------------------------------------------------------
(* The host between two calls.                                             *)

Quiet == res.phase # "running"

\* The caller has taken the last result.
Mutates == Quiet /\ res' = Idle

Admit(a) == Mutates /\ admit(a) /\ UNCHANGED resolver

RemoveProvider(p) == Mutates /\ removeProvider(p) /\ UNCHANGED resolver

ClearCatalog == Mutates /\ clear /\ UNCHANGED resolver

\* invalidateCatalog() and invalidatePins().
clearAllCachedState ==
  /\ Mutates
  /\ cache' = [r \in Routes |-> {}]
  /\ ambiguities' = {}
  /\ UNCHANGED <<catalog, probes>>

invalidateProviderConfig(p) ==
  /\ Mutates
  /\ cache' = [r \in Routes |-> {x \in cache[r] : x.key.provider # p}]
  /\ UNCHANGED <<catalog, ambiguities, probes>>

-----------------------------------------------------------------------------
(* Candidates.                                                             *)

\* A request with the normal form of its type.
normalRequest(q) ==
  [encoding |-> q.encoding, type |-> normalizeParserTypeName(q.encoding, q.type),
   schema |-> q.schema, route |-> q.route]

\* Mutant: the pin is left to the caller.
matchesUnpinned(c, n, pin) ==
  /\ c.encoding = n.encoding /\ n.route \in c.routes
  /\ c.type \in {Wildcard, n.type}
  /\ c.digests # {} => n.schema \in c.digests

\* orderedCandidates(): the filter ...
matches(c, n, pin) ==
  /\ c.encoding = n.encoding /\ n.route \in c.routes
  /\ c.type \in {Wildcard, n.type}
  /\ c.digests # {} => n.schema \in c.digests
  /\ pin # NoProvider => c.provider = pin

candidates(n, pin) == {e \in claims : matches(e.claim, n, pin)}

exact(c) == c.type # Wildcard

\* Mutant: the priority is looked at before the provenance.
beforeByPriority(c, d) ==
  IF exact(c) # exact(d) THEN exact(c)
  ELSE IF c.priority # d.priority THEN c.priority > d.priority
  ELSE IF c.provenance # d.provenance THEN c.provenance > d.provenance
  ELSE IF c.provider # d.provider THEN c.provider < d.provider
  ELSE Lex[c.id] < Lex[d.id]

\* ... and the order.
before(c, d) ==
  IF exact(c) # exact(d) THEN exact(c)
  ELSE IF c.provenance # d.provenance THEN c.provenance > d.provenance
  ELSE IF c.priority # d.priority THEN c.priority > d.priority
  ELSE IF c.provider # d.provider THEN c.provider < d.provider
  ELSE Lex[c.id] < Lex[d.id]

hasSamePolicyRank(c, d) ==
  exact(c) = exact(d) /\ c.provenance = d.provenance /\ c.priority = d.priority

-----------------------------------------------------------------------------
(* resolve().                                                              *)

\* What is probed: a claim of a load, for a request, under a configuration.
probeOf(e, n, digest) ==
  [provider |-> e.claim.provider, id |-> e.claim.id, provider_generation |-> e.provider_generation,
   request |-> n, digest |-> digest]

\* Mutant: the key leaves the load out.
keyWithoutGeneration(e, n, digest) ==
  [provider |-> e.claim.provider, id |-> e.claim.id,
   encoding |-> n.encoding, type |-> n.type, schema |-> n.schema, config |-> digest]

\* The key of a cached answer; the route chooses the cache.
keyOf(e, n, digest) ==
  [provider |-> e.claim.provider, id |-> e.claim.id, provider_generation |-> e.provider_generation,
   encoding |-> n.encoding, type |-> n.type, schema |-> n.schema, config |-> digest]

\* Starts with the candidates of a request whose encoding and type are usable;
\* without any, the pin decides what is returned.  A call that repeats the one
\* just returned remembers what that was answered.
ResolveBegin(q, pin, config) ==
  LET n == normalRequest(q)
      C == candidates(n, pin)
      call == <<n, pin, config>>
  IN  /\ Quiet /\ n.type # NoName
      /\ probes + Cardinality(C) =< MaxProbes
      /\ res' = [phase |-> IF C = {} THEN "returned" ELSE "running",
                 request |-> n, pin |-> pin, config |-> config,
                 remaining |-> C, considered |-> {}, winner |-> {}, answer |-> <<>>,
                 status |-> IF C # {} THEN "Pending"
                            ELSE IF pin # NoProvider THEN "PinnedProviderUnavailable"
                            ELSE "NoCandidates",
                 probed |-> probes,
                 expected |-> IF res.phase = "returned" /\ <<res.request, res.pin, res.config>> = call
                              THEN res.answer ELSE NoAnswer]
      /\ UNCHANGED <<catalog, resolver>>

\* The first of the remaining candidates.
Current(e) == /\ res.phase = "running" /\ e \in res.remaining
              /\ \A f \in res.remaining : f # e => before(e.claim, f.claim)

\* The lookup of the configuration throws: resolve() returns an error.
ConfigThrows ==
  /\ res.phase = "running" /\ res.remaining # {}
  /\ res' = Idle
  /\ UNCHANGED <<catalog, resolver>>

\* A tie is reported when a later candidate has the rank of the winner, once per
\* request and winner.
reportTie(e) ==
  ambiguities' =
    IF \E f \in candidates(res.request, res.pin) :
         f # e /\ before(e.claim, f.claim) /\ hasSamePolicyRank(e.claim, f.claim)
    THEN ambiguities \cup {<<res.request, identityOf(e.claim)>>}
    ELSE ambiguities

\* What resolve() makes of a decision, cached or new.
Apply(e, decision) ==
  LET seen == res.considered \cup {[entry |-> e, decision |-> decision]}
      rest == res.remaining \ {e}
  IN  IF decision.outcome = "accept"
      THEN /\ res' = [res EXCEPT !.phase = "returned", !.status = "Selected", !.winner = {e},
                                 !.answer = <<identityOf(e.claim), decision.number>>,
                                 !.considered = seen, !.remaining = rest]
           /\ reportTie(e)
      ELSE /\ res' = [res EXCEPT !.phase = IF rest = {} THEN "returned" ELSE @,
                                 !.status = IF rest # {} THEN "Pending"
                                            ELSE IF res.pin # NoProvider THEN "PinnedProviderRejected"
                                            ELSE "NoProviderAccepted",
                                 !.considered = seen, !.remaining = rest]
           /\ UNCHANGED ambiguities

cachedFor(e) ==
  {x \in cache[res.request.route] :
     x.key = keyOf(e, res.request, res.config[e.claim.provider])}

CacheHit(e) ==
  /\ Current(e)
  /\ \E x \in cachedFor(e) : Apply(e, x.decision)
  /\ UNCHANGED <<catalog, cache, probes>>

\* Mutant: only what was accepted is kept.
ProbeForgets(e, outcome) ==
  /\ Current(e) /\ cachedFor(e) = {}
  /\ probes' = probes + 1
  /\ LET digest == res.config[e.claim.provider]
         decision == [outcome |-> outcome, number |-> probes + 1,
                      probe |-> probeOf(e, res.request, digest)]
     IN  /\ Apply(e, decision)
         /\ cache' = [cache EXCEPT ![res.request.route] =
                        IF outcome = "accept"
                        THEN @ \cup {[key |-> keyOf(e, res.request, digest), decision |-> decision]}
                        ELSE @]
  /\ UNCHANGED catalog

\* The provider is asked, and what it answers is kept.
Probe(e, outcome) ==
  /\ Current(e) /\ cachedFor(e) = {}
  /\ probes' = probes + 1
  /\ LET digest == res.config[e.claim.provider]
         decision == [outcome |-> outcome, number |-> probes + 1,
                      probe |-> probeOf(e, res.request, digest)]
     IN  /\ Apply(e, decision)
         /\ cache' = [cache EXCEPT ![res.request.route] =
                        @ \cup {[key |-> keyOf(e, res.request, digest), decision |-> decision]}]
  /\ UNCHANGED catalog

-----------------------------------------------------------------------------
Next ==
  \/ \E a \in Artifacts : Admit(a)
  \/ \E p \in Providers : RemoveProvider(p) \/ invalidateProviderConfig(p)
  \/ ClearCatalog \/ clearAllCachedState
  \/ \E q \in Requests, pin \in Providers \cup {NoProvider}, c \in Configs : ResolveBegin(q, pin, c)
  \/ ConfigThrows
  \/ \E e \in claims : CacheHit(e) \/ \E o \in {"accept", "refuse"} : Probe(e, o)

Spec == Init /\ [][Next]_vars

-----------------------------------------------------------------------------
(* Properties.                                                             *)

\* The catalog holds valid claims under their normal names, one per identity, and
\* the generation of each is that of the load it came with.
CatalogInv ==
  /\ \A e \in claims :
       /\ validClaim(e.claim)
       /\ e.claim.type = normalizeParserTypeName(e.claim.encoding, e.claim.type)
       /\ e.provider_generation \in 1..loads
  /\ \A e, f \in claims : e # f => identityOf(e.claim) # identityOf(f.claim)

\* generation() tells callers about every change of the catalog and about nothing
\* else, a rejected batch and an unknown provider in particular.
GenerationTracks ==
  [][/\ generation' >= generation
     /\ claims' # claims <=> generation' # generation]_vars

\* Every decision resolve() acts on, cached or not, answers a probe of that very
\* claim, of the load that is admitted now, for this request and route, under the
\* configuration the provider has now.
DecisionsFresh ==
  res.phase # "idle" =>
    \A x \in res.considered :
      /\ x.entry \in claims
      /\ x.decision.probe = probeOf(x.entry, res.request, res.config[x.entry.claim.provider])

\* c beats w by the documented policy: exact before wildcard, then provenance,
\* then priority, then identity.
Beats(c, w) ==
  \/ exact(c) /\ ~exact(w)
  \/ exact(c) = exact(w) /\ c.provenance > w.provenance
  \/ exact(c) = exact(w) /\ c.provenance = w.provenance /\ c.priority > w.priority
  \/ /\ hasSamePolicyRank(c, w)
     /\ c.provider < w.provider \/ (c.provider = w.provider /\ Lex[c.id] < Lex[w.id])

\* The winner is the best of the admitted claims that match and do not say no:
\* whatever beats it was considered and refused.
BestWins ==
  res.phase = "returned" =>
    \A w \in res.winner, e \in claims :
      matches(e.claim, res.request, res.pin) /\ Beats(e.claim, w.claim)
        => \E x \in res.considered : x.entry = e /\ x.decision.outcome # "accept"

\* A pin fails closed: nothing but the pinned provider is ever selected, although
\* others match, and a call without a pin never fails because of one.
PinHolds ==
  res.phase = "returned" =>
    /\ res.pin # NoProvider => \A w \in res.winner : w.claim.provider = res.pin
    /\ res.status \in {"PinnedProviderUnavailable", "PinnedProviderRejected"} <=>
         res.pin # NoProvider /\ res.winner = {}

\* resolve() answers as the documented policy says, pinned or not.
PolicyDecides == BestWins /\ PinHolds

\* The scalar and the object route never retain one instance.
RoutesKeepApart ==
  \A x \in cache["scalar"], y \in cache["object"] : x.decision.number # y.decision.number

\* Nothing changed, so a repeated call is answered as before, by the same instance,
\* and nobody is probed again: declines and errors are remembered too.
RepeatIsStable ==
  res.phase # "idle" /\ res.expected # NoAnswer =>
    /\ \A x \in res.considered : x.decision.number =< res.probed
    /\ res.phase = "returned" => res.answer = res.expected
=============================================================================
