---------------------------- MODULE ClaimCatalog ----------------------------
(***************************************************************************)
(* The host's catalog of parser claims                                     *)
(* (pj_plugins/src/parser_claim_catalog.cpp): type names and their normal  *)
(* form, the validation of a claim, the batches that module manifests and  *)
(* parser plugins give rise to, and their transactional admission.         *)
(*                                                                         *)
(* A type name is the sequence of its parts, between slashes for ros2msg   *)
(* and between dots for protobuf.  JSON, error texts and diagnostics are   *)
(* left out: a manifest that does not decode is an artifact that is not    *)
(* well_formed.                                                            *)
(***************************************************************************)
EXTENDS Integers, Sequences

CONSTANTS
  Providers,   \* provider ids, numbers in their lexicographic order
  ClaimIds,    \* claim ids
  Lex,         \* the position of a claim id in the lexicographic order
  Artifacts,   \* the modules and plugins a host may load, with the provenance
               \* it derives from where it found them
  MaxLoads     \* bound: artifacts loaded

ASSUME CatalogAssumption ==
  /\ Providers \subseteq Nat
  /\ Lex \in [ClaimIds -> Nat]
  /\ \A x, y \in ClaimIds : x # y => Lex[x] # Lex[y]
  /\ MaxLoads \in Nat

VARIABLES
  claims,      \* claims_, the admitted claims with their provider_generation
  generation,  \* generation_ of the catalog
  loads        \* artifacts loaded; the host numbers its loads

catalog == <<claims, generation, loads>>

-----------------------------------------------------------------------------
(* Names.                                                                  *)

registeredParserEncodings == {"json", "protobuf", "ros2msg"}   \* 3 of the 11

Wildcard == <<"*">>
NoName   == <<>>

isEmpty(name) == name = NoName \/ (Len(name) = 1 /\ name[1] = "")

isIdentifier(part) == part \in {"a", "b", "msg"}

\* normalizeParserTypeName(); NoName stands for the error.
normalizeParserTypeName(encoding, name) ==
  LET undotted == IF name[1] = "" THEN Tail(name) ELSE name
  IN  IF encoding \notin registeredParserEncodings \/ isEmpty(name) THEN NoName
      ELSE IF name = Wildcard THEN name
      ELSE IF encoding = "ros2msg" THEN
             IF Len(name) = 2 /\ name[1] # "" /\ name[2] # "" THEN <<name[1], "msg", name[2]>>
             ELSE IF Len(name) = 3 /\ name[1] # "" /\ name[2] = "msg" /\ name[3] # "" THEN name
             ELSE NoName
      ELSE IF encoding = "protobuf" THEN
             IF \A i \in DOMAIN undotted : isIdentifier(undotted[i]) THEN undotted ELSE NoName
      ELSE name

-----------------------------------------------------------------------------
(* Claims.                                                                 *)

identityOf(c) == <<c.provider, c.id>>

\* normalizeAndValidateClaim(): what it accepts ...
validClaim(c) ==
  /\ -1000 =< c.priority /\ c.priority =< 1000
  /\ normalizeParserTypeName(c.encoding, c.type) # NoName
  /\ c.routes # {} /\ c.routes \subseteq {"scalar", "object"}
  /\ ~(c.type = Wildcard /\ "object" \in c.routes)
  /\ "object" \in c.routes <=> c.object # "none"
  /\ c.object # "unknown"
  /\ "malformed" \notin c.digests

\* ... and what it makes of it; the provenance is the host's.
normalized(c, provenance) ==
  [encoding |-> c.encoding, type |-> normalizeParserTypeName(c.encoding, c.type),
   routes |-> c.routes, object |-> c.object, digests |-> c.digests,
   provider |-> c.provider, id |-> c.id, priority |-> c.priority,
   provenance |-> provenance]

-----------------------------------------------------------------------------
(* The batch an artifact gives rise to.                                    *)

\* A module's claims are normalized when they are decoded and once more when they
\* are admitted.
moduleClaim(p, c) ==
  [c EXCEPT !.provider = p, !.type = normalizeParserTypeName(c.encoding, c.type)]

wildcardClaim(p, encoding) ==
  [encoding |-> encoding, type |-> Wildcard, routes |-> {"scalar"}, object |-> "none",
   digests |-> {}, provider |-> p, id |-> <<"wildcard", encoding>>, priority |-> 0]

handlerClaim(p, x) ==
  LET name == normalizeParserTypeName(x.encoding, x.type)
  IN  [encoding |-> x.encoding, type |-> name, routes |-> x.routes, object |-> x.object,
       digests |-> x.digests, provider |-> p, id |-> <<"handler", x.encoding, name>>, priority |-> 0]

claimed(exact) == {x \in exact : x.status = "claimed"}

\* A classification that the synthesis accepts, as a claim or as a decline.
classificationOK(x, encodings) ==
  /\ x.encoding \in {encodings[i] : i \in DOMAIN encodings}
  /\ x.match = "exact"
  /\ \/ x.status = "declined" /\ x.routes = {} /\ x.object = "none"
     \/ /\ x.status = "claimed" /\ x.type # Wildcard
        /\ "object" \notin x.routes => x.object = "none"

\* decodeParserModuleManifest() and synthesizeParserPluginClaims(): the claims ...
batchOf(a) ==
  IF a.kind = "module" THEN {moduleClaim(a.provider, c) : c \in a.claims}
  ELSE {wildcardClaim(a.provider, a.encodings[i]) : i \in DOMAIN a.encodings}
         \cup {handlerClaim(a.provider, x) : x \in claimed(a.exact)}

\* What is known of every artifact, however bad it is: the host's part of a claim,
\* and what kind of value the fields hold that are compared or walked.
ASSUME ArtifactsAssumption ==
  \A a \in Artifacts :
    /\ a.provenance \in Int
    /\ \A c \in batchOf(a) : /\ c.provider \in Providers /\ c.id \in ClaimIds
                            /\ c.type \in Seq(STRING) /\ c.priority \in Int

\* ... and whether they give any; two spellings of a handler's type are a duplicate.
decodes(a) ==
  IF a.kind = "module"
  THEN a.well_formed /\ \A c, d \in a.claims : c # d => c.id # d.id
  ELSE /\ \A i, j \in DOMAIN a.encodings : i # j => a.encodings[i] # a.encodings[j]
       /\ \A x \in a.exact : classificationOK(x, a.encodings)
       /\ \A x, y \in claimed(a.exact) :
            x # y => handlerClaim(a.provider, x).id # handlerClaim(a.provider, y).id

-----------------------------------------------------------------------------
(* ParserClaimCatalog.                                                     *)

CatalogInit == claims = {} /\ generation = 0 /\ loads = 0

\* Mutant: identities are compared within the batch only.
admissibleAlone(batch) ==
  /\ \A c \in batch : validClaim(c)
  /\ \A c, d \in batch : c # d => identityOf(c) # identityOf(d)

\* admitClaims() accepts a batch as a whole ...
admissible(batch) ==
  /\ \A c \in batch : validClaim(c)
  /\ \A c, d \in batch : c # d => identityOf(c) # identityOf(d)
  /\ \A c \in batch, e \in claims : identityOf(c) # identityOf(e.claim)

entriesOf(batch, provenance, g) ==
  {[claim |-> normalized(c, provenance), provider_generation |-> g] : c \in batch}

\* Mutant: the claims before a bad one stay.
admitValidOnes(a) ==
  LET good == {c \in batchOf(a) : validClaim(c) /\ \A e \in claims : identityOf(c) # identityOf(e.claim)}
  IN  /\ loads < MaxLoads /\ loads' = loads + 1
      /\ claims' = claims \cup entriesOf(good, a.provenance, loads + 1)
      /\ generation' = IF decodes(a) /\ admissible(batchOf(a)) THEN generation + 1 ELSE generation

\* ... or leaves the catalog alone.  ingestModuleManifest(), admitParserPlugin().
admit(a) ==
  LET accepted == decodes(a) /\ admissible(batchOf(a)) /\ batchOf(a) # {}
  IN  /\ loads < MaxLoads /\ loads' = loads + 1
      /\ claims' = IF accepted THEN claims \cup entriesOf(batchOf(a), a.provenance, loads + 1) ELSE claims
      /\ generation' = IF accepted THEN generation + 1 ELSE generation

removeProvider(p) ==
  /\ \E e \in claims : e.claim.provider = p
  /\ claims' = {e \in claims : e.claim.provider # p}
  /\ generation' = generation + 1
  /\ UNCHANGED loads

clear ==
  /\ claims # {} /\ claims' = {}
  /\ generation' = generation + 1
  /\ UNCHANGED loads
=============================================================================
