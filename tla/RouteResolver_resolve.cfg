SPECIFICATION Spec
CONSTANTS
  none = none
  Providers <- MCProviders
  ClaimIds <- MCClaimIds
  Lex <- MCLex
  Artifacts <- MCArtifacts
  MaxLoads = 2
  Requests <- MCRequests
  Configs <- MCConfigs
  NoProvider = none
  MaxProbes = 3
INVARIANTS
  CatalogInv
  DecisionsFresh
  PolicyDecides
  RepeatIsStable
PROPERTIES
  GenerationTracks
