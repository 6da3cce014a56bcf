--------------------------- MODULE MCProviderJob ---------------------------
(* Small instances of ProviderJob for TLC.                                 *)
EXTENDS ProviderJob

CONSTANTS host, other, worker, helper, h1, h2, none

MCCallers == {host, other}
MCHelpers == {helper}
MCHooks   == {h1, h2}
MCOneHook == {h1}
=============================================================================
