--------------------------- MODULE MCParserModule ---------------------------
(* A small instance of ParserModule for TLC.                               *)
EXTENDS ParserModule, TLC

CONSTANTS h1, h2

MCHandles  == {h1, h2}
MCSymmetry == Permutations(MCHandles)
=============================================================================
