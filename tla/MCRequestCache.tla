--------------------------- MODULE MCRequestCache ---------------------------
(* Small instances of RequestCache for TLC.                                *)
EXTENDS RequestCache, TLC

CONSTANTS a1, a2, i1, i2, none

MCTwo      == {a1, a2}
MCFirst    == {a1}
MCSecond   == {a2}
MCOneId    == {i1}
MCTwoIds   == {i1, i2}
MCNobody   == {}
MCOneSize  == {1}
MCTwoSizes == {1, 2}
=============================================================================
