--------------------------- MODULE MCLiveSession ---------------------------
(* Instances of LiveSession for TLC: DJs as model values.                    *)
EXTENDS LiveSession

CONSTANTS d1, d2
=============================================================================
