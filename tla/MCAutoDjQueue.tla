--------------------------- MODULE MCAutoDjQueue ---------------------------
(***************************************************************************)
(* Instances of AutoDjQueue for TLC: two songs of different length, so     *)
(* that timing can go both ways, and a clock of a few seconds.             *)
(***************************************************************************)
EXTENDS AutoDjQueue

CONSTANTS s1, s2

MCSong == {s1, s2}
MCDuration == [s \in MCSong |-> IF s = s1 THEN 2 ELSE 3]
\* A merged playlist.
MCMerged == {<<s1, s2>>}
\* Every cue time the bounds allow to compute.
MCTimestamp == -5 .. 40
=============================================================================
