--------------------------- MODULE MCSongRequests ---------------------------
(* Instances of SongRequests for TLC: a track, clients and runs as model      *)
(* values.                                                                   *)
EXTENDS SongRequests

CONSTANTS t1, c1, c2, r1, r2
=============================================================================
