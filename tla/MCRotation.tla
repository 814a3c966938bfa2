----------------------------- MODULE MCRotation -----------------------------
(* Instances of Rotation for TLC: short playlists of one artist's songs.     *)
EXTENDS Rotation

CONSTANTS m1, m2, m3

MCSimilar == {m1, m2, m3} \X {m1, m2, m3}
\* Three songs in sequence; two songs with every other setting.
MCModes ==
  [songs : {{m1, m2, m3}}, kind : {"always"}, shuffle : {FALSE}, avoid : {FALSE}]
  \cup [songs : {{m1, m2}}, kind : {"always", "loop once"}, shuffle : {TRUE},
        avoid : BOOLEAN]
  \cup [songs : {{m1, m2}}, kind : {"loop once", "single track"}, shuffle : {FALSE},
        avoid : {FALSE}]
MCSymmetry == Permutations({m1, m2})
\* The settings of a new playlist, scheduled to loop once.
MCNewPlaylist ==
  [songs : {{m1, m2}}, kind : {"loop once"}, shuffle : {TRUE}, avoid : {TRUE}]
=============================================================================
