---------------------------- MODULE MCMediaPage ----------------------------
(* Instances of MediaPage for TLC: two files, two directories, a filter.    *)
EXTENDS MediaPage

CONSTANTS f1, f2, root, sub, term
=============================================================================
