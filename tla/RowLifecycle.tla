---------------------------- MODULE RowLifecycle ----------------------------
(***************************************************************************)
(* What the station queue promises of every row, whatever the processes    *)
(* that write the table do and in whatever order their writes land: a row  *)
(* is created once, it moves only forward through                          *)
(*                                                                         *)
(*      none -> upcoming -> sent -> played -> removed                      *)
(*                                                                         *)
(* possibly skipping stages, and an id that was removed never comes back.  *)
(***************************************************************************)
EXTENDS Integers

CONSTANT RowId

VARIABLE stage

Stage == {"none", "upcoming", "sent", "played", "removed"}

Rank(s) ==
  CASE s = "none" -> 0
    [] s = "upcoming" -> 1
    [] s = "sent" -> 2
    [] s = "played" -> 3
    [] s = "removed" -> 4

LifecycleInit == stage = [r \in RowId |-> "none"]

\* A set of rows moves forward at once: one statement may touch many rows.
MoveForward ==
  /\ stage' \in [RowId -> Stage]
  /\ \A r \in RowId : Rank(stage[r]) <= Rank(stage'[r])

LifecycleSpec == LifecycleInit /\ [][MoveForward]_stage
=============================================================================
