---------------------------- MODULE MC_Watchtower ----------------------------
(* Small instances of Watchtower for TLC.                                  *)
EXTENDS Watchtower
=============================================================================
