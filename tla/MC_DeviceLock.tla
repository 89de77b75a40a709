--------------------------- MODULE MC_DeviceLock ---------------------------
(***************************************************************************)
(* Two phones of one wallet, each with room for two start workers: a start *)
(* that timed out may still be running when the next one begins.           *)
(*                                                                         *)
(* DeviceLockHeld: three calls (starts, takeovers, stops, timeouts) and    *)
(* one fault (a round trip without an answer, or a death of a process).    *)
(* DeviceLockUnnoticed: four calls and no fault, so that the phone that    *)
(* took over can stop and start again while the old one still runs.        *)
(* A phone may stay stopped, so ending is no deadlock.                     *)
(***************************************************************************)
EXTENDS DeviceLock
=============================================================================
