--------------------------- MODULE MC_SwapEngine ---------------------------
(***************************************************************************)
(* One swap of an initiator "I" and a participant "P" who may each sign    *)
(* two fundings (the second after the first was rejected), with the        *)
(* deadlines and locktimes on a clock of four ticks: accepting and the     *)
(* XBT funding at 0, the BTC funding by 1, the BTC refund from 2, the XBT  *)
(* refund from 3, the redeem margin one tick.  Two things may go wrong.    *)
(***************************************************************************)
EXTENDS SwapEngine
=============================================================================
