---------------------------- MODULE MC_Outspend ----------------------------
(***************************************************************************)
(* One output funded at height 1. On the main branch nothing spends it at  *)
(* height 2 and the redeem at height 3; a fork mines the refund at height  *)
(* 2. A fork at height 1 mines the funding, and maybe the redeem, a block  *)
(* later.                                                                  *)
(***************************************************************************)
EXTENDS Outspend

FundingOf(b) == \/ Len(b) = 2 /\ b[2] = 0
                \/ Len(b) = 3 /\ b[2] = 1

SpendOf(b) ==
    CASE Len(b) = 3 /\ b[2] = 0 /\ b[3] = 1 -> "refund"
      [] Len(b) = 3 /\ b[2] = 1 /\ b[3] = 1 -> "redeem"
      [] Len(b) = 4 /\ b[2] = 0 /\ b[3] = 0 -> "redeem"
      [] OTHER -> None

First == <<0, 0>>

=============================================================================
