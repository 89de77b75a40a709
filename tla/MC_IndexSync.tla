---------------------------- MODULE MC_IndexSync ----------------------------
(***************************************************************************)
(* A small chain for IndexSync.  The block below the first indexed one     *)
(* holds nothing of interest.  Coinbase "a" pays p; "b" moves it to q;     *)
(* at height 3 the main branch mines "c" and, spending its output in the   *)
(* same block, "d"; a fork at height 3 mines only "c" and "d" follows one  *)
(* block later, under the number "e" has on the main branch.               *)
(***************************************************************************)
EXTENDS IndexSync

Tx(id, funded, spent) == [id |-> id, funded |-> funded, spent |-> spent]
a == Tx("a", {<<"p", 0>>}, {})
b == Tx("b", {<<"q", 0>>}, {<<"p", <<"a", 0>>>>})
c == Tx("c", {<<"p", 0>>, <<"q", 1>>}, {<<"q", <<"b", 0>>>>})
d == Tx("d", {<<"q", 0>>}, {<<"p", <<"c", 0>>>>})
e == Tx("e", {<<"p", 0>>}, {<<"q", <<"c", 1>>>>})

\* The transactions of a block, by its height and the branch it is on.
Mined(block) ==
    LET h == Height(block)
        fork == Len(block) > 3 /\ block[4] = 1
    IN  CASE h = 1 -> <<a>>
          [] h = 2 -> <<b>>
          [] h = 3 -> IF fork THEN <<c>> ELSE <<c, d>>
          [] h = 4 -> IF fork THEN <<e, d>> ELSE <<e>>
          [] OTHER -> <<>>

First == <<0, 0, 0, 0>>

=============================================================================
