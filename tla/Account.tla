------------------------------- MODULE Account -------------------------------
(***************************************************************************)
(* What a Fortis account promises its owner, whatever the LSP does at the  *)
(* same time: a payment is credited once and in full, money is reserved    *)
(* only out of what is free, only reserved money leaves, and a transfer    *)
(* between accounts moves free money and loses none.  LspAccounts          *)
(* implements it (LspAccounts!AccountKept).                                *)
(***************************************************************************)
EXTENDS Naturals

CONSTANTS
    Nodes,    \* the accounts
    Amount    \* hash -> what that payment pays

VARIABLES
    balance,   \* Account.balance_msat
    reserved,  \* Account.held_msat
    paid       \* the payments each account was credited

vars == <<balance, reserved, paid>>

Free(n) == balance[n] - reserved[n]

Init ==
    /\ balance = [n \in Nodes |-> 0]
    /\ reserved = [n \in Nodes |-> 0]
    /\ paid = [n \in Nodes |-> {}]

\* A payment not yet credited arrives from outside.
Credit(n, h) ==
    /\ h \notin paid[n]
    /\ balance' = [balance EXCEPT ![n] = @ + Amount[h]]
    /\ paid' = [paid EXCEPT ![n] = @ \cup {h}]
    /\ UNCHANGED reserved

\* Another account pays it, out of what that account has free.
Transfer(m, n, h) ==
    /\ m # n
    /\ h \notin paid[n]
    /\ balance' = [balance EXCEPT ![n] = @ + Amount[h], ![m] = @ - Amount[h]]
    /\ Amount[h] <= Free(m)
    /\ paid' = [paid EXCEPT ![n] = @ \cup {h}]
    /\ UNCHANGED reserved

\* A send, a withdrawal or a move into the channel begins.
Reserve(n) ==
    /\ UNCHANGED <<balance, paid>>
    /\ \E a \in 1..Free(n) : reserved' = [reserved EXCEPT ![n] = @ + a]

\* It ends: what was reserved for it is spent in part, in whole or not at all.
Settle(n) ==
    /\ UNCHANGED paid
    /\ \E a \in 1..reserved[n] : \E spent \in 0..a :
          /\ balance' = [balance EXCEPT ![n] = @ - spent]
          /\ reserved' = [reserved EXCEPT ![n] = @ - a]

Next ==
    \E n \in Nodes :
        \/ \E h \in DOMAIN Amount : Credit(n, h) \/ \E m \in Nodes : Transfer(m, n, h)
        \/ Reserve(n)
        \/ Settle(n)

Spec == Init /\ [][Next]_vars
=============================================================================
