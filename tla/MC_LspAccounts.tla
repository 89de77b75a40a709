--------------------------- MODULE MC_LspAccounts ---------------------------
(* Small instances of LspAccounts for TLC.                                 *)
EXTENDS LspAccounts

Bill(kind, owner, amt) == [kind |-> kind, owner |-> owner, amt |-> amt]
Req(node, op, hash, amt) == [node |-> node, op |-> op, hash |-> hash, amt |-> amt, exp |-> 0]

\* One payment of each kind; account b pays a's invoice and an outside one.
AllBills == [inv |-> Bill("invoice", "a", 2), gift |-> Bill("offer", "b", 4),
             hold |-> Bill("held", "a", 3), fee |-> Bill("fee", "a", 1),
             shop |-> Bill("ext", "none", 1)]

AskInv == Req("a", "invoice", "inv", 2)
AskGift == Req("b", "offer", "gift", 0)
AskHold == Req("a", "channel_invoice", "hold", 3)
PayInv == Req("b", "pay", "inv", 2)
PayShop == Req("b", "pay", "shop", 1)

Play(requests, forwards, blocks, seconds) ==
    [requests |-> requests, forwards |-> forwards, blocks |-> blocks, seconds |-> seconds]

\* Accounts paying each other; a payment and a withdrawal at once; a held payment, up to its
\* payer's deadline, and what it turns into; one with custody filling up; a payment asked for
\* again; fees; a withdrawal sent again as its last second ends.
AllScenarios ==
    {Play({AskInv, AskGift, PayInv}, 0, 0, 0),
     Play({AskGift, PayShop, Req("b", "withdraw", "w", 2)}, 0, 0, 0),
     Play({AskHold, Req("a", "withdraw", "w", 2)}, 0, 3, 0),
     Play({AskHold, AskGift}, 0, 3, 0),
     \* pay takes the amount from the invoice: here it tells two requests apart.
     Play({AskGift, PayShop, [PayShop EXCEPT !.amt = 2]}, 0, 0, 0),
     Play({Req("a", "fee_invoice", "fee", 1), AskInv}, 1, 0, 1),
     Play({AskGift, Req("b", "withdraw", "w", 2)}, 0, 0, 1)}

\* An account over the cap is moved while its owner pays.
MoveScenarios == {Play({AskGift, PayShop}, 0, 0, 0)}
=============================================================================
