---------------------------- MODULE MC_OfferBook ----------------------------
(* Small instances of OfferBook for TLC.                                   *)
EXTENDS OfferBook

Post(token, client, direction, amount, price) ==
    [kind |-> "offer", token |-> token, client |-> client, tag |-> None,
     direction |-> direction, amount |-> amount, price |-> price, private |-> FALSE]

Sell(token, amount, price) == Post(token, token, "xbt_to_btc", amount, price)
Buy(token, amount, price) == Post(token, token, "btc_to_xbt", amount, price)

Take(token, client, tag, direction, amount, price) ==
    [Post(token, client, direction, amount, price) EXCEPT !.kind = "take", !.tag = tag]

\* A listed offer larger than one fill and a private one, taken in part, by code
\* and by the matcher, and a bid below the ask; the price makes fills round.
TradeRequests ==
    {Sell("a", 5, 3), [Buy("b", 6, 3) EXCEPT !.private = TRUE], Buy("c", 5, 3), Buy("d", 4, 2),
     Take("c", "c2", None, "btc_to_xbt", 4, 3),
     [Sell("e", 4, 3) EXCEPT !.kind = "code", !.client = None]}

\* One listed offer, and one take of it that its client may send twice.
RetryRequests == {Sell("a", 6, 2), Take("b", "b1", None, "btc_to_xbt", 2, 2)}

\* The same with the recovery tag the phones send.
TagRequests == {Buy("a", 6, 2), Take("b", "b1", "g", "xbt_to_btc", 2, 2)}
=============================================================================
