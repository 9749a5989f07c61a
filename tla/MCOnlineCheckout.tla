-------------------------- MODULE MCOnlineCheckout --------------------------
(***************************************************************************)
(* Small instances of the online checkout.                                 *)
(***************************************************************************)
EXTENDS OnlineCheckoutProps, TLC

CONSTANTS b1, b2, b3, i1

MCTotal == [i \in Invoices |-> 2]
MCPrice == [b \in Bills |-> IF b = b3 THEN 2 ELSE 0]

\* Two checkouts of the same invoice, and a subscription by mock card.
MCGateway == b1 :> "THAWANI" @@ b2 :> "PAYPAL" @@ b3 :> "MOCK_CARD"
MCTarget  == b1 :> i1 @@ b2 :> i1 @@ b3 :> Subscription
=============================================================================
