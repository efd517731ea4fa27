----------------------------- MODULE MCBookings -----------------------------
(***************************************************************************)
(* OrderAccounting on small instances, for the events alone.               *)
(***************************************************************************)
EXTENDS OrderAccounting, TLC

CONSTANTS d1, d2, a1, w1, p1, p2, o1, o2, pay1, pay2

OnePayment == (pay1 :> o1) @@ (pay2 :> o2)
TwoItems == (o1 :> << << p1, 1 >>, << p2, 1 >> >>) @@ (o2 :> << << p1, 1 >> >>)
OneCharge == (o1 :> << << "SHIPPING_FEE", 1 >> >>) @@ (o2 :> << >>)
Totals == (o1 :> 3) @@ (o2 :> 2)
TwiceAndOnce == (pay1 :> 2) @@ (pay2 :> 1)
Once == (pay1 :> 1) @@ (pay2 :> 0)
OneEach == [x \in Places |-> 1]
Empty == [x \in Places |-> 0]
Restocked == { << "IN", p1, 1, TRUE >> }

=============================================================================
