------------------------------ MODULE MCTopUp ------------------------------
(* Small instances of TopUp.  e is an order paid through epay, l one paid  *)
(* through Alipay.                                                         *)
EXTENDS TopUp, TLC

CONSTANTS e, l, n1, be, bl, x, y, a, q

(* Two notices and an administrator for e, a query for l.                  *)
OneOrder == be :> e @@ bl :> l @@ x :> e @@ y :> e @@ a :> e @@ q :> l
OneNode == [p \in Proc |-> n1]

(* Alipay's notice and the buyer's query for the same order.               *)
AlipayOrder == bl :> l @@ y :> l @@ q :> l
=============================================================================
