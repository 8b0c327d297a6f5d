---------------------------- MODULE ModelPricing ----------------------------
(***************************************************************************)
(* The price of one model, as an entry of the option ModelPrice (JSON).  A *)
(* number is "0", "1" or Null where the field is missing; "rest" stands    *)
(* for the cache prices, which a tier has too, and "media" for the image   *)
(* and audio prices, which only the entry itself has.                      *)
(***************************************************************************)
EXTENDS TLC

Null == "null"
PerTier == {"in", "out", "rest"}
Flat == PerTier \cup {"media"}
Or(n, default) == IF n = Null THEN default ELSE n

NoEntry == [kind |-> "none", call |-> Null, use |-> FALSE, unit |-> "call", tiered |-> FALSE,
            tiers |-> <<>>, in |-> Null, out |-> Null, rest |-> Null, media |-> Null]
Entry(e) ==
    [f \in DOMAIN NoEntry |-> IF f = "kind" THEN "price"
                              ELSE IF f \in DOMAIN e THEN e[f] ELSE NoEntry[f]]
Bad == [NoEntry EXCEPT !.kind = "bad"]   \* JSON that is no price

(* What the relay charges for an entry: per call, or per token.  With      *)
(* tiers, a text is charged by the tier of its length, but its images and  *)
(* sounds, and a conversation by voice, by the prices of the entry itself. *)
(* (The built-in audio prices that the server adds to an entry without     *)
(* any are left out.)                                                      *)
Charge(e) ==
    LET Nums(t, fs) == [f \in fs |-> Or(t[f], "0")]
        tiers == IF e.tiered THEN [i \in DOMAIN e.tiers |->
                                     <<e.tiers[i].max, Nums(e.tiers[i], PerTier)>>] ELSE <<>>
        own == Nums(e, IF tiers = <<>> THEN Flat ELSE Flat \ {"rest"})
        zero(q) == \A f \in DOMAIN q : q[f] = "0"
    IN  CASE e.kind # "price" -> <<"unpriced">>
          [] e.kind = "price" /\ e.use ->
               IF Or(e.call, "0") = "0" THEN <<"free">> ELSE <<"call", e.call, e.unit>>
          [] OTHER -> IF zero(own) /\ \A i \in DOMAIN tiers : zero(tiers[i][2]) THEN <<"free">>
                      ELSE <<"tokens", own, tiers>>
=============================================================================
