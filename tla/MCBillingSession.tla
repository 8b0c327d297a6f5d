-------------------------- MODULE MCBillingSession --------------------------
(* Small instances of BillingSession: two requests race for one wallet and *)
(* one token.  Estimates and charges are chosen so that a settlement can   *)
(* take more, take less and take nothing.                                  *)
EXTENDS BillingSession, FiniteSets, FiniteSetsExt, Functions

(* For the sums below.                                                     *)
ASSUME RequestAssumption == IsFiniteSet(Request) /\ Request # {}

(* What the settlement of r took beyond the pre-charge.                    *)
Surcharge(r) == IF walletNet[r] > consumed[r] THEN walletNet[r] - consumed[r] ELSE 0

(* Check-then-act: NewBillingSession compares the estimate with a balance  *)
(* it read earlier, and requests that race may all pass.  The wallet may   *)
(* go below zero (or below the debt it began with), but apart from what    *)
(* settlements added to the estimates never by more than the pre-charges   *)
(* of all requests but one.                                                *)
OverdraftBounded ==
    wallet + SumFunction([r \in Request |-> Surcharge(r)])
        >= Min({Wallet0, Max(Range(consumed)) - SumFunction(consumed)})
=============================================================================
