------------------------ MODULE BillingSessionProofs ------------------------
(***************************************************************************)
(* Theorems about BillingSession, for any set of requests, any estimates   *)
(* and charges, any balances and any interleaving, with update failures,   *)
(* panics and crashes allowed.                                             *)
(*                                                                         *)
(* The properties are not inductive by themselves: that a refund gives     *)
(* back exactly what was taken depends on the three copies of the          *)
(* pre-charge (preConsumedQuota, tokenConsumed, consumed) being equal, and *)
(* on which of the flags can be set where.  SessionInv says so, location   *)
(* by location.                                                            *)
(***************************************************************************)
EXTENDS MCBillingSession, FiniteSetTheorems, WellFoundedInduction, TLAPS

(* Nothing has been taken for r.                                           *)
Untouched(r) ==
    /\ walletNet[r] = 0 /\ tokenNet[r] = 0
    /\ tokenConsumed[r] = 0 /\ consumed[r] = 0 /\ preConsumedQuota[r] = 0
    /\ ~faulty[r]

NoFlags(r) == ~fundingSettled[r] /\ ~settled[r] /\ ~refunded[r] /\ job[r] = "none"

(* The session of r exists and its three fields agree on the pre-charge.   *)
Opened(r) ==
    /\ tokenConsumed[r] = preConsumedQuota[r]
    /\ consumed[r] = preConsumedQuota[r]
    /\ preConsumedQuota[r] <= par[r].pre
    /\ par[r].free => preConsumedQuota[r] = 0

(* The pre-charge is held on both balances.                                *)
Held(r) == walletNet[r] = preConsumedQuota[r] /\ TokenCharge(r, preConsumedQuota[r])

(* The wallet is settled, the token not yet.                               *)
HalfPaid(r) ==
    /\ walletNet[r] = actual[r]
    /\ TokenCharge(r, preConsumedQuota[r])
    /\ fundingSettled[r] = ~par[r].free

Paid(r) == walletNet[r] = actual[r] /\ TokenCharge(r, actual[r])

(* The outcomes of Settle: complete, token update failed, wallet update    *)
(* failed.                                                                 *)
SettleOutcome(r) ==
    \/ settled[r] = ~par[r].free /\ Paid(r)
    \/ settled[r] = ~par[r].free /\ faulty[r] /\ HalfPaid(r)
    \/ ~settled[r] /\ ~fundingSettled[r] /\ faulty[r] /\ Held(r)

(* What can be true of a session nobody has refunded.                      *)
Unrefunded(r) ==
    \/ ~settled[r] /\ ~fundingSettled[r] /\ Held(r)
    \/ ~settled[r] /\ HalfPaid(r)
    \/ SettleOutcome(r)

(* The goroutine started by Refund.                                        *)
JobInv(r) ==
    /\ job[r] = "wallet" => Held(r)
    /\ job[r] = "token" =>
          /\ walletNet[r] = 0 \/ (faulty[r] /\ walletNet[r] = preConsumedQuota[r])
          /\ TokenCharge(r, preConsumedQuota[r])
    /\ job[r] = "done" => faulty[r] \/ (walletNet[r] = 0 /\ tokenNet[r] = 0)

Bounds(r) ==
    /\ 0 <= walletNet[r] /\ (walletNet[r] <= par[r].pre \/ walletNet[r] <= actual[r])
    /\ 0 <= tokenNet[r] /\ (tokenNet[r] <= par[r].pre \/ tokenNet[r] <= actual[r])

LocationInv(r) ==
    /\ pc[r] \in {"new", "open", "checkToken", "takeToken"} => Untouched(r) /\ NoFlags(r)
    /\ pc[r] \in {"open", "checkToken", "takeToken", "takeWallet", "rollback"} => ~par[r].free
    /\ pc[r] \in {"takeToken", "rollback"} => ~par[r].isPlayground
    /\ pc[r] \in {"takeWallet", "rollback"} =>
          /\ NoFlags(r)
          /\ tokenConsumed[r] = Effective(r)
          /\ TokenCharge(r, Effective(r))
          /\ walletNet[r] = 0 /\ consumed[r] = 0 /\ preConsumedQuota[r] = 0
    /\ pc[r] = "takeWallet" => ~faulty[r]
    /\ pc[r] = "rejected" => NoFlags(r) /\ (~faulty[r] => walletNet[r] = 0 /\ tokenNet[r] = 0)
    /\ pc[r] \in {"relay", "settle"} => NoFlags(r) /\ Opened(r) /\ Held(r) /\ ~faulty[r]
    /\ pc[r] = "settleToken" =>
          ~settled[r] /\ ~refunded[r] /\ job[r] = "none" /\ Opened(r) /\ HalfPaid(r)
    /\ pc[r] \in {"logging", "answered"} =>
          ~refunded[r] /\ job[r] = "none" /\ Opened(r) /\ SettleOutcome(r)
    /\ pc[r] = "refund" =>
          ~refunded[r] /\ job[r] = "none" /\ Opened(r) /\ Unrefunded(r)
    /\ pc[r] \in {"panicked", "crashed"} => ~refunded[r] /\ job[r] = "none"
    /\ pc[r] = "failed" =>
          /\ Opened(r)
          /\ IF refunded[r]
             THEN ~settled[r] /\ ~fundingSettled[r] /\ job[r] # "none" /\ JobInv(r)
             ELSE /\ job[r] = "none"
                  /\ Unrefunded(r)
                  /\ settled[r] \/ fundingSettled[r] \/ preConsumedQuota[r] = 0

SessionInv == \A r \in Request : Bounds(r) /\ LocationInv(r)

IInv == TypeOK /\ SessionInv

-----------------------------------------------------------------------------
(* What the session is about to take is a natural number, and never more   *)
(* than the estimate.                                                      *)
LEMMA EffectiveBounded ==
    ASSUME TypeOK, NEW r \in Request
    PROVE  Effective(r) \in Nat /\ Effective(r) <= par[r].pre
  <1>1. par[r].pre \in Nat
    BY ConstantsAssumption DEF TypeOK, Param
  <1> QED
    BY <1>1 DEF Effective

(* All that the model keeps about request q is as before.                  *)
Same(q) ==
    /\ pc'[q] = pc[q] /\ par'[q] = par[q] /\ tokenQuota'[q] = tokenQuota[q]
    /\ userQuota'[q] = userQuota[q] /\ actual'[q] = actual[q]
    /\ preConsumedQuota'[q] = preConsumedQuota[q] /\ tokenConsumed'[q] = tokenConsumed[q]
    /\ consumed'[q] = consumed[q] /\ fundingSettled'[q] = fundingSettled[q]
    /\ settled'[q] = settled[q] /\ refunded'[q] = refunded[q] /\ job'[q] = job[q]
    /\ walletNet'[q] = walletNet[q] /\ tokenNet'[q] = tokenNet[q] /\ faulty'[q] = faulty[q]

LEMMA SameKeepsInv ==
    ASSUME NEW q \in Request, Same(q), Bounds(q), LocationInv(q)
    PROVE  Bounds(q)' /\ LocationInv(q)'
  BY DEF Same, Bounds, LocationInv, Untouched, NoFlags, Opened, Held, HalfPaid, Paid,
         SettleOutcome, Unrefunded, JobInv, TokenCharge, Effective, ShouldTrust

(* A step of one request leaves the session of every other request alone:  *)
(* requests share only the two balances.                                   *)
LEMMA OthersUntouched ==
    ASSUME TypeOK, NEW r \in Request, Step(r) \/ RefundJob(r), NEW q \in Request, q # r
    PROVE  Same(q)
  <1>1. CASE Accept(r)
    BY <1>1 DEF Accept, Goto, sessionVars, moneyVars, inputVars, TypeOK, Same
  <1>2. CASE OpenSession(r)
    BY <1>2 DEF OpenSession, Goto, sessionVars, moneyVars, inputVars, TypeOK, Same
  <1>3. CASE CheckToken(r)
    BY <1>3 DEF CheckToken, Goto, sessionVars, moneyVars, inputVars, TypeOK, Same
  <1>4. CASE TakeToken(r)
    BY <1>4 DEF TakeToken, ChargeToken, UpdateFails, Goto, sessionVars, moneyVars, inputVars, TypeOK, Same
  <1>5. CASE TakeWallet(r)
    BY <1>5 DEF TakeWallet, ChargeWallet, UpdateFails, Goto, sessionVars, moneyVars, inputVars, TypeOK, Same
  <1>6. CASE RollbackToken(r)
    BY <1>6 DEF RollbackToken, ChargeToken, UpdateFails, Goto, sessionVars, moneyVars, inputVars, TypeOK, Same
  <1>7. CASE AttemptSucceeds(r)
    BY <1>7 DEF AttemptSucceeds, Goto, sessionVars, moneyVars, inputVars, TypeOK, Same
  <1>8. CASE AttemptRetried(r)
    BY <1>8 DEF AttemptRetried, Goto, sessionVars, moneyVars, inputVars, TypeOK, Same
  <1>9. CASE AttemptFails(r)
    BY <1>9 DEF AttemptFails, Goto, sessionVars, moneyVars, inputVars, TypeOK, Same
  <1>10. CASE HandlerPanics(r)
    BY <1>10 DEF HandlerPanics, Goto, sessionVars, moneyVars, inputVars, TypeOK, Same
  <1>11. CASE SettleNothing(r)
    BY <1>11 DEF SettleNothing, Goto, sessionVars, moneyVars, inputVars, TypeOK, Same
  <1>12. CASE SettleWallet(r)
    BY <1>12 DEF SettleWallet, ChargeWallet, UpdateFails, Goto, sessionVars, moneyVars, inputVars, TypeOK, Same
  <1>13. CASE SettleToken(r)
    BY <1>13 DEF SettleToken, ChargeToken, UpdateFails, Goto, sessionVars, moneyVars, inputVars, TypeOK, Same
  <1>14. CASE Answer(r)
    BY <1>14 DEF Answer, Goto, sessionVars, moneyVars, inputVars, TypeOK, Same
  <1>15. CASE Refund(r)
    BY <1>15 DEF Refund, Goto, sessionVars, moneyVars, inputVars, TypeOK, Same
  <1>16. CASE RefundWallet(r)
    BY <1>16 DEF RefundWallet, ChargeWallet, UpdateFails, Goto, sessionVars, moneyVars, inputVars, TypeOK, Same
  <1>17. CASE RefundToken(r)
    BY <1>17 DEF RefundToken, ChargeToken, UpdateFails, Goto, sessionVars, moneyVars, inputVars, TypeOK, Same
  <1> QED
    BY <1>1, <1>2, <1>3, <1>4, <1>5, <1>6, <1>7, <1>8, <1>9, <1>10, <1>11, <1>12, <1>13, <1>14, <1>15, <1>16, <1>17 DEF Step, RefundJob

-----------------------------------------------------------------------------
(* A charge, or a failed update, keeps the types of the balances.          *)
LEMMA ChargeType ==
    ASSUME TypeOK, NEW r \in Request, NEW n \in Int
    PROVE  /\ ChargeWallet(r, n) => wallet' \in Int /\ walletNet' \in [Request -> Int]
           /\ ChargeToken(r, n) => token' \in Int /\ tokenNet' \in [Request -> Int]
           /\ UpdateFails(r) => faulty' \in [Request -> BOOLEAN]
  <1>1. ChargeWallet(r, n) => wallet' \in Int /\ walletNet' \in [Request -> Int]
    BY DEF TypeOK, ChargeWallet
  <1>2. ChargeToken(r, n) => token' \in Int /\ tokenNet' \in [Request -> Int]
    BY DEF TypeOK, ChargeToken
  <1>3. UpdateFails(r) => faulty' \in [Request -> BOOLEAN]
    BY DEF TypeOK, UpdateFails
  <1> QED
    BY <1>1, <1>2, <1>3

(* Each action keeps the types.                                            *)
LEMMA StepType ==
    ASSUME TypeOK, NEW r \in Request, Step(r) \/ RefundJob(r)
    PROVE  TypeOK'
  <1>e. Effective(r) \in Nat
    BY EffectiveBounded
  <1> USE ConstantsAssumption DEF TypeOK, Location, Ended, Goto, sessionVars, moneyVars, inputVars
  <1>1. CASE Accept(r)
    BY <1>1 DEF Accept
  <1>2. CASE OpenSession(r)
    BY <1>2 DEF OpenSession
  <1>3. CASE CheckToken(r)
    BY <1>3, <1>e DEF CheckToken
  <1>4. CASE TakeToken(r)
    <2>1. ChargeToken(r, Effective(r)) => token' \in Int /\ tokenNet' \in [Request -> Int]
      BY <1>e, ChargeType
    <2>2. UpdateFails(r) => faulty' \in [Request -> BOOLEAN]
      BY ChargeType
    <2> QED
      BY <1>4, <2>1, <2>2, <1>e DEF TakeToken
  <1>5. CASE TakeWallet(r)
    <2>1. ChargeWallet(r, Effective(r)) => wallet' \in Int /\ walletNet' \in [Request -> Int]
      BY <1>e, ChargeType
    <2>2. UpdateFails(r) => faulty' \in [Request -> BOOLEAN]
      BY ChargeType
    <2> QED
      BY <1>5, <2>1, <2>2, <1>e DEF TakeWallet
  <1>6. CASE RollbackToken(r)
    <2>1. -tokenConsumed[r] \in Int
      OBVIOUS
    <2> QED
      BY <1>6, <2>1, ChargeType DEF RollbackToken
  <1>7. CASE AttemptSucceeds(r)
    BY <1>7 DEF AttemptSucceeds
  <1>8. CASE AttemptRetried(r)
    BY <1>8 DEF AttemptRetried
  <1>9. CASE AttemptFails(r)
    BY <1>9 DEF AttemptFails
  <1>10. CASE HandlerPanics(r)
    BY <1>10 DEF HandlerPanics
  <1>11. CASE SettleNothing(r)
    BY <1>11 DEF SettleNothing, Delta
  <1>12. CASE SettleWallet(r)
    <2>1. Delta(r) \in Int
      BY DEF Delta
    <2> QED
      BY <1>12, <2>1, ChargeType DEF SettleWallet
  <1>13. CASE SettleToken(r)
    <2>1. Delta(r) \in Int
      BY DEF Delta
    <2> QED
      BY <1>13, <2>1, ChargeType DEF SettleToken
  <1>14. CASE Answer(r)
    BY <1>14 DEF Answer
  <1>15. CASE Refund(r)
    BY <1>15 DEF Refund, NeedsRefund
  <1>16. CASE RefundWallet(r)
    <2>1. -consumed[r] \in Int
      OBVIOUS
    <2> QED
      BY <1>16, <2>1, ChargeType DEF RefundWallet
  <1>17. CASE RefundToken(r)
    <2>1. -tokenConsumed[r] \in Int
      OBVIOUS
    <2> QED
      BY <1>17, <2>1, ChargeType DEF RefundToken
  <1> QED
    BY <1>1, <1>2, <1>3, <1>4, <1>5, <1>6, <1>7, <1>8, <1>9, <1>10, <1>11, <1>12, <1>13, <1>14, <1>15, <1>16, <1>17 DEF Step, RefundJob

(* Each action keeps the invariant of the request that takes it.           *)
LEMMA StepKeepsInv ==
    ASSUME IInv, NEW r \in Request, Step(r) \/ RefundJob(r)
    PROVE  Bounds(r)' /\ LocationInv(r)'
  <1>e. Effective(r) \in Nat /\ Effective(r) <= par[r].pre
    BY EffectiveBounded DEF IInv
  <1>d. Delta(r) = 0 => actual[r] = preConsumedQuota[r]
    BY DEF IInv, TypeOK, Delta
  <1>p. par[r].pre \in Nat /\ par[r].free \in BOOLEAN
    BY ConstantsAssumption DEF IInv, TypeOK, Param
  <1> USE ConstantsAssumption DEF IInv, SessionInv, TypeOK, Param, Goto, sessionVars, moneyVars,
                                  inputVars, Bounds, LocationInv, TokenCharge
  <1>1. CASE Accept(r)
    BY <1>1, <1>p DEF Accept, Untouched, NoFlags, Opened, Held
  <1>2. CASE OpenSession(r)
    BY <1>2 DEF OpenSession, Untouched, NoFlags
  <1>3. CASE CheckToken(r)
    BY <1>3, <1>e DEF CheckToken, Untouched, NoFlags, Effective, ShouldTrust
  <1>4. CASE TakeToken(r)
    BY <1>4, <1>e DEF TakeToken, ChargeToken, UpdateFails, Untouched, NoFlags, Effective, ShouldTrust
  <1>5. CASE TakeWallet(r)
    BY <1>5, <1>e DEF TakeWallet, ChargeWallet, UpdateFails, NoFlags, Opened, Held, Effective, ShouldTrust
  <1>6. CASE RollbackToken(r)
    BY <1>6, <1>e DEF RollbackToken, ChargeToken, UpdateFails, NoFlags, Effective, ShouldTrust
  <1>7. CASE AttemptSucceeds(r)
    BY <1>7 DEF AttemptSucceeds, NoFlags, Opened, Held
  <1>8. CASE AttemptRetried(r)
    BY <1>8 DEF AttemptRetried, NoFlags, Opened, Held
  <1>9. CASE AttemptFails(r)
    BY <1>9 DEF AttemptFails, NoFlags, Opened, Held, Unrefunded
  <1>10. CASE HandlerPanics(r)
    BY <1>10 DEF HandlerPanics, NoFlags, Opened, Held, HalfPaid, Paid, SettleOutcome, Unrefunded
  <1>11. CASE SettleNothing(r)
    <2>1. actual[r] = preConsumedQuota[r]
      BY <1>11, <1>d DEF SettleNothing
    <2>2. settled'[r] = (~par[r].free)
      BY <1>11 DEF SettleNothing
    <2>3. Opened(r)' /\ Paid(r)' /\ UNCHANGED par
      BY <1>11, <2>1 DEF SettleNothing, NoFlags, Opened, Held, Paid
    <2> QED
      BY <1>11, <2>2, <2>3 DEF SettleNothing, NoFlags, SettleOutcome
  <1>12. CASE SettleWallet(r)
    BY <1>12 DEF SettleWallet, Delta, ChargeWallet, UpdateFails, NoFlags, Opened, Held, HalfPaid, SettleOutcome
  <1>13. CASE SettleToken(r)
    BY <1>13 DEF SettleToken, Delta, ChargeToken, UpdateFails, Opened, HalfPaid, Paid, SettleOutcome
  <1>14. CASE Answer(r)
    BY <1>14 DEF Answer, Opened, Held, HalfPaid, Paid, SettleOutcome
  <1>15. CASE Refund(r)
    <2>1. CASE NeedsRefund(r)
      <3>1. Opened(r) /\ Held(r) /\ ~settled[r] /\ ~fundingSettled[r]
        BY <1>15, <2>1, <1>p DEF Refund, NeedsRefund, Opened, Held, HalfPaid, SettleOutcome, Unrefunded
      <3>2. refunded'[r] /\ job'[r] = "wallet" /\ pc'[r] = "failed"
        BY <1>15, <2>1 DEF Refund
      <3> QED
        BY <1>15, <3>1, <3>2 DEF Refund, Opened, Held, JobInv
    <2>2. CASE ~NeedsRefund(r)
      BY <1>15, <2>2 DEF Refund, NeedsRefund, Opened, Held, HalfPaid, Paid, SettleOutcome, Unrefunded
    <2> QED
      BY <2>1, <2>2
  <1>16. CASE RefundWallet(r)
    BY <1>16 DEF RefundWallet, ChargeWallet, UpdateFails, Location, Ended, NoFlags, Opened, Held, JobInv
  <1>17. CASE RefundToken(r)
    BY <1>17 DEF RefundToken, ChargeToken, UpdateFails, Location, Ended, NoFlags, Opened, Held, JobInv
  <1> QED
    BY <1>1, <1>2, <1>3, <1>4, <1>5, <1>6, <1>7, <1>8, <1>9, <1>10, <1>11, <1>12, <1>13, <1>14, <1>15, <1>16, <1>17 DEF Step, RefundJob

(* A crash moves every live request to "crashed" and drops its refund.     *)
LEMMA CrashKeepsInv ==
    ASSUME IInv, Crash
    PROVE  IInv'
  <1>1. TypeOK'
    BY DEF IInv, TypeOK, Crash, Location, Ended, sessionVars, moneyVars, inputVars
  <1>2. ASSUME NEW r \in Request
        PROVE  Bounds(r)' /\ LocationInv(r)'
    <2>1. CASE pc[r] \in Ended \cup {"new"}
      BY <2>1 DEF IInv, SessionInv, TypeOK, Crash, Ended, sessionVars, moneyVars, inputVars,
              Bounds, LocationInv, Untouched, NoFlags, Opened, Held, HalfPaid, Paid,
              SettleOutcome, Unrefunded, JobInv, TokenCharge
    <2>2. CASE pc[r] \notin Ended \cup {"new"}
      BY <2>2 DEF IInv, SessionInv, TypeOK, Crash, Location, Ended, sessionVars, moneyVars, inputVars,
              Bounds, LocationInv, NoFlags
    <2> QED
      BY <2>1, <2>2
  <1> QED
    BY <1>1, <1>2 DEF IInv, SessionInv

LEMMA InitInv == Init => IInv
  <1> SUFFICES ASSUME Init PROVE IInv
    OBVIOUS
  <1>1. TypeOK
    BY ConstantsAssumption DEF Init, TypeOK, Location, Param
  <1>2. ASSUME NEW r \in Request
        PROVE  Bounds(r) /\ LocationInv(r)
    BY <1>1, ConstantsAssumption DEF Init, TypeOK, Param, Bounds, LocationInv, Untouched, NoFlags
  <1> QED
    BY <1>1, <1>2 DEF IInv, SessionInv

LEMMA NextInv == IInv /\ [Next]_vars => IInv'
  <1> SUFFICES ASSUME IInv, [Next]_vars PROVE IInv'
    OBVIOUS
  <1>1. ASSUME NEW r \in Request, Step(r) \/ RefundJob(r)
        PROVE  IInv'
    <2>1. TypeOK'
      BY <1>1, StepType DEF IInv
    <2>2. ASSUME NEW q \in Request
          PROVE  Bounds(q)' /\ LocationInv(q)'
      <3>1. CASE q = r
        BY <1>1, <3>1, StepKeepsInv
      <3>2. CASE q # r
        BY <1>1, <3>2, OthersUntouched, SameKeepsInv DEF IInv, SessionInv
      <3> QED
        BY <3>1, <3>2
    <2> QED
      BY <2>1, <2>2 DEF IInv, SessionInv
  <1>2. CASE Crash
    BY <1>2, CrashKeepsInv
  <1>3. CASE UNCHANGED vars
    <2>1. TypeOK'
      BY <1>3 DEF IInv, TypeOK, vars, sessionVars, moneyVars, inputVars
    <2>2. ASSUME NEW q \in Request
          PROVE  Bounds(q)' /\ LocationInv(q)'
      <3>1. Same(q)
        BY <1>3 DEF Same, vars, sessionVars, moneyVars, inputVars
      <3> QED
        BY <3>1, SameKeepsInv DEF IInv, SessionInv
    <2> QED
      BY <2>1, <2>2 DEF IInv, SessionInv
  <1> QED
    BY <1>1, <1>2, <1>3 DEF Next, Done

-----------------------------------------------------------------------------
(* The inductive invariant holds.                                          *)
THEOREM Invariance == Spec => []IInv
  BY InitInv, NextInv, PTL DEF Spec

(* Type correctness.                                                       *)
THEOREM TypeCorrect == Spec => []TypeOK
  <1>1. IInv => TypeOK
    BY DEF IInv
  <1> QED
    BY <1>1, Invariance, PTL

(* Settle and Refund exclude each other, for any number of requests.       *)
THEOREM Exclusion == Spec => []SettledOrRefunded
  <1>1. IInv => SettledOrRefunded
    BY DEF IInv, TypeOK, SessionInv, LocationInv, NoFlags, SettledOrRefunded, Location, Ended
  <1> QED
    BY <1>1, Invariance, PTL

(* No request takes more than the larger of estimate and charge, and none  *)
(* gains, whatever fails.                                                  *)
THEOREM NoOvercharge == Spec => []NeverOvercharged
  <1>1. IInv => NeverOvercharged
    BY DEF IInv, SessionInv, Bounds, NeverOvercharged
  <1> QED
    BY <1>1, Invariance, PTL

(* The books of an ended request are exact when none of its updates        *)
(* failed.                                                                 *)
THEOREM ExactBooks == Spec => []AccountedExactly
  <1>1. ASSUME IInv, NEW r \in Request, ~faulty[r]
        PROVE  /\ pc[r] = "rejected" => walletNet[r] = 0 /\ tokenNet[r] = 0
               /\ pc[r] = "answered" => walletNet[r] = actual[r] /\ TokenCharge(r, actual[r])
    BY <1>1 DEF IInv, SessionInv, LocationInv, SettleOutcome, Paid
  <1>2. ASSUME IInv, NEW r \in Request, ~faulty[r], pc[r] = "failed", job[r] \in {"none", "done"}
        PROVE  /\ fundingSettled[r] => walletNet[r] = actual[r]
               /\ settled[r] => walletNet[r] = actual[r] /\ TokenCharge(r, actual[r])
               /\ ~settled[r] /\ ~fundingSettled[r] /\ ~par[r].free =>
                     walletNet[r] = 0 /\ tokenNet[r] = 0
    BY <1>2 DEF IInv, TypeOK, Param, SessionInv, LocationInv, Opened, Unrefunded, SettleOutcome, Held,
            HalfPaid, Paid, JobInv, TokenCharge
  <1>3. IInv => AccountedExactly
    BY <1>1, <1>2 DEF AccountedExactly
  <1> QED
    BY <1>3, Invariance, PTL

-----------------------------------------------------------------------------
(* Sums.                                                                   *)

Below == {ss \in Nat \X Nat : ss[1] < ss[2]}

(* Every set of numbers has a least one.                                   *)
LEMMA Least ==
    ASSUME NEW T \in SUBSET Nat, T # {}
    PROVE  \E x \in T : \A y \in T : x <= y
  <1>1. IsWellFoundedOn(Below, Nat)
    BY NatLessThanWellFounded DEF OpToRel, Below
  <1>2. PICK x \in T : \A y \in T : ~(<<y, x>> \in Below)
    BY <1>1, WFMin
  <1>3. ASSUME NEW y \in T, ~(x <= y)
        PROVE  FALSE
    <2>1. <<y, x>> \in Nat \X Nat /\ y < x
      BY <1>3
    <2>2. <<y, x>>[1] = y /\ <<y, x>>[2] = x
      OBVIOUS
    <2> QED
      BY <2>1, <2>2, <1>2 DEF Below
  <1> QED
    BY <1>3

Pick(t) == CHOOSE x \in t : TRUE

(* Induction over the subsets t of a finite set: a family of them that is  *)
(* not empty has a member without smaller ones in it.                      *)
LEMMA Smallest ==
    ASSUME NEW S, IsFiniteSet(S), NEW Q \in SUBSET (SUBSET S), Q # {}
    PROVE  \E t \in Q : t # {} => t \ {Pick(t)} \notin Q /\ Pick(t) \in t
  <1> DEFINE T == {n \in Nat : \E t \in Q : Cardinality(t) = n}
  <1>1. \A t \in SUBSET S : IsFiniteSet(t) /\ Cardinality(t) \in Nat
    BY FS_Subset, FS_CardinalityType
  <1>2. T \in SUBSET Nat /\ T # {}
    BY <1>1
  <1> HIDE DEF T
  <1>3. PICK n \in T : \A m \in T : n <= m
    BY <1>2, Least
  <1>4. PICK t \in Q : Cardinality(t) = n /\ n \in Nat
    BY <1>3 DEF T
  <1>5. ASSUME t # {}
        PROVE  t \ {Pick(t)} \notin Q /\ Pick(t) \in t
    <2>1. Pick(t) \in t
      BY <1>5 DEF Pick
    <2>2. IsFiniteSet(t) /\ t \in SUBSET S
      BY <1>1
    <2>3. Cardinality(t \ {Pick(t)}) = n - 1
      BY <1>4, <2>1, <2>2, FS_RemoveElement
    <2>4. ASSUME t \ {Pick(t)} \in Q
          PROVE  FALSE
      <3>1. Cardinality(t \ {Pick(t)}) \in Nat
        BY <1>1, <2>2
      <3>2. n - 1 \in T
        BY <2>3, <2>4, <3>1 DEF T
      <3>3. n <= n - 1
        BY <3>2, <1>3
      <3> QED
        BY <3>3, <1>4
    <2> QED
      BY <2>1, <2>4
  <1> QED
    BY <1>5

SumRow(f, g, t) == IF t = {} THEN 0 ELSE f[Pick(t)] + g[t \ {Pick(t)}]
Table(f, S) == CHOOSE g : g = [t \in SUBSET S |-> SumRow(f, g, t)]

LEMMA SumIsTable == ASSUME NEW f PROVE SumFunction(f) = Table(f, DOMAIN f)[DOMAIN f]
  BY DEF SumFunction, SumFunctionOnSet, FoldFunctionOnSet, MapThenFoldSet, Table, SumRow, Pick

(* The recursion of the fold is well-founded.                              *)
LEMMA TableRow ==
    ASSUME NEW S, IsFiniteSet(S), NEW f
    PROVE  \A t \in SUBSET S : Table(f, S)[t] = SumRow(f, Table(f, S), t)
  <1> DEFINE Low(n) == {t \in SUBSET S : Cardinality(t) <= n}
             Has(n) == \E g : g = [t \in Low(n) |-> SumRow(f, g, t)]
             Bad == {n \in Nat : ~Has(n)}
  <1>1. \A t \in SUBSET S : IsFiniteSet(t) /\ Cardinality(t) \in Nat
    BY FS_Subset, FS_CardinalityType
  <1>2. Has(0)
    <2>1. \A t \in Low(0) : t = {}
      BY <1>1, FS_EmptySet
    <2> DEFINE g == [t \in Low(0) |-> 0]
    <2>2. \A h : \A t \in Low(0) : SumRow(f, h, t) = 0
      BY <2>1 DEF SumRow
    <2>3. g = [t \in Low(0) |-> SumRow(f, g, t)]
      BY <2>2
    <2> QED
      BY <2>3
  <1>3. ASSUME NEW n \in Nat, Has(n)
        PROVE  Has(n + 1)
    <2>1. PICK g : g = [t \in Low(n) |-> SumRow(f, g, t)]
      BY <1>3
    <2> DEFINE h == [t \in Low(n + 1) |-> SumRow(f, g, t)]
    <2>2. ASSUME NEW t \in Low(n + 1)
          PROVE  SumRow(f, h, t) = SumRow(f, g, t)
      <3>1. CASE t = {}
        BY <3>1 DEF SumRow
      <3>2. CASE t # {}
        <4> DEFINE u == t \ {Pick(t)}
        <4>1. Pick(t) \in t
          BY <3>2 DEF Pick
        <4>2. Cardinality(u) = Cardinality(t) - 1 /\ u \in SUBSET S
              /\ Cardinality(t) \in Nat /\ Cardinality(u) \in Nat
          BY <4>1, <1>1, FS_RemoveElement
        <4>3. u \in Low(n) /\ u \in Low(n + 1)
          BY <4>2
        <4> HIDE DEF u
        <4>4. h[u] = SumRow(f, g, u) /\ g[u] = SumRow(f, g, u)
          BY <4>3, <2>1
        <4> HIDE DEF h
        <4> QED
          BY <4>4, <3>2 DEF SumRow, u
      <3> QED
        BY <3>1, <3>2
    <2>3. h = [t \in Low(n + 1) |-> SumRow(f, h, t)]
      BY <2>2
    <2> QED
      BY <2>3
  <1>4. Bad = {}
    <2> SUFFICES ASSUME Bad # {} PROVE FALSE
      OBVIOUS
    <2> HIDE DEF Has
    <2>0. Bad \in SUBSET Nat
      OBVIOUS
    <2>1. PICK n \in Bad : \A m \in Bad : n <= m
      BY <2>0, Least
    <2>2. n \in Nat /\ ~Has(n)
      BY <2>1
    <2>3. n # 0
      BY <2>2, <1>2
    <2>4. n - 1 \in Nat /\ ~(n <= n - 1) /\ n - 1 + 1 = n
      BY <2>2, <2>3
    <2>5. Has(n - 1)
      BY <2>1, <2>4
    <2> QED
      BY <2>2, <2>4, <2>5, <1>3
  <1>5. Has(Cardinality(S)) /\ Low(Cardinality(S)) = SUBSET S
    <2>1. Cardinality(S) \in Nat
      BY <1>1
    <2>2. \A t \in SUBSET S : Cardinality(t) <= Cardinality(S)
      BY FS_Subset
    <2>3. Low(Cardinality(S)) = SUBSET S
      BY <2>2
    <2> HIDE DEF Has
    <2> QED
      BY <2>1, <2>3, <1>4
  <1>6. \E g : g = [t \in SUBSET S |-> SumRow(f, g, t)]
    BY <1>5
  <1>7. Table(f, S) = [t \in SUBSET S |-> SumRow(f, Table(f, S), t)]
    BY <1>6 DEF Table
  <1> QED
    BY <1>7

LEMMA Row ==
    ASSUME NEW f, NEW g, NEW t
    PROVE  /\ t = {} => SumRow(f, g, t) = 0
           /\ t # {} => SumRow(f, g, t) = f[Pick(t)] + g[t \ {Pick(t)}]
  BY DEF SumRow

LEMMA TableInt ==
    ASSUME NEW D, IsFiniteSet(D), NEW f \in [D -> Int]
    PROVE  \A t \in SUBSET D : Table(f, D)[t] \in Int
  <1> DEFINE F == Table(f, D)  Bad == {t \in SUBSET D : F[t] \notin Int}
  <1>1. \A t \in SUBSET D : F[t] = SumRow(f, F, t)
    BY TableRow
  <1> SUFFICES ASSUME Bad # {} PROVE FALSE
    OBVIOUS
  <1> HIDE DEF F
  <1>2. PICK t \in Bad : t # {} => t \ {Pick(t)} \notin Bad /\ Pick(t) \in t
    <2>1. Bad \in SUBSET (SUBSET D)
      OBVIOUS
    <2> HIDE DEF Bad
    <2> QED
      BY <2>1, Smallest
  <1>a. t \in SUBSET D /\ F[t] \notin Int /\ F[t] = SumRow(f, F, t)
    BY <1>1, <1>2
  <1>3. CASE t = {}
    BY <1>a, <1>3, Row
  <1>4. CASE t # {}
    <2>1. F[t \ {Pick(t)}] \in Int /\ f[Pick(t)] \in Int
      BY <1>2, <1>4
    <2>2. F[t] = f[Pick(t)] + F[t \ {Pick(t)}]
      BY <1>a, <1>4, Row
    <2> QED
      BY <2>1, <2>2, <1>a
  <1> QED
    BY <1>3, <1>4

(* A sum is at most the sum of two whose members are together as large.    *)
LEMMA TableMonotone ==
    ASSUME NEW D, IsFiniteSet(D), NEW f \in [D -> Int], NEW g \in [D -> Int], NEW h \in [D -> Int],
           \A x \in D : h[x] <= f[x] + g[x]
    PROVE  \A t \in SUBSET D : Table(h, D)[t] <= Table(f, D)[t] + Table(g, D)[t]
  <1> DEFINE F == Table(f, D)  G == Table(g, D)  H == Table(h, D)
             Bad == {t \in SUBSET D : ~(H[t] <= F[t] + G[t])}
  <1>1. \A t \in SUBSET D : F[t] = SumRow(f, F, t) /\ G[t] = SumRow(g, G, t) /\ H[t] = SumRow(h, H, t)
    BY TableRow
  <1>2. \A t \in SUBSET D : F[t] \in Int /\ G[t] \in Int /\ H[t] \in Int
    BY TableInt
  <1> SUFFICES ASSUME Bad # {} PROVE FALSE
    OBVIOUS
  <1> HIDE DEF F, G, H
  <1>3. PICK t \in Bad : t # {} => t \ {Pick(t)} \notin Bad /\ Pick(t) \in t
    <2>1. Bad \in SUBSET (SUBSET D)
      OBVIOUS
    <2> HIDE DEF Bad
    <2> QED
      BY <2>1, Smallest
  <1>a. t \in SUBSET D /\ ~(H[t] <= F[t] + G[t])
        /\ F[t] = SumRow(f, F, t) /\ G[t] = SumRow(g, G, t) /\ H[t] = SumRow(h, H, t)
    BY <1>1, <1>3
  <1>b. G[t] = SumRow(g, G, t)
    BY <1>a
  <1>c. H[t] = SumRow(h, H, t)
    BY <1>a
  <1>4. CASE t = {}
    <2>a. F[t] = 0
      BY <1>a, <1>4, Row
    <2>b. G[t] = 0
      BY <1>b, <1>4 DEF SumRow
    <2>c. H[t] = 0
      BY <1>c, <1>4 DEF SumRow
    <2>1. F[t] = 0 /\ G[t] = 0 /\ H[t] = 0
      BY <2>a, <2>b, <2>c
    <2> QED
      BY <2>1, <1>a
  <1>5. CASE t # {}
    <2> DEFINE x == Pick(t)  u == t \ {Pick(t)}
    <2>1. t \in SUBSET D /\ x \in D /\ u \in SUBSET D /\ H[u] <= F[u] + G[u]
      BY <1>3, <1>5
    <2>a. F[t] = f[x] + F[u]
      BY <1>a, <1>5, Row
    <2>b. G[t] = g[x] + G[u]
      BY <1>b, <1>5 DEF SumRow
    <2>c. H[t] = h[x] + H[u]
      BY <1>c, <1>5 DEF SumRow
    <2>2. F[t] = f[x] + F[u] /\ G[t] = g[x] + G[u] /\ H[t] = h[x] + H[u]
      BY <2>a, <2>b, <2>c
    <2> HIDE DEF x, u
    <2>3. f[x] \in Int /\ g[x] \in Int /\ h[x] \in Int /\ h[x] <= f[x] + g[x]
          /\ F[u] \in Int /\ G[u] \in Int /\ H[u] \in Int
      BY <2>1, <1>2
    <2>4. H[t] <= F[t] + G[t]
      BY <2>1, <2>2, <2>3
    <2> QED
      BY <2>4, <1>a
  <1> QED
    BY <1>4, <1>5

LEMMA TableChange ==
    ASSUME NEW D, IsFiniteSet(D), NEW f \in [D -> Int], NEW r \in D, NEW n \in Int,
           NEW g \in [D -> Int], g[r] = f[r] + n, \A x \in D : x # r => g[x] = f[x]
    PROVE  \A t \in SUBSET D : Table(g, D)[t] = Table(f, D)[t] + (IF r \in t THEN n ELSE 0)
  <1> DEFINE F == Table(f, D)  G == Table(g, D)
             Bad == {t \in SUBSET D : ~(G[t] = F[t] + (IF r \in t THEN n ELSE 0))}
  <1>1. \A t \in SUBSET D : F[t] = SumRow(f, F, t) /\ G[t] = SumRow(g, G, t)
    BY TableRow
  <1>2. \A t \in SUBSET D : F[t] \in Int /\ G[t] \in Int
    BY TableInt
  <1> SUFFICES ASSUME Bad # {} PROVE FALSE
    OBVIOUS
  <1> HIDE DEF F, G
  <1>3. PICK t \in Bad : t # {} => t \ {Pick(t)} \notin Bad /\ Pick(t) \in t
    <2>1. Bad \in SUBSET (SUBSET D)
      OBVIOUS
    <2> HIDE DEF Bad
    <2> QED
      BY <2>1, Smallest
  <1>a. t \in SUBSET D /\ ~(G[t] = F[t] + (IF r \in t THEN n ELSE 0))
        /\ F[t] = SumRow(f, F, t) /\ G[t] = SumRow(g, G, t)
    BY <1>1, <1>3
  <1>4. CASE t = {}
    <2>1. F[t] = 0 /\ G[t] = 0 /\ r \notin t
      BY <1>a, <1>4, Row
    <2> QED
      BY <2>1, <1>a
  <1>5. CASE t # {}
    <2> DEFINE x == Pick(t)  u == t \ {Pick(t)}
    <2>1. t \in SUBSET D /\ x \in t /\ x \in D /\ u \in SUBSET D /\ u = t \ {x}
          /\ G[u] = F[u] + (IF r \in u THEN n ELSE 0)
      BY <1>3, <1>5
    <2>a. F[t] = f[x] + F[u]
      BY <1>a, <1>5, Row
    <2>b. G[t] = g[x] + G[u]
      BY <1>a, <1>5, Row
    <2>2. F[t] = f[x] + F[u] /\ G[t] = g[x] + G[u]
      BY <2>a, <2>b
    <2> HIDE DEF x, u
    <2>3. f[x] \in Int /\ g[x] \in Int /\ F[u] \in Int /\ G[u] \in Int
      BY <2>1, <1>2
    <2>4. CASE x = r
      <3>1. r \notin u /\ r \in t /\ g[x] = f[x] + n
        BY <2>1, <2>4
      <3>2. G[t] = F[t] + n
        BY <2>1, <2>2, <2>3, <3>1
      <3> QED
        BY <3>1, <3>2, <1>a
    <2>5. CASE x # r
      <3>1. (r \in u <=> r \in t) /\ g[x] = f[x]
        BY <2>1, <2>5
      <3>2. G[t] = F[t] + (IF r \in t THEN n ELSE 0)
        BY <2>1, <2>2, <2>3, <3>1
      <3> QED
        BY <3>2, <1>a
    <2> QED
      BY <2>4, <2>5
  <1> QED
    BY <1>4, <1>5

LEMMA TableZero ==
    ASSUME NEW D, IsFiniteSet(D), NEW f, \A x \in D : f[x] = 0
    PROVE  \A t \in SUBSET D : Table(f, D)[t] = 0
  <1> DEFINE F == Table(f, D)  Bad == {t \in SUBSET D : F[t] # 0}
  <1>1. \A t \in SUBSET D : F[t] = SumRow(f, F, t)
    BY TableRow
  <1> SUFFICES ASSUME Bad # {} PROVE FALSE
    OBVIOUS
  <1> HIDE DEF F
  <1>2. PICK t \in Bad : t # {} => t \ {Pick(t)} \notin Bad /\ Pick(t) \in t
    <2>1. Bad \in SUBSET (SUBSET D)
      OBVIOUS
    <2> HIDE DEF Bad
    <2> QED
      BY <2>1, Smallest
  <1>a. t \in SUBSET D /\ F[t] # 0 /\ F[t] = SumRow(f, F, t)
    BY <1>1, <1>2
  <1>3. CASE t = {}
    BY <1>a, <1>3, Row
  <1>4. CASE t # {}
    <2>1. F[t \ {Pick(t)}] = 0 /\ f[Pick(t)] = 0
      BY <1>2, <1>4
    <2>2. F[t] = f[Pick(t)] + F[t \ {Pick(t)}]
      BY <1>a, <1>4, Row
    <2> QED
      BY <2>1, <2>2, <1>a
  <1> QED
    BY <1>3, <1>4

(* What the sums of a function over a finite set are.                      *)
LEMMA Sums ==
    ASSUME NEW D, IsFiniteSet(D), NEW f \in [D -> Int]
    PROVE  /\ SumFunction(f) \in Int
           /\ (\A x \in D : f[x] = 0) => SumFunction(f) = 0
           /\ (\A x \in D : f[x] >= 0) => SumFunction(f) >= 0
           /\ \A r \in D, n \in Int : SumFunction([f EXCEPT ![r] = @ + n]) = SumFunction(f) + n
           /\ \A g, h \in [D -> Int] :
                 (\A x \in D : h[x] <= f[x] + g[x]) => SumFunction(h) <= SumFunction(f) + SumFunction(g)
  <1>1. \A g \in [D -> Int] : SumFunction(g) = Table(g, D)[D] /\ SumFunction(g) \in Int
    BY SumIsTable, TableInt
  <1>2. (\A x \in D : f[x] = 0) => SumFunction(f) = 0
    BY <1>1, TableZero
  <1>3. ASSUME NEW r \in D, NEW n \in Int
        PROVE  SumFunction([f EXCEPT ![r] = @ + n]) = SumFunction(f) + n
    <2> DEFINE g == [f EXCEPT ![r] = @ + n]
    <2>1. g \in [D -> Int] /\ g[r] = f[r] + n /\ \A x \in D : x # r => g[x] = f[x]
      OBVIOUS
    <2> HIDE DEF g
    <2>2. Table(g, D)[D] = Table(f, D)[D] + (IF r \in D THEN n ELSE 0)
      BY <2>1, TableChange
    <2>3. SumFunction(g) = SumFunction(f) + n
      BY <2>1, <2>2, <1>1
    <2> QED
      BY <2>3 DEF g
  <1>4. ASSUME NEW g \in [D -> Int], NEW h \in [D -> Int], \A x \in D : h[x] <= f[x] + g[x]
        PROVE  SumFunction(h) <= SumFunction(f) + SumFunction(g)
    <2>1. Table(h, D)[D] <= Table(f, D)[D] + Table(g, D)[D]
      BY <1>4, TableMonotone
    <2> QED
      BY <2>1, <1>1
  <1>5. ASSUME \A x \in D : f[x] >= 0
        PROVE  SumFunction(f) >= 0
    <2> DEFINE z == [x \in D |-> 0]
    <2>1. z \in [D -> Int] /\ \A x \in D : z[x] = 0
      OBVIOUS
    <2>2. \A x \in D : z[x] <= f[x] + z[x]
      BY <1>5, <2>1
    <2> HIDE DEF z
    <2>3. Table(z, D)[D] <= Table(f, D)[D] + Table(z, D)[D] /\ Table(z, D)[D] = 0
      BY <2>1, <2>2, TableMonotone, TableZero
    <2>4. Table(f, D)[D] \in Int
      BY TableInt
    <2> QED
      BY <2>3, <2>4, <1>1
  <1> QED
    BY <1>1, <1>2, <1>3, <1>4, <1>5

-----------------------------------------------------------------------------
(* The wallet of requests that race.                                       *)

(* The wallet is what it was, less what the requests took.                 *)
Books == wallet = Wallet0 - SumFunction(walletNet)

(* What r takes was in the wallet at the start.                            *)
Covered(r) ==
    /\ consumed[r] = 0 \/ consumed[r] <= Wallet0
    /\ pc[r] \in {"checkToken", "takeToken", "takeWallet"} => Effective(r) = 0 \/ Effective(r) <= Wallet0

WalletInv == IInv /\ Books /\ \A r \in Request : Covered(r)

LEMMA WalletLow ==
    ASSUME WalletInv
    PROVE  wallet \in Int /\ wallet <= Wallet0
  <1>1. walletNet \in [Request -> Int] /\ \A r \in Request : walletNet[r] >= 0
    BY DEF WalletInv, IInv, TypeOK, SessionInv, Bounds
  <1>2. SumFunction(walletNet) \in Int /\ SumFunction(walletNet) >= 0
    BY <1>1, RequestAssumption, Sums
  <1> QED
    BY <1>2, ConstantsAssumption DEF WalletInv, Books

(* A step charges the wallet for one request or leaves it.                 *)
LEMMA Charges ==
    ASSUME IInv, NEW r \in Request, Step(r) \/ RefundJob(r)
    PROVE  \/ UNCHANGED <<wallet, walletNet>>
           \/ \E n \in Int : ChargeWallet(r, n)
  <1>e. Effective(r) \in Int
    BY EffectiveBounded DEF IInv
  <1>d. Delta(r) \in Int /\ -consumed[r] \in Int
    BY DEF IInv, TypeOK, Delta
  <1>1. CASE TakeWallet(r)
    BY <1>1, <1>e DEF TakeWallet
  <1>2. CASE SettleWallet(r)
    BY <1>2, <1>d DEF SettleWallet
  <1>3. CASE RefundWallet(r)
    BY <1>3, <1>d DEF RefundWallet
  <1>4. CASE ~TakeWallet(r) /\ ~SettleWallet(r) /\ ~RefundWallet(r)
    BY <1>4 DEF Step, RefundJob, Accept, OpenSession, CheckToken, TakeToken, RollbackToken,
        AttemptSucceeds, AttemptRetried, AttemptFails, HandlerPanics, SettleNothing, SettleToken,
        Answer, Refund, RefundToken, moneyVars
  <1> QED
    BY <1>1, <1>2, <1>3, <1>4

LEMMA BooksKept ==
    ASSUME WalletInv, [Next]_vars
    PROVE  Books'
  <1>1. CASE UNCHANGED <<wallet, walletNet>>
    BY <1>1 DEF WalletInv, Books
  <1>2. ASSUME NEW r \in Request, NEW n \in Int, ChargeWallet(r, n)
        PROVE  Books'
    <2>1. walletNet \in [Request -> Int] /\ wallet \in Int
      BY DEF WalletInv, IInv, TypeOK
    <2>2. SumFunction(walletNet') = SumFunction(walletNet) + n /\ SumFunction(walletNet) \in Int
      <3>1. walletNet' = [walletNet EXCEPT ![r] = @ + n]
        BY <1>2 DEF ChargeWallet
      <3>2. SumFunction([walletNet EXCEPT ![r] = @ + n]) = SumFunction(walletNet) + n
            /\ SumFunction(walletNet) \in Int
        BY <2>1, RequestAssumption, Sums
      <3> QED
        BY <3>1, <3>2
    <2>3. wallet' = wallet - n
      BY <1>2 DEF ChargeWallet
    <2> QED
      BY <2>1, <2>2, <2>3, ConstantsAssumption DEF WalletInv, Books
  <1>3. CASE Crash \/ Done \/ UNCHANGED vars
    BY <1>1, <1>3 DEF Crash, Done, vars, moneyVars
  <1>4. CASE \E r \in Request : Step(r) \/ RefundJob(r)
    <2>1. PICK r \in Request : Step(r) \/ RefundJob(r)
      BY <1>4
    <2> QED
      BY <2>1, <1>1, <1>2, Charges DEF WalletInv
  <1> QED
    BY <1>3, <1>4 DEF Next

LEMMA CoveredKept ==
    ASSUME WalletInv, NEW r \in Request, Step(r) \/ RefundJob(r)
    PROVE  Covered(r)'
  <1>e. Effective(r) \in Nat
    BY EffectiveBounded DEF WalletInv, IInv
  <1>t. /\ TypeOK /\ par[r].pre \in Nat /\ Wallet0 \in Int /\ Covered(r)
        /\ wallet \in Int /\ wallet <= Wallet0
    BY WalletLow, ConstantsAssumption DEF WalletInv, IInv, TypeOK, Param
  <1>1. CASE OpenSession(r)
    <2>1. consumed' = consumed /\ par' = par /\ tokenQuota' = tokenQuota
      BY <1>1 DEF OpenSession, sessionVars
    <2>2. ASSUME pc'[r] = "checkToken"
          PROVE  Effective(r)' = 0 \/ Effective(r)' <= Wallet0
      <3>1. userQuota'[r] = wallet /\ (ShouldTrust(r, wallet) \/ wallet - par[r].pre >= 0)
        BY <1>1, <1>t, <2>2 DEF OpenSession, Goto, TypeOK
      <3>2. ShouldTrust(r, userQuota[r])' <=> ShouldTrust(r, wallet)
        BY <3>1, <2>1 DEF ShouldTrust
      <3>3. Effective(r)' = IF ShouldTrust(r, wallet) THEN 0 ELSE par[r].pre
        BY <3>2, <2>1 DEF Effective
      <3> QED
        BY <3>1, <3>3, <1>t
    <2>3. pc'[r] \in {"checkToken", "rejected"}
      BY <1>1, <1>t DEF OpenSession, Goto, TypeOK
    <2> QED
      BY <2>1, <2>2, <2>3, <1>t DEF Covered
  <1>2. CASE TakeWallet(r)
    <2>1. consumed'[r] = Effective(r) \/ consumed'[r] = consumed[r]
      BY <1>2, <1>t DEF TakeWallet, TypeOK
    <2>2. Effective(r) = 0 \/ Effective(r) <= Wallet0
      BY <1>2, <1>t DEF TakeWallet, Covered
    <2>3. pc'[r] \in {"relay", "rollback", "rejected"}
      BY <1>2, <1>t DEF TakeWallet, Goto, TypeOK
    <2> QED
      BY <2>1, <2>2, <2>3, <1>t DEF Covered
  <1>3. CASE CheckToken(r) \/ TakeToken(r)
    <2>1. consumed' = consumed /\ UNCHANGED <<par, tokenQuota, userQuota>>
      BY <1>3 DEF CheckToken, TakeToken, inputVars
    <2>2. Effective(r)' = Effective(r) /\ pc[r] \in {"checkToken", "takeToken"}
      BY <1>3, <2>1 DEF Effective, ShouldTrust, CheckToken, TakeToken
    <2> QED
      BY <2>1, <2>2, <1>t DEF Covered
  <1>4. CASE ~OpenSession(r) /\ ~TakeWallet(r) /\ ~CheckToken(r) /\ ~TakeToken(r)
    <2>1. consumed' = consumed
      BY <1>4 DEF Step, RefundJob, Accept, RollbackToken,
        AttemptSucceeds, AttemptRetried, AttemptFails, HandlerPanics, SettleNothing, SettleWallet,
        SettleToken, Answer, Refund, RefundWallet, RefundToken, sessionVars
    <2>2. \/ pc'[r] \notin {"checkToken", "takeToken", "takeWallet"}
          \/ pc' = pc /\ UNCHANGED <<par, tokenQuota, userQuota>>
      BY <1>4, <1>t DEF Step, RefundJob, Accept, RollbackToken,
        AttemptSucceeds, AttemptRetried, AttemptFails, HandlerPanics, SettleNothing, SettleWallet,
        SettleToken, Answer, Refund, RefundWallet, RefundToken, inputVars, Goto, TypeOK
    <2>3. UNCHANGED <<par, tokenQuota, userQuota>> => Effective(r)' = Effective(r)
      BY DEF Effective, ShouldTrust
    <2> QED
      BY <2>1, <2>2, <2>3, <1>t DEF Covered
  <1> QED
    BY <1>1, <1>2, <1>3, <1>4

LEMMA WalletNext == WalletInv /\ [Next]_vars => WalletInv'
  <1> SUFFICES ASSUME WalletInv, [Next]_vars PROVE WalletInv'
    OBVIOUS
  <1>1. IInv' /\ Books'
    BY NextInv, BooksKept DEF WalletInv
  <1>2. ASSUME NEW q \in Request, Same(q)
        PROVE  Covered(q)'
    <2>1. Effective(q)' = Effective(q)
      BY <1>2 DEF Same, Effective, ShouldTrust
    <2> QED
      BY <1>2, <2>1 DEF Same, WalletInv, Covered
  <1>3. ASSUME NEW q \in Request
        PROVE  Covered(q)'
    <2>1. CASE \E r \in Request : Step(r) \/ RefundJob(r)
      <3>1. PICK r \in Request : Step(r) \/ RefundJob(r)
        BY <2>1
      <3>2. CASE q = r
        BY <3>1, <3>2, CoveredKept
      <3>3. CASE q # r
        BY <3>1, <3>3, <1>2, OthersUntouched DEF WalletInv, IInv
      <3> QED
        BY <3>2, <3>3
    <2>2. CASE Crash
      <3>1. consumed' = consumed /\ pc'[q] \in {pc[q], "crashed"} /\ UNCHANGED <<par, tokenQuota, userQuota>>
        BY <2>2 DEF Crash, sessionVars, inputVars
      <3>2. Effective(q)' = Effective(q)
        BY <3>1 DEF Effective, ShouldTrust
      <3> QED
        BY <3>1, <3>2 DEF WalletInv, Covered
    <2>3. CASE UNCHANGED vars
      <3>1. Same(q)
        BY <2>3 DEF Same, vars, sessionVars, moneyVars, inputVars
      <3> QED
        BY <3>1, <1>2
    <2> QED
      BY <2>1, <2>2, <2>3 DEF Next, Done
  <1> QED
    BY <1>1, <1>3 DEF WalletInv

LEMMA WalletInit == Init => WalletInv
  <1> SUFFICES ASSUME Init PROVE WalletInv
    OBVIOUS
  <1>1. IInv
    BY InitInv
  <1>2. walletNet \in [Request -> Int] /\ \A r \in Request : walletNet[r] = 0
    BY DEF Init
  <1>3. SumFunction(walletNet) = 0
    BY <1>2, RequestAssumption, Sums
  <1>4. Books
    BY <1>3, ConstantsAssumption DEF Init, Books
  <1>5. \A r \in Request : Covered(r)
    BY DEF Init, Covered
  <1> QED
    BY <1>1, <1>4, <1>5 DEF WalletInv

(* The largest of some numbers, and the smaller of two.                    *)
LEMMA Largest ==
    ASSUME NEW f \in [Request -> Nat]
    PROVE  \E q \in Request : Max(Range(f)) = f[q] /\ \A r \in Request : f[r] <= f[q]
  <1> DEFINE S == Range(f)  all == SumFunction(f)
  <1>0. f \in [Request -> Int] /\ \A x \in Request : f[x] \in Nat
    OBVIOUS
  <1>1. S \in SUBSET Nat /\ S # {}
    BY RequestAssumption DEF Range
  <1>2. all \in Nat /\ \A y \in S : all >= y
    <2>1. all \in Nat
      BY <1>0, RequestAssumption, Sums
    <2>2. ASSUME NEW r \in Request
          PROVE  f[r] <= all
      <3> DEFINE g == [f EXCEPT ![r] = 0]  n == f[r]  h == [g EXCEPT ![r] = @ + n]
      <3>1. g \in [Request -> Int] /\ g[r] = 0 /\ \A x \in Request : x # r => g[x] = f[x]
        OBVIOUS
      <3>2. f[r] \in Nat /\ \A x \in Request : g[x] >= 0
        BY <3>1, <1>0
      <3> HIDE DEF g
      <3>3. SumFunction(g) \in Int /\ SumFunction(g) >= 0
        BY <3>1, <3>2, RequestAssumption, Sums
      <3>4. SumFunction(h) = SumFunction(g) + n
        <4>1. n \in Int
          BY <3>2
        <4> HIDE DEF n
        <4> QED
          BY <3>1, <4>1, RequestAssumption, Sums
      <3>5. h = f
        <4>1. h \in [Request -> Int] /\ h[r] = 0 + f[r] /\ \A x \in Request : x # r => h[x] = f[x]
          BY <3>1, <3>2
        <4>2. h[r] = f[r]
          BY <4>1, <3>2
        <4>3. \A x \in Request : h[x] = f[x]
          BY <4>1, <4>2
        <4> HIDE DEF h
        <4> QED
          BY <4>1, <4>3
      <3> HIDE DEF h
      <3>6. all = SumFunction(g) + f[r]
        BY <3>4, <3>5
      <3> HIDE DEF all
      <3> QED
        BY <3>2, <3>3, <3>6
    <2>3. \A y \in S : \E r \in Request : y = f[r]
      BY DEF Range
    <2> HIDE DEF all
    <2> QED
      BY <2>1, <2>2, <2>3, <1>0
  <1>a. \E x \in S : \A y \in S : x >= y
    <2> DEFINE Up == {n \in Nat : \A y \in S : n >= y}
    <2> HIDE DEF S, all
    <2>1. Up # {} /\ Up \in SUBSET Nat
      BY <1>2
    <2>2. PICK n \in Up : \A m \in Up : n <= m
      <3> HIDE DEF Up
      <3> QED
        BY <2>1, Least
    <2>3. n \in Nat /\ \A y \in S : n >= y /\ y \in Nat
      BY <2>2, <1>1
    <2>4. CASE n \in S
      BY <2>3, <2>4
    <2>5. CASE n \notin S
      <3>1. \A y \in S : n # y
        BY <2>5
      <3>2. n # 0
        <4>1. PICK y \in S : TRUE
          BY <1>1
        <4> QED
          BY <4>1, <3>1, <2>3
      <3>3. \A y \in S : n - 1 >= y
        BY <2>3, <3>1
      <3>4. n - 1 \in Nat /\ ~(n <= n - 1)
        BY <3>2, <2>3
      <3>5. n - 1 \in Up
        BY <3>3, <3>4
      <3> QED
        BY <3>4, <3>5, <2>2
    <2> QED
      BY <2>4, <2>5
  <1>3. Max(S) \in S /\ \A y \in S : Max(S) >= y
    BY <1>a DEF Max
  <1>4. PICK q \in Request : Max(S) = f[q]
    BY <1>3 DEF Range
  <1>5. ASSUME NEW r \in Request
        PROVE  f[r] <= f[q]
    <2>1. f[r] \in S
      BY DEF Range
    <2> QED
      BY <2>1, <1>3, <1>4
  <1> QED
    BY <1>4, <1>5

LEMMA Smaller ==
    ASSUME NEW a \in Int, NEW b \in Int
    PROVE  Min({a, b}) = IF a <= b THEN a ELSE b
  <1>1. \E x \in {a, b} : \A y \in {a, b} : x =< y
    OBVIOUS
  <1>2. Min({a, b}) \in {a, b} /\ \A y \in {a, b} : Min({a, b}) =< y
    BY <1>1 DEF Min
  <1> QED
    BY <1>2

(* However many requests pass the check of one balance before any of them  *)
(* has taken its estimate, the pre-charges overdraw the wallet by less     *)
(* than all of them but one.                                               *)
THEOREM Overdraft == Spec => []OverdraftBounded
  <1>1. ASSUME WalletInv
        PROVE  OverdraftBounded
    <2> DEFINE sur == [r \in Request |-> Surcharge(r)]
               taken == SumFunction(consumed)  extra == SumFunction(sur)  net == SumFunction(walletNet)
    <2>1. /\ consumed \in [Request -> Nat] /\ consumed \in [Request -> Int]
          /\ walletNet \in [Request -> Int] /\ Wallet0 \in Int
      BY <1>1, ConstantsAssumption DEF WalletInv, IInv, TypeOK
    <2>2. sur \in [Request -> Int] /\ \A r \in Request : walletNet[r] <= consumed[r] + sur[r]
      BY <2>1 DEF Surcharge
    <2> HIDE DEF sur
    <2>3. taken \in Int /\ extra \in Int /\ net \in Int /\ net <= taken + extra
      BY <2>1, <2>2, RequestAssumption, Sums
    <2>4. wallet = Wallet0 - net
      BY <1>1 DEF WalletInv, Books
    <2>5. PICK q \in Request : Max(Range(consumed)) = consumed[q]
                               /\ \A r \in Request : consumed[r] <= consumed[q]
      BY <2>1, Largest
    <2> HIDE DEF taken, extra, net
    <2>6. consumed[q] \in Nat /\ (consumed[q] = 0 \/ consumed[q] <= Wallet0)
      BY <1>1, <2>1 DEF WalletInv, Covered
    <2>7. consumed[q] = 0 => taken = 0
      <3>1. ASSUME consumed[q] = 0, NEW r \in Request
            PROVE  consumed[r] = 0
        <4>1. consumed[r] <= consumed[q] /\ consumed[r] \in Nat
          BY <2>1, <2>5
        <4> QED
          BY <4>1, <3>1
      <3> QED
        BY <3>1, <2>1, RequestAssumption, Sums DEF taken
    <2>8. wallet + extra >= Wallet0 \/ wallet + extra >= consumed[q] - taken
      BY <2>1, <2>3, <2>4, <2>6, <2>7
    <2>9. consumed[q] - taken \in Int /\ wallet + extra \in Int
      BY <2>1, <2>3, <2>4, <2>6
    <2>10. wallet + extra >= Min({Wallet0, consumed[q] - taken})
      BY <2>1, <2>8, <2>9, Smaller
    <2> QED
      BY <2>5, <2>10 DEF OverdraftBounded, taken, extra, sur
  <1> QED
    BY <1>1, WalletInit, WalletNext, PTL DEF Spec
=============================================================================
