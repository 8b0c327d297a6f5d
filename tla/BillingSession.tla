--------------------------- MODULE BillingSession ---------------------------
(***************************************************************************)
(* The money side of one relay request: service.BillingSession (pre-       *)
(* consume, settle, refund), the WalletFunding it drives, and the part of  *)
(* controller.Relay that calls them (validation, retry loop, deferred      *)
(* refund, panics).  All requests of the model belong to one user and use  *)
(* one API token, so they share the wallet and the token's remaining       *)
(* quota.  Each read, check and adjustment of a balance is a step of its   *)
(* own: nothing in the code holds a lock across two of them.               *)
(*                                                                         *)
(* A balance is an integer here.  How the balance is kept in a database, a *)
(* Redis hash and a batch store is the subject of module UserQuota.        *)
(***************************************************************************)
EXTENDS Integers

CONSTANTS
    Request,         \* the requests, one BillingSession each at most
    Pre,             \* possible QuotaToPreConsume estimates
    Actual,          \* possible final charges
    Wallet0, Token0, \* balances before the first request
    TokenUnlimited,  \* the token's UnlimitedQuota flag
    TrustQuota,      \* common.GetTrustQuota()
    RetryTimes,      \* common.RetryTimes
    MayFail,         \* TRUE: a balance update may return an error
    MayCrash         \* TRUE: the process may die

ASSUME ConstantsAssumption ==
    /\ Pre \subseteq Nat
    /\ Actual \subseteq Nat
    /\ Wallet0 \in Int
    /\ Token0 \in Int
    /\ TokenUnlimited \in BOOLEAN
    /\ TrustQuota \in Int
    /\ RetryTimes \in Nat
    /\ MayFail \in BOOLEAN
    /\ MayCrash \in BOOLEAN

(* What a request brings along: the estimate, the playground and           *)
(* ForcePreConsume flags (the latter set for asynchronous tasks), and      *)
(* priceData.FreeModel: Relay opens no session for a free model.           *)
Param == [pre: Pre, isPlayground: BOOLEAN, forcePreConsume: BOOLEAN, free: BOOLEAN]

VARIABLES
    wallet,           \* the user's quota
    token,            \* the token's remaining quota
    pc,               \* where the goroutine of the request stands
    par,              \* its Param
    tokenQuota,       \* token_quota in the gin context, set by TokenAuth
    userQuota,        \* relayInfo.UserQuota, read by NewBillingSession
    retry,            \* retryParam.Retry
    actual,           \* the charge being settled
    preConsumedQuota, tokenConsumed, consumed,   \* session and funding fields
    fundingSettled, settled, refunded,
    job,              \* the goroutine Refund starts
    walletNet,        \* history: net amount the request took from the wallet
    tokenNet,         \* history: net amount the request took from the token
    faulty            \* history: an update made for the request failed

sessionVars == <<preConsumedQuota, tokenConsumed, consumed, fundingSettled, settled, refunded>>
moneyVars == <<wallet, token, walletNet, tokenNet>>
inputVars == <<par, tokenQuota, userQuota>>
vars == <<moneyVars, pc, inputVars, retry, actual, sessionVars, job, faulty>>

-----------------------------------------------------------------------------

Init ==
    /\ wallet = Wallet0
    /\ token = Token0
    /\ pc = [r \in Request |-> "new"]
    /\ par \in [Request -> Param]
    /\ tokenQuota = [r \in Request |-> 0]
    /\ userQuota = [r \in Request |-> 0]
    /\ retry = [r \in Request |-> 0]
    /\ actual = [r \in Request |-> 0]
    /\ preConsumedQuota = [r \in Request |-> 0]
    /\ tokenConsumed = [r \in Request |-> 0]
    /\ consumed = [r \in Request |-> 0]
    /\ fundingSettled = [r \in Request |-> FALSE]
    /\ settled = [r \in Request |-> FALSE]
    /\ refunded = [r \in Request |-> FALSE]
    /\ job = [r \in Request |-> "none"]
    /\ walletNet = [r \in Request |-> 0]
    /\ tokenNet = [r \in Request |-> 0]
    /\ faulty = [r \in Request |-> FALSE]

Goto(r, l) == pc' = [pc EXCEPT ![r] = l]

(* model.DecreaseUserQuota / IncreaseUserQuota; a negative n is a credit.  *)
ChargeWallet(r, n) ==
    /\ wallet' = wallet - n
    /\ walletNet' = [walletNet EXCEPT ![r] = @ + n]

(* model.DecreaseTokenQuota / IncreaseTokenQuota.                          *)
ChargeToken(r, n) ==
    /\ token' = token - n
    /\ tokenNet' = [tokenNet EXCEPT ![r] = @ + n]

(* An update of a balance that returns an error and changes nothing.       *)
UpdateFails(r) ==
    /\ MayFail
    /\ faulty' = [faulty EXCEPT ![r] = TRUE]

ShouldTrust(r, quota) ==
    /\ ~par[r].forcePreConsume
    /\ TrustQuota > 0
    /\ TokenUnlimited \/ tokenQuota[r] > TrustQuota
    /\ quota > TrustQuota

(* What preConsume really takes: nothing from a trusted user.              *)
Effective(r) == IF ShouldTrust(r, userQuota[r]) THEN 0 ELSE par[r].pre

-----------------------------------------------------------------------------
(* Opening the session.                                                    *)

(* TokenAuth stored the token's quota in the context; Relay priced the     *)
(* request.  A free model goes straight to the retry loop.                 *)
Accept(r) ==
    /\ pc[r] = "new"
    /\ tokenQuota' = [tokenQuota EXCEPT ![r] = token]
    /\ Goto(r, IF par[r].free THEN "relay" ELSE "open")
    /\ UNCHANGED <<moneyVars, par, userQuota, retry, actual, sessionVars, job, faulty>>

(* Variant: the estimate is not compared with the balance.                 *)
OpenSession_Unchecked(r) ==
    /\ pc[r] = "open"
    /\ userQuota' = [userQuota EXCEPT ![r] = wallet]
    /\ Goto(r, IF wallet > 0 THEN "checkToken" ELSE "rejected")
    /\ UNCHANGED <<moneyVars, par, tokenQuota, retry, actual, sessionVars, job, faulty>>

(* NewBillingSession: read the user's quota and check it.                  *)
OpenSession(r) ==
    /\ pc[r] = "open"
    /\ \/ /\ userQuota' = [userQuota EXCEPT ![r] = wallet]
          /\ Goto(r, IF wallet > 0 /\ (ShouldTrust(r, wallet) \/ wallet - par[r].pre >= 0)
                     THEN "checkToken" ELSE "rejected")
       \/ MayFail /\ Goto(r, "rejected") /\ UNCHANGED userQuota
    /\ UNCHANGED <<moneyVars, par, tokenQuota, retry, actual, sessionVars, job, faulty>>

(* PreConsumeTokenQuota up to the check of the token's remaining quota.    *)
(* In the playground nothing is taken, yet tokenConsumed is set.           *)
CheckToken(r) ==
    /\ pc[r] = "checkToken"
    /\ \/ /\ Effective(r) = 0
          /\ Goto(r, "takeWallet")
          /\ UNCHANGED tokenConsumed
       \/ /\ Effective(r) > 0
          /\ par[r].isPlayground
          /\ tokenConsumed' = [tokenConsumed EXCEPT ![r] = Effective(r)]
          /\ Goto(r, "takeWallet")
       \/ /\ Effective(r) > 0
          /\ ~par[r].isPlayground
          /\ \/ Goto(r, IF TokenUnlimited \/ token >= Effective(r) THEN "takeToken" ELSE "rejected")
             \/ MayFail /\ Goto(r, "rejected")
          /\ UNCHANGED tokenConsumed
    /\ UNCHANGED <<moneyVars, inputVars, retry, actual, preConsumedQuota,
                   consumed, fundingSettled, settled, refunded, job, faulty>>

(* ... and its DecreaseTokenQuota.                                         *)
TakeToken(r) ==
    /\ pc[r] = "takeToken"
    /\ \/ /\ ChargeToken(r, Effective(r))
          /\ tokenConsumed' = [tokenConsumed EXCEPT ![r] = Effective(r)]
          /\ Goto(r, "takeWallet")
          /\ UNCHANGED faulty
       \/ /\ UpdateFails(r)
          /\ Goto(r, "rejected")
          /\ UNCHANGED <<token, tokenNet, tokenConsumed>>
    /\ UNCHANGED <<wallet, walletNet, inputVars, retry, actual, preConsumedQuota,
                   consumed, fundingSettled, settled, refunded, job>>

(* funding.PreConsume.  When it fails outside the playground the token's   *)
(* part is rolled back next.                                               *)
TakeWallet(r) ==
    /\ pc[r] = "takeWallet"
    /\ \/ /\ ChargeWallet(r, Effective(r))
          /\ consumed' = [consumed EXCEPT ![r] = Effective(r)]
          /\ preConsumedQuota' = [preConsumedQuota EXCEPT ![r] = Effective(r)]
          /\ Goto(r, "relay")
          /\ UNCHANGED faulty
       \/ /\ Effective(r) > 0
          /\ UpdateFails(r)
          /\ Goto(r, IF tokenConsumed[r] > 0 /\ ~par[r].isPlayground THEN "rollback" ELSE "rejected")
          /\ UNCHANGED <<wallet, walletNet, consumed, preConsumedQuota>>
    /\ UNCHANGED <<token, tokenNet, inputVars, retry, actual, tokenConsumed,
                   fundingSettled, settled, refunded, job>>

RollbackToken(r) ==
    /\ pc[r] = "rollback"
    /\ \/ ChargeToken(r, -tokenConsumed[r]) /\ UNCHANGED faulty
       \/ UpdateFails(r) /\ UNCHANGED <<token, tokenNet>>
    /\ tokenConsumed' = [tokenConsumed EXCEPT ![r] = 0]
    /\ Goto(r, "rejected")
    /\ UNCHANGED <<wallet, walletNet, inputVars, retry, actual, preConsumedQuota,
                   consumed, fundingSettled, settled, refunded, job>>

-----------------------------------------------------------------------------
(* The retry loop of Relay.                                                *)

AttemptSucceeds(r) ==
    /\ pc[r] = "relay"
    /\ \E a \in Actual : actual' = [actual EXCEPT ![r] = a]
    /\ Goto(r, "settle")
    /\ UNCHANGED <<moneyVars, inputVars, retry, sessionVars, job, faulty>>

(* Variant: the loop forgets to compare with RetryTimes.                   *)
AttemptRetried_Unbounded(r) ==
    /\ pc[r] = "relay"
    /\ retry' = [retry EXCEPT ![r] = @ + 1]
    /\ UNCHANGED <<moneyVars, pc, inputVars, actual, sessionVars, job, faulty>>

AttemptRetried(r) ==
    /\ pc[r] = "relay"
    /\ retry[r] < RetryTimes
    /\ retry' = [retry EXCEPT ![r] = @ + 1]
    /\ UNCHANGED <<moneyVars, pc, inputVars, actual, sessionVars, job, faulty>>

(* No channel, no body, an error that is not retried, or retries used up:  *)
(* newAPIError is set and the deferred function calls Refund.              *)
AttemptFails(r) ==
    /\ pc[r] = "relay"
    /\ Goto(r, "refund")
    /\ UNCHANGED <<moneyVars, inputVars, retry, actual, sessionVars, job, faulty>>

(* The handler panics: while it talks to the upstream, between the two     *)
(* halves of Settle, or after it.  The deferred function still runs, but   *)
(* newAPIError holds an error only if an earlier attempt had left one.     *)
HandlerPanics(r) ==
    /\ pc[r] \in {"relay", "settleToken", "logging"}
    /\ Goto(r, IF retry[r] > 0 THEN "refund" ELSE "panicked")
    /\ UNCHANGED <<moneyVars, inputVars, retry, actual, sessionVars, job, faulty>>

-----------------------------------------------------------------------------
(* Settling: SettleBilling and BillingSession.Settle.                      *)

(* Variant: the pre-charge is not deducted from the final charge.          *)
Delta_Full(r) == actual[r]

Delta(r) == actual[r] - preConsumedQuota[r]

SettleNothing(r) ==
    /\ pc[r] = "settle"
    /\ Delta(r) = 0
    /\ settled' = [settled EXCEPT ![r] = ~par[r].free]
    /\ Goto(r, "logging")
    /\ UNCHANGED <<moneyVars, inputVars, retry, actual, preConsumedQuota, tokenConsumed,
                   consumed, fundingSettled, refunded, job, faulty>>

(* funding.Settle, or the first half of PostConsumeQuota when there is no  *)
(* session.  On an error the caller logs it and answers the client.        *)
SettleWallet(r) ==
    /\ pc[r] = "settle"
    /\ Delta(r) # 0
    /\ \/ /\ ChargeWallet(r, Delta(r))
          /\ fundingSettled' = [fundingSettled EXCEPT ![r] = ~par[r].free]
          /\ Goto(r, "settleToken")
          /\ UNCHANGED faulty
       \/ /\ UpdateFails(r)
          /\ Goto(r, "logging")
          /\ UNCHANGED <<wallet, walletNet, fundingSettled>>
    /\ UNCHANGED <<token, tokenNet, inputVars, retry, actual, preConsumedQuota,
                   tokenConsumed, consumed, settled, refunded, job>>

(* Variant: the playground is charged as well.                             *)
SettleToken_Playground(r) ==
    /\ pc[r] = "settleToken"
    /\ \/ ChargeToken(r, Delta(r)) /\ UNCHANGED faulty
       \/ UpdateFails(r) /\ UNCHANGED <<token, tokenNet>>
    /\ settled' = [settled EXCEPT ![r] = ~par[r].free]
    /\ Goto(r, "logging")
    /\ UNCHANGED <<wallet, walletNet, inputVars, retry, actual, preConsumedQuota,
                   tokenConsumed, consumed, fundingSettled, refunded, job>>

(* The token's half; the session counts as settled even when it fails.     *)
SettleToken(r) ==
    /\ pc[r] = "settleToken"
    /\ IF par[r].isPlayground THEN UNCHANGED <<token, tokenNet, faulty>>
       ELSE \/ ChargeToken(r, Delta(r)) /\ UNCHANGED faulty
            \/ UpdateFails(r) /\ UNCHANGED <<token, tokenNet>>
    /\ settled' = [settled EXCEPT ![r] = ~par[r].free]
    /\ Goto(r, "logging")
    /\ UNCHANGED <<wallet, walletNet, inputVars, retry, actual, preConsumedQuota,
                   tokenConsumed, consumed, fundingSettled, refunded, job>>

(* The consume log is written and the client has its answer.               *)
Answer(r) ==
    /\ pc[r] = "logging"
    /\ Goto(r, "answered")
    /\ UNCHANGED <<moneyVars, inputVars, retry, actual, sessionVars, job, faulty>>

-----------------------------------------------------------------------------
(* Refunding: BillingSession.Refund and the goroutine it starts.           *)

(* Variant: a session whose wallet part is settled is refunded all the     *)
(* same.                                                                   *)
NeedsRefund_HalfSettled(r) == ~settled[r] /\ ~refunded[r] /\ tokenConsumed[r] > 0

NeedsRefund(r) == ~settled[r] /\ ~refunded[r] /\ ~fundingSettled[r] /\ tokenConsumed[r] > 0

Refund(r) ==
    /\ pc[r] = "refund"
    /\ refunded' = [refunded EXCEPT ![r] = @ \/ NeedsRefund(r)]
    /\ job' = [job EXCEPT ![r] = IF NeedsRefund(r) THEN "wallet" ELSE @]
    /\ Goto(r, "failed")
    /\ UNCHANGED <<moneyVars, inputVars, retry, actual, preConsumedQuota, tokenConsumed,
                   consumed, fundingSettled, settled, faulty>>

(* Variant: the UPDATE is conditional on a positive balance and repeated   *)
(* until it has touched a row.                                             *)
RefundWallet_WhenPositive(r) ==
    /\ job[r] = "wallet"
    /\ IF wallet > 0
       THEN job' = [job EXCEPT ![r] = "token"] /\ ChargeWallet(r, -consumed[r])
       ELSE UNCHANGED <<job, wallet, walletNet>>
    /\ UNCHANGED <<token, tokenNet, pc, inputVars, retry, actual, sessionVars, faulty>>

(* WalletFunding.Refund.  An error is logged and not retried.              *)
RefundWallet(r) ==
    /\ job[r] = "wallet"
    /\ job' = [job EXCEPT ![r] = "token"]
    /\ \/ ChargeWallet(r, -consumed[r]) /\ UNCHANGED faulty
       \/ consumed[r] > 0 /\ UpdateFails(r) /\ UNCHANGED <<wallet, walletNet>>
    /\ UNCHANGED <<token, tokenNet, pc, inputVars, retry, actual, sessionVars>>

RefundToken(r) ==
    /\ job[r] = "token"
    /\ job' = [job EXCEPT ![r] = "done"]
    /\ IF tokenConsumed[r] > 0 /\ ~par[r].isPlayground
       THEN \/ ChargeToken(r, -tokenConsumed[r]) /\ UNCHANGED faulty
            \/ UpdateFails(r) /\ UNCHANGED <<token, tokenNet>>
       ELSE UNCHANGED <<token, tokenNet, faulty>>
    /\ UNCHANGED <<wallet, walletNet, pc, inputVars, retry, actual, sessionVars>>

-----------------------------------------------------------------------------

Ended == {"rejected", "answered", "failed", "panicked", "crashed"}

(* The process dies: sessions and refund goroutines live in memory only.   *)
Crash ==
    /\ MayCrash
    /\ \E r \in Request : pc[r] \notin Ended \cup {"new"} \/ job[r] \in {"wallet", "token"}
    /\ pc' = [r \in Request |-> IF pc[r] \in Ended \cup {"new"} THEN pc[r] ELSE "crashed"]
    /\ job' = [r \in Request |-> IF job[r] \in {"wallet", "token"} THEN "lost" ELSE job[r]]
    /\ UNCHANGED <<moneyVars, inputVars, retry, actual, sessionVars, faulty>>

(* Every request has ended and every refund goroutine too.                 *)
Done ==
    /\ \A r \in Request : pc[r] \in Ended /\ job[r] \notin {"wallet", "token"}
    /\ UNCHANGED vars

Step(r) ==
    \/ Accept(r) \/ OpenSession(r) \/ CheckToken(r) \/ TakeToken(r) \/ TakeWallet(r)
    \/ RollbackToken(r) \/ AttemptSucceeds(r) \/ AttemptRetried(r) \/ AttemptFails(r)
    \/ HandlerPanics(r) \/ SettleNothing(r) \/ SettleWallet(r) \/ SettleToken(r)
    \/ Answer(r) \/ Refund(r)

RefundJob(r) == RefundWallet(r) \/ RefundToken(r)

Next == (\E r \in Request : Step(r) \/ RefundJob(r)) \/ Crash \/ Done

Spec == Init /\ [][Next]_vars

(* Go schedules every runnable goroutine, the pooled ones included.        *)
FairSpec == Spec /\ \A r \in Request : WF_vars(Step(r)) /\ WF_vars(RefundJob(r))

-----------------------------------------------------------------------------
(* Properties.                                                             *)

Location == Ended \cup {"new", "open", "checkToken", "takeToken", "takeWallet", "rollback",
                        "relay", "settle", "settleToken", "logging", "refund"}

(* Every variable has its type.                                            *)
TypeOK ==
    /\ wallet \in Int /\ token \in Int
    /\ pc \in [Request -> Location]
    /\ par \in [Request -> Param]
    /\ tokenQuota \in [Request -> Int] /\ userQuota \in [Request -> Int]
    /\ retry \in [Request -> 0..RetryTimes]
    /\ actual \in [Request -> Nat]
    /\ preConsumedQuota \in [Request -> Nat]
    /\ tokenConsumed \in [Request -> Nat]
    /\ consumed \in [Request -> Nat]
    /\ fundingSettled \in [Request -> BOOLEAN]
    /\ settled \in [Request -> BOOLEAN]
    /\ refunded \in [Request -> BOOLEAN]
    /\ job \in [Request -> {"none", "wallet", "token", "done", "lost"}]
    /\ walletNet \in [Request -> Int] /\ tokenNet \in [Request -> Int]
    /\ faulty \in [Request -> BOOLEAN]

(* A session is never both settled (even half) and refunded: Settle and    *)
(* Refund exclude each other whatever fails, panics or crashes.            *)
SettledOrRefunded == \A r \in Request : ~(refunded[r] /\ (settled[r] \/ fundingSettled[r]))

(* Whatever fails in between, a request never takes more from the wallet   *)
(* or the token than the larger of its estimate and its final charge, and  *)
(* a refund never gives back more than was taken.                          *)
NeverOvercharged ==
    \A r \in Request :
        /\ 0 <= walletNet[r] /\ (walletNet[r] <= par[r].pre \/ walletNet[r] <= actual[r])
        /\ 0 <= tokenNet[r] /\ (tokenNet[r] <= par[r].pre \/ tokenNet[r] <= actual[r])

(* n is the right charge on the token: nothing in the playground.          *)
TokenCharge(r, n) == tokenNet[r] = IF par[r].isPlayground THEN 0 ELSE n

(* When no update failed, the books are exact once the request has ended:  *)
(* an answered request cost its final charge on both balances, a rejected  *)
(* one cost nothing, a failed one cost nothing once its refund has run,    *)
(* unless a handler that had already settled the wallet panicked.          *)
AccountedExactly ==
    \A r \in Request : ~faulty[r] =>
        /\ pc[r] = "rejected" => walletNet[r] = 0 /\ tokenNet[r] = 0
        /\ pc[r] = "answered" => walletNet[r] = actual[r] /\ TokenCharge(r, actual[r])
        /\ pc[r] = "failed" /\ job[r] \in {"none", "done"} =>
              /\ fundingSettled[r] => walletNet[r] = actual[r]
              /\ settled[r] => walletNet[r] = actual[r] /\ TokenCharge(r, actual[r])
              /\ ~settled[r] /\ ~fundingSettled[r] /\ ~par[r].free =>
                    walletNet[r] = 0 /\ tokenNet[r] = 0

(* A refund that was owed arrives: once Relay gives up on a request whose  *)
(* session still holds a pre-charge, both balances get it back, unless an  *)
(* update for it fails or the process dies (the goroutine is not retried). *)
RefundArrives ==
    \A r \in Request :
        pc[r] = "refund" /\ NeedsRefund(r) ~>
            \/ walletNet[r] = 0 /\ tokenNet[r] = 0
            \/ faulty[r] \/ pc[r] = "crashed" \/ job[r] = "lost"
=============================================================================
