------------------------------- MODULE TopUp -------------------------------
(***************************************************************************)
(* Top-up orders and the mutex per order.  A buyer inserts a pending order *)
(* and asks the payment gateway for a page; the gateway's notifications    *)
(* (redelivered at will), the buyer's status queries (Alipay only) and     *)
(* administrators complete it: one database transaction that turns the     *)
(* order to success and credits the user.                                  *)
(*                                                                         *)
(* EpayNotify and AdminCompleteTopUp run under LockOrder / UnlockOrder, a  *)
(* map of reference-counted mutexes in the memory of each node; the Alipay *)
(* handlers do not.  The transaction's "gorm:query_option" FOR UPDATE is   *)
(* ignored by the gorm version of go.mod, so its read takes no row lock:   *)
(* the read is one step and the two updates, with the commit, another (the *)
(* first update locks the row until the commit).                           *)
(***************************************************************************)
EXTENDS Integers, FiniteSets

CONSTANTS
    Order,
    Epay,       \* the orders paid through epay, the others through Alipay
    Node,       \* server processes, each with its own orderLocks
    Buyer,      \* calls of RequestEpayTopUp and RequestAlipayTopUp
    Notice,     \* calls of EpayNotify and AlipayNotify
    Query,      \* calls of AlipayTopUpStatus
    Admin,      \* calls of AdminCompleteTopUp
    OrderOf,    \* the order each call is about
    NodeOf,     \* the node that serves it
    Flaky,      \* the calls whose statements and queries may fail
    MayCrash    \* TRUE: nodes may crash and restart

Completer == Notice \cup Query \cup Admin
Proc == Buyer \cup Completer
None == "none"

ASSUME TopUpAssumption ==
    /\ IsFiniteSet(Proc) /\ None \notin Proc
    /\ Buyer \cap Completer = {} /\ Admin \cap (Notice \cup Query) = {}
    /\ Notice \cap Query = {}
    /\ Epay \subseteq Order
    /\ OrderOf \in [Proc -> Order] /\ NodeOf \in [Proc -> Node]
    /\ \A b, c \in Buyer : OrderOf[b] = OrderOf[c] => b = c  \* unique trade_no
    /\ \A q \in Query : OrderOf[q] \notin Epay
    /\ Flaky \subseteq Proc /\ MayCrash \in BOOLEAN

VARIABLES
    status,     \* the orders' rows; "absent": not inserted yet
    credits,    \* how often each order was credited to the user's quota
    shown,      \* orders whose payment page the buyer has
    paid,       \* orders the buyer paid
    entry,      \* orderLocks of each node: the mutex of an order or None
    owner,      \* rcm.mu: who holds each mutex
    refCount,   \* rcm.refCount of each mutex
    mine,       \* the mutex each call has a pointer to
    at          \* what each call does next

(* A mutex is named after the call that created it.                        *)
lockVars == <<entry, owner, refCount, mine>>
orderVars == <<status, credits>>
payVars == <<shown, paid>>
vars == <<orderVars, payVars, lockVars, at>>

Places == {"new", "gateway", "saveQr", "saveFailed", "refer", "acquire", "get",
           "ask", "read", "commit", "load", "release", "unref", "done", "lost"}

(* Every variable has its type; UnlockOrder never takes a reference count  *)
(* below zero, and only an order whose page was shown is paid.             *)
TypeOK ==
    /\ status \in [Order -> {"absent", "pending", "success", "failed"}]
    /\ credits \in [Order -> Nat]
    /\ shown \subseteq Order /\ paid \subseteq shown
    /\ entry \in [Node -> [Order -> Proc \cup {None}]]
    /\ owner \in [Proc -> Proc \cup {None}]
    /\ refCount \in [Proc -> Nat]
    /\ mine \in [Proc -> Proc]
    /\ at \in [Proc -> Places]

Init ==
    /\ status = [o \in Order |-> "absent"]
    /\ credits = [o \in Order |-> 0]
    /\ shown = {} /\ paid = {}
    /\ entry = [n \in Node |-> [o \in Order |-> None]]
    /\ owner = [m \in Proc |-> None]
    /\ refCount = [m \in Proc |-> 0]
    /\ mine = [p \in Proc |-> p]
    /\ at = [p \in Proc |-> "new"]

Goto(p, l) == at' = [at EXCEPT ![p] = l]
SetStatus(o, s) == status' = [status EXCEPT ![o] = s]

(* The handlers that call LockOrder, and the entry of orderLocks they use. *)
Locks(p) == p \in Admin \/ (p \in Notice /\ OrderOf[p] \in Epay)
Entry(p) == entry[NodeOf[p]][OrderOf[p]]
SetEntry(p, m) == entry' = [entry EXCEPT ![NodeOf[p]][OrderOf[p]] = m]

(* The handler's end: the deferred UnlockOrder where there is one.         *)
Finish(p) == Goto(p, IF Locks(p) THEN "load" ELSE "done")

-----------------------------------------------------------------------------
(* The buyer's order.                                                      *)

InsertOrder(b) ==
    /\ b \in Buyer /\ at[b] = "new"
    /\ SetStatus(OrderOf[b], "pending")
    /\ Goto(b, "gateway")
    /\ UNCHANGED <<credits, payVars, lockVars>>

(* The gateway returns a payment page; Alipay's is saved with the order.   *)
GatewayAccepts(b) ==
    /\ at[b] = "gateway"
    /\ IF OrderOf[b] \in Epay
         THEN Goto(b, "done") /\ shown' = shown \cup {OrderOf[b]}
         ELSE Goto(b, "saveQr") /\ UNCHANGED shown
    /\ UNCHANGED <<orderVars, paid, lockVars>>

GatewayRefuses(b) ==
    /\ at[b] = "gateway"
    /\ Goto(b, "saveFailed")
    /\ UNCHANGED <<orderVars, payVars, lockVars>>

(* topUp.Update: Save writes every column of the row as it was inserted,   *)
(* its status included.  Its error is ignored.                             *)
SaveOrder(b) ==
    /\ at[b] \in {"saveQr", "saveFailed"}
    /\ \/ SetStatus(OrderOf[b], IF at[b] = "saveQr" THEN "pending" ELSE "failed")
       \/ b \in Flaky /\ UNCHANGED status
    /\ shown' = IF at[b] = "saveQr" THEN shown \cup {OrderOf[b]} ELSE shown
    /\ Goto(b, "done")
    /\ UNCHANGED <<credits, paid, lockVars>>

UserPays(o) ==
    /\ o \in shown \ paid
    /\ paid' = paid \cup {o}
    /\ UNCHANGED <<orderVars, shown, lockVars, at>>

-----------------------------------------------------------------------------
(* Calls that complete an order.                                           *)

(* EpayNotify, AlipayNotify: a signed message that the order is paid.      *)
Notify(p) ==
    /\ p \in Notice /\ at[p] = "new" /\ OrderOf[p] \in paid
    /\ Goto(p, IF Locks(p) THEN "refer" ELSE "get")
    /\ UNCHANGED <<orderVars, payVars, lockVars>>

AlipayTopUpStatus(p) ==
    /\ p \in Query /\ at[p] = "new" /\ status[OrderOf[p]] # "absent"
    /\ Goto(p, "get")
    /\ UNCHANGED <<orderVars, payVars, lockVars>>

AdminCompleteTopUp(p) ==
    /\ p \in Admin /\ at[p] = "new"
    /\ Goto(p, "refer")
    /\ UNCHANGED <<orderVars, payVars, lockVars>>

(* An order that is found but never completed.                             *)
GetTopUp_AnsweredOnly(p) ==
    /\ at[p] = "get"
    /\ Finish(p)
    /\ UNCHANGED <<orderVars, payVars, lockVars>>

(* GetTopUpByTradeNo and the handler's own look at the status.             *)
GetTopUp(p) ==
    /\ at[p] = "get"
    /\ \/ /\ status[OrderOf[p]] = "pending"
          /\ Goto(p, IF p \in Query THEN "ask" ELSE "read")
       \/ (status[OrderOf[p]] # "pending" \/ p \in Flaky) /\ Finish(p)
    /\ UNCHANGED <<orderVars, payVars, lockVars>>

(* syncAlipayTopUpIfPaid: alipay.trade.query.                              *)
AskGateway(p) ==
    /\ at[p] = "ask"
    /\ \/ OrderOf[p] \in paid /\ Goto(p, "read")
       \/ (OrderOf[p] \notin paid \/ p \in Flaky) /\ Finish(p)
    /\ UNCHANGED <<orderVars, payVars, lockVars>>

(* A completion that skips the check inside the transaction.               *)
ReadOrder_Unchecked(p) ==
    /\ at[p] = "read"
    /\ Goto(p, "commit")
    /\ UNCHANGED <<orderVars, payVars, lockVars>>

(* CompleteTopUp and ManualCompleteTopUp: the read in the transaction, and *)
(* then the order's new status with the user's quota, or neither.          *)
ReadOrder(p) ==
    /\ at[p] = "read"
    /\ \/ status[OrderOf[p]] = "pending" /\ Goto(p, "commit")
       \/ (status[OrderOf[p]] # "pending" \/ p \in Flaky) /\ Finish(p)
    /\ UNCHANGED <<orderVars, payVars, lockVars>>

CommitTopUp(p) ==
    /\ at[p] = "commit"
    /\ \/ /\ SetStatus(OrderOf[p], "success")
          /\ credits' = [credits EXCEPT ![OrderOf[p]] = @ + 1]
       \/ p \in Flaky /\ UNCHANGED orderVars
    /\ Finish(p)
    /\ UNCHANGED <<payVars, lockVars>>

-----------------------------------------------------------------------------
(* LockOrder and UnlockOrder.  What happens under createLock is one step.  *)

(* A new mutex starts without a reference.                                 *)
ReferMutex_Uncounted(p) ==
    /\ at[p] = "refer"
    /\ LET m == IF Entry(p) = None THEN p ELSE Entry(p) IN
         /\ SetEntry(p, m)
         /\ mine' = [mine EXCEPT ![p] = m]
         /\ refCount' = IF m = p THEN refCount ELSE [refCount EXCEPT ![m] = @ + 1]
    /\ Goto(p, "acquire")
    /\ UNCHANGED <<orderVars, payVars, owner>>

(* LockOrder stores a mutex of its own without looking for one.            *)
ReferMutex_Stores(p) ==
    /\ at[p] = "refer"
    /\ SetEntry(p, p)
    /\ mine' = [mine EXCEPT ![p] = p]
    /\ refCount' = [refCount EXCEPT ![p] = @ + 1]
    /\ Goto(p, "acquire")
    /\ UNCHANGED <<orderVars, payVars, owner>>

ReferMutex(p) ==
    /\ at[p] = "refer"
    /\ LET m == IF Entry(p) = None THEN p ELSE Entry(p) IN
         /\ SetEntry(p, m)
         /\ mine' = [mine EXCEPT ![p] = m]
         /\ refCount' = [refCount EXCEPT ![m] = @ + 1]
    /\ Goto(p, "acquire")
    /\ UNCHANGED <<orderVars, payVars, owner>>

AcquireMutex(p) ==
    /\ at[p] = "acquire"
    /\ owner[mine[p]] = None
    /\ owner' = [owner EXCEPT ![mine[p]] = p]
    /\ Goto(p, IF p \in Admin THEN "read" ELSE "get")
    /\ UNCHANGED <<orderVars, payVars, entry, refCount, mine>>

(* UnlockOrder looks the mutex up again, outside createLock, and returns   *)
(* without unlocking when there is none.                                   *)
LoadMutex(p) ==
    /\ at[p] = "load"
    /\ IF Entry(p) = None
         THEN Goto(p, "done") /\ UNCHANGED mine
         ELSE Goto(p, "release") /\ mine' = [mine EXCEPT ![p] = Entry(p)]
    /\ UNCHANGED <<orderVars, payVars, entry, owner, refCount>>

(* The reference is dropped but the mutex stays locked.                    *)
ReleaseMutex_Forgets(p) ==
    /\ at[p] = "release"
    /\ Goto(p, "unref")
    /\ UNCHANGED <<orderVars, payVars, lockVars>>

ReleaseMutex(p) ==
    /\ at[p] = "release"
    /\ owner' = [owner EXCEPT ![mine[p]] = None]
    /\ Goto(p, "unref")
    /\ UNCHANGED <<orderVars, payVars, entry, refCount, mine>>

(* The entry is never deleted.                                             *)
UnrefMutex_Keeps(p) ==
    /\ at[p] = "unref"
    /\ refCount' = [refCount EXCEPT ![mine[p]] = @ - 1]
    /\ Goto(p, "done")
    /\ UNCHANGED <<orderVars, payVars, entry, owner, mine>>

UnrefMutex(p) ==
    /\ at[p] = "unref"
    /\ refCount' = [refCount EXCEPT ![mine[p]] = @ - 1]
    /\ IF refCount[mine[p]] = 1 THEN SetEntry(p, None) ELSE UNCHANGED entry
    /\ Goto(p, "done")
    /\ UNCHANGED <<orderVars, payVars, owner, mine>>

UnderWay(p) == at[p] \notin {"new", "done", "lost"}

(* A node loses its calls and its orderLocks; open transactions roll back. *)
Crash(n) ==
    /\ MayCrash
    /\ \E p \in Proc : UnderWay(p) /\ NodeOf[p] = n
    /\ at' = [p \in Proc |-> IF UnderWay(p) /\ NodeOf[p] = n THEN "lost" ELSE at[p]]
    /\ entry' = [entry EXCEPT ![n] = [o \in Order |-> None]]
    /\ owner' = [m \in Proc |-> IF NodeOf[m] = n THEN None ELSE owner[m]]
    /\ refCount' = [m \in Proc |-> IF NodeOf[m] = n THEN 0 ELSE refCount[m]]
    /\ UNCHANGED <<orderVars, payVars, mine>>

-----------------------------------------------------------------------------
Handle(p) ==
    \/ InsertOrder(p) \/ GatewayAccepts(p) \/ GatewayRefuses(p) \/ SaveOrder(p)
    \/ Notify(p) \/ AlipayTopUpStatus(p) \/ AdminCompleteTopUp(p)
    \/ GetTopUp(p) \/ AskGateway(p) \/ ReadOrder(p) \/ CommitTopUp(p)
    \/ ReferMutex(p) \/ AcquireMutex(p)
    \/ LoadMutex(p) \/ ReleaseMutex(p) \/ UnrefMutex(p)

Next ==
    \/ \E p \in Proc : Handle(p)
    \/ \E o \in Order : UserPays(o)
    \/ \E n \in Node : Crash(n)

Spec == Init /\ [][Next]_vars

(* Handlers that started run to their end, the gateways deliver their      *)
(* notifications, and Go's mutexes do not starve a waiter.                 *)
FairSpec ==
    /\ Spec
    /\ \A p \in Proc : WF_vars(at[p] # "new" /\ Handle(p))
    /\ \A p \in {q \in Proc : Locks(q)} : SF_vars(AcquireMutex(p))
    /\ \A p \in Notice : WF_vars(Notify(p))

-----------------------------------------------------------------------------
(* Calls between LockOrder and UnlockOrder.                                *)
Critical(p) == Locks(p) /\ at[p] \in {"get", "read", "commit", "load", "release"}
Uses(p) == Locks(p) /\ (Critical(p) \/ at[p] \in {"acquire", "unref"})

(* orderLocks: two calls for one order are never between LockOrder and     *)
(* UnlockOrder on the same node, although entries come and go.             *)
MutualExclusion ==
    \A p, q \in Proc :
        (/\ Critical(p) /\ Critical(q)
         /\ NodeOf[p] = NodeOf[q] /\ OrderOf[p] = OrderOf[q]) => p = q

(* refCountedMutex: the map holds a mutex only while a call refers to it,  *)
(* and every call that refers to one finds it in the map.                  *)
EntryInUse ==
    \A n \in Node, o \in Order :
        entry[n][o] # None <=>
            \E p \in Proc : Uses(p) /\ NodeOf[p] = n /\ OrderOf[p] = o

(* CompleteTopUp, ManualCompleteTopUp: however often notifications are     *)
(* delivered and whoever completes it by hand, an order is credited once.  *)
CreditedOnce == \A o \in Order : credits[o] <= 1

(* EpayNotify: an order that was paid, whose notification arrives, is in   *)
(* the end credited, by whoever comes first, unless the call's statements  *)
(* fail or its node dies.                                                  *)
PaidCredited ==
    \A p \in Notice \ Flaky :
        OrderOf[p] \in paid ~> credits[OrderOf[p]] > 0 \/ at[p] = "lost"

(* The calls of LockOrder as the abstract mutex sees them: a call waits    *)
(* until it holds its mutex and is inside until it has unlocked it.        *)
Locker == {p \in Proc : Locks(p)}

phaseOf ==
    [p \in Locker |->
        CASE at[p] = "new" -> "idle"
          [] at[p] \in {"refer", "acquire"} -> "waiting"
          [] Critical(p) -> "inside"
          [] OTHER -> "left"]

Mutex == INSTANCE OrderMutex WITH Caller <- Locker, phase <- phaseOf

(* LockOrder and UnlockOrder, with their map of counted mutexes, implement *)
(* a plain mutex per order: every step is a step of it, every call that    *)
(* holds the lock gives it back, and no waiting call is passed over for    *)
(* ever.                                                                   *)
ImplementsMutex == Mutex!FairSpec
=============================================================================
