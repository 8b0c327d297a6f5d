------------------------------ MODULE AlipayQR ------------------------------
(***************************************************************************)
(* The Alipay dialog (components/topup/modals/AlipayQRModal): it creates   *)
(* an order when it opens, shows its QR code, asks every 3 seconds whether *)
(* it was paid, expires after 5 minutes, and can create another order in   *)
(* place of the one shown.  Answers may come after the dialog was closed,  *)
(* reopened or refreshed.  Module TopUp models the server's side.          *)
(* qrUrl is set and cleared with tradeNo: the dialog shows the QR code of  *)
(* tradeNo, or how that order ended, whatever step is, and the spinner     *)
(* while there is none.                                                    *)
(***************************************************************************)
EXTENDS Naturals

CONSTANTS
    MaxOrders      \* bound on the orders created in a behaviour

Order == 1..MaxOrders

VARIABLES
    visible,
    step,        \* "loading" | "qrcode"
    status,      \* "pending" | "success" | "failed" | "expired"
    tradeNo,     \* the order whose QR code is shown, 0: none
    timer,       \* the countdown is running
    polling,     \* the interval of the polling effect is running
    refreshing,
    strayed,     \* history: a refresh was answered after the dialog was reset
    opening,     \* the order request of the effect is in flight
    cancelled,   \* how many such requests were cancelled and are in flight
    renewing,    \* how many order requests of handleRefresh are in flight
    polls,       \* orders with a status request in flight
    orders,      \* the orders at the server: "none", "unpaid", "paid", "failed"
    next         \* the next order number

dialog == <<visible, step, status, tradeNo, timer, polling, refreshing, strayed>>
requests == <<opening, cancelled, renewing, polls>>
vars == <<dialog, requests, orders, next>>

TypeOK ==
    /\ {visible, timer, polling, refreshing, strayed, opening} \subseteq BOOLEAN
    /\ step \in {"loading", "qrcode"}
    /\ status \in {"pending", "success", "failed", "expired"}
    /\ tradeNo \in {0} \cup Order
    /\ cancelled \in 0..MaxOrders /\ renewing \in 0..MaxOrders
    /\ polls \subseteq Order
    /\ orders \in [Order -> {"none", "unpaid", "paid", "failed"}]
    /\ next \in 1..(MaxOrders + 1)

Init ==
    /\ visible = FALSE /\ step = "loading" /\ status = "pending" /\ tradeNo = 0
    /\ timer = FALSE /\ polling = FALSE /\ refreshing = FALSE /\ strayed = FALSE
    /\ opening = FALSE /\ cancelled = 0 /\ renewing = 0 /\ polls = {}
    /\ orders = [o \in Order |-> "none"] /\ next = 1

(* resetState.                                                             *)
ResetState ==
    /\ step' = "loading" /\ status' = "pending" /\ tradeNo' = 0
    /\ timer' = FALSE /\ polling' = FALSE /\ refreshing' = FALSE /\ strayed' = FALSE

(* The polling effect runs when step, tradeNo or status has changed: its   *)
(* cleanup stops the old interval, and it starts one, with a first request *)
(* at once, for a pending order on screen.                                 *)
PollEffect ==
    LET on == step' = "qrcode" /\ tradeNo' # 0 /\ status' = "pending"
    IN  IF step' = step /\ tradeNo' = tradeNo /\ status' = status
        THEN polling' = polling /\ polls' = polls
        ELSE /\ polling' = on
             /\ polls' = IF on THEN polls \cup {tradeNo'} ELSE polls

(* Orders that can still be asked for within the bound.                    *)
Budget ==
    next - 1 + cancelled + (IF opening THEN 1 ELSE 0) + renewing < MaxOrders

(* The dialog is opened: the effect on visible asks for an order.          *)
Open ==
    /\ ~visible /\ Budget
    /\ visible' = TRUE /\ step' = "loading"
    /\ opening' = TRUE
    /\ UNCHANGED <<status, tradeNo, timer, polling, refreshing, strayed, cancelled, renewing, polls,
                   orders, next>>

(* handleClose, the cleanup of the effect and the effect on ~visible.      *)
HandleClose ==
    /\ visible
    /\ visible' = FALSE
    /\ ResetState
    /\ opening' = FALSE
    /\ cancelled' = IF opening THEN cancelled + 1 ELSE cancelled
    /\ UNCHANGED <<renewing, polls, orders, next>>

NewOrder == orders' = [orders EXCEPT ![next] = "unpaid"] /\ next' = next + 1

(* The order of the effect arrives, in time or after the dialog was closed.*)
OrderArrives ==
    /\ opening
    /\ NewOrder
    /\ opening' = FALSE
    /\ tradeNo' = next /\ status' = "pending" /\ step' = "qrcode"
    /\ timer' = TRUE /\ strayed' = FALSE
    /\ PollEffect
    /\ UNCHANGED <<visible, refreshing, cancelled, renewing>>

(* A plausible mistake: the effect does not look at its cancelled flag.    *)
LateOrder_Applied ==
    /\ cancelled > 0
    /\ NewOrder
    /\ cancelled' = cancelled - 1
    /\ tradeNo' = next /\ status' = "pending" /\ step' = "qrcode"
    /\ timer' = TRUE /\ strayed' = FALSE
    /\ PollEffect
    /\ UNCHANGED <<visible, refreshing, opening, renewing>>

LateOrder ==
    /\ cancelled > 0
    /\ NewOrder
    /\ cancelled' = cancelled - 1
    /\ UNCHANGED <<dialog, opening, renewing, polls>>

(* The order could not be created: onCancel closes the dialog.             *)
OrderFails ==
    /\ \/ /\ opening
          /\ opening' = FALSE /\ visible' = FALSE
          /\ ResetState
          /\ UNCHANGED cancelled
       \/ /\ cancelled > 0
          /\ cancelled' = cancelled - 1
          /\ UNCHANGED <<dialog, opening>>
    /\ UNCHANGED <<renewing, polls, orders, next>>

(* A tick of the interval.  An equal request in flight is shared.          *)
PollTick ==
    /\ polling /\ tradeNo # 0
    /\ polls' = polls \cup {tradeNo}
    /\ UNCHANGED <<dialog, opening, cancelled, renewing, orders, next>>

(* Plausible mistakes: any answer stops the interval; a paid order is not  *)
(* recognised.                                                             *)
PollAnswer_StopsAlways(o) ==
    /\ o \in polls
    /\ status' = IF orders[o] = "paid" THEN "success" ELSE status
    /\ polling' = FALSE
    /\ polls' = polls \ {o}
    /\ UNCHANGED <<visible, step, tradeNo, timer, refreshing, strayed, opening, cancelled, renewing, orders, next>>

PollAnswer_PaidUnknown(o) ==
    /\ o \in polls
    /\ status' = IF orders[o] = "failed" THEN "failed" ELSE status
    /\ polling' = (polling /\ orders[o] # "failed")
    /\ polls' = polls \ {o}
    /\ UNCHANGED <<visible, step, tradeNo, timer, refreshing, strayed, opening, cancelled, renewing, orders, next>>

(* pollStatus goes on with the order it asked about, which need not be the *)
(* one on screen any more.                                                 *)
PollAnswer(o) ==
    /\ o \in polls
    /\ CASE orders[o] = "paid" ->
              /\ status' = "success" /\ timer' = FALSE /\ polling' = FALSE
         [] orders[o] = "failed" ->
              /\ status' = "failed" /\ polling' = FALSE
              /\ UNCHANGED timer
         [] OTHER -> UNCHANGED <<status, timer, polling>>
    /\ polls' = polls \ {o}
    /\ UNCHANGED <<visible, step, tradeNo, refreshing, strayed, opening, cancelled, renewing, orders, next>>

PollError(o) ==
    /\ o \in polls
    /\ polls' = polls \ {o}
    /\ UNCHANGED <<dialog, opening, cancelled, renewing, orders, next>>

(* The countdown reaches zero.                                             *)
Expire ==
    /\ timer
    /\ status' = "expired" /\ timer' = FALSE /\ polling' = FALSE
    /\ UNCHANGED <<visible, step, tradeNo, refreshing, strayed, requests, orders, next>>

Shown == visible /\ tradeNo # 0

(* handleRefresh: another order in place of the pending one.  resetState   *)
(* clears refreshing, so that a second request may follow one in flight.   *)
HandleRefresh ==
    /\ Shown /\ ~refreshing /\ status = "pending"
    /\ Budget
    /\ refreshing' = TRUE /\ renewing' = renewing + 1
    /\ UNCHANGED <<visible, step, status, tradeNo, timer, polling, strayed, opening, cancelled,
                   polls, orders, next>>

(* The answer is taken whatever has happened meanwhile.  After a reset     *)
(* step is "loading", and stays so: the new QR code is shown and nothing   *)
(* polls.                                                                  *)
Refreshed ==
    /\ renewing > 0
    /\ NewOrder
    /\ renewing' = renewing - 1 /\ refreshing' = FALSE
    /\ tradeNo' = next /\ status' = "pending" /\ timer' = TRUE
    /\ step' = step /\ strayed' = (step = "loading")
    /\ PollEffect
    /\ UNCHANGED <<visible, opening, cancelled>>

RefreshFails ==
    /\ renewing > 0
    /\ renewing' = renewing - 1 /\ refreshing' = FALSE
    /\ UNCHANGED <<visible, step, status, tradeNo, timer, polling, strayed, opening, cancelled,
                   polls, orders, next>>

(* The button of a failed or expired order resets the dialog, and no       *)
(* effect asks for a new order: the spinner stays.                         *)
Again ==
    /\ Shown /\ status \in {"failed", "expired"}
    /\ ResetState
    /\ UNCHANGED <<visible, requests, orders, next>>

(* The buyer pays, or the order fails, at the server.                      *)
OrderEnds(o) ==
    /\ orders[o] = "unpaid"
    /\ \E end \in {"paid", "failed"} : orders' = [orders EXCEPT ![o] = end]
    /\ UNCHANGED <<dialog, requests, next>>

Next ==
    \/ Open \/ HandleClose \/ OrderArrives \/ LateOrder \/ OrderFails
    \/ PollTick \/ Expire \/ HandleRefresh \/ Refreshed \/ RefreshFails \/ Again
    \/ \E o \in Order : PollAnswer(o)
    \/ \E o \in Order : PollError(o)
    \/ \E o \in Order : OrderEnds(o)

Spec == Init /\ [][Next]_vars

(***************************************************************************)
(* Properties.                                                             *)
(***************************************************************************)

(* The server is only asked every 3 seconds while the dialog shows a QR    *)
(* code that waits to be paid: an order that arrives after the dialog was  *)
(* closed, or a refresh answered then, does not start the polling again.   *)
PollsOnScreen == polling => visible /\ step = "qrcode" /\ tradeNo # 0 /\ status = "pending"

(* The other way round, the QR code of a pending order is never left on    *)
(* screen without polling, also when a late answer about an earlier order  *)
(* or the countdown of one came in between.  The exception is the code's:  *)
(* a refresh that is answered after the dialog was reset or reopened shows *)
(* its order while step is "loading", and that order is not polled.        *)
PendingIsPolled == Shown /\ status = "pending" => polling \/ strayed

(* An order that is paid while its QR code is on screen is noticed, unless *)
(* the dialog leaves it first (it expires, is closed or shows another      *)
(* order) or a refresh that was answered after a reset put it there.       *)
PaidIsSeen ==
    \A o \in Order :
        []<>~(Shown /\ tradeNo = o /\ status = "pending" /\ orders[o] = "paid" /\ ~strayed)
=============================================================================
