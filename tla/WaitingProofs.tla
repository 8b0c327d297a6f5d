--------------------------- MODULE WaitingProofs ---------------------------
(***************************************************************************)
(* Theorems about the parts that wait, for every value of their constants. *)
(* They share no state, so each has an inductive invariant of its own:     *)
(*  - the Alipay dialog: the orders asked for are within the bound, and    *)
(*    polling goes with a pending order on screen, unless a refresh that   *)
(*    was answered after a reset put it there;                             *)
(*  - the test dialog: without an overlap at most one batch is live;       *)
(*  - the shell: a failed probe leaves two timers at most;                 *)
(*  - the chat: read, arrived and coming pieces make one answer, an agent  *)
(*    works for the question that runs or for one that was given up;       *)
(*  - the stream scanner: a count of the lines, each of which is with the  *)
(*    scanner, in dataChan, with the data handler or handled, and one of   *)
(*    the stop tokens, of which nobody sends more than one;                *)
(*  - the rate limits: what the list holds of the requests that passed,    *)
(*    how much longer it is than it should be, and how many may still pass *)
(*    in a window that is full.                                            *)
(***************************************************************************)
EXTENDS MCWaiting, FiniteSetTheorems, SequenceTheorems, WellFoundedInduction, TLAPS

-----------------------------------------------------------------------------
(* The Alipay dialog.                                                      *)

(* A Boolean as a number.                                                  *)
One(b) == IF b THEN 1 ELSE 0

LEMMA OneIs ==
    /\ One(TRUE) = 1 /\ One(FALSE) = 0
    /\ \A b \in BOOLEAN : One(b) \in {0, 1}
BY DEF One

(* The orders asked for stay within the bound; a QR code is only on screen *)
(* with an order, and with step "loading" only after a stray refresh; an   *)
(* order on screen is an old one.                                          *)
QrInv ==
    /\ Qr!TypeOK
    /\ next - 1 + cancelled + One(opening) + renewing <= MaxOrders
    /\ tradeNo < next
    /\ opening => visible
    /\ step = "qrcode" => visible /\ tradeNo # 0
    /\ step = "loading" /\ tradeNo # 0 => strayed
    /\ Qr!PollsOnScreen /\ Qr!PendingIsPolled

LEMMA QrInit == Qr!Init => QrInv
<1> SUFFICES ASSUME Qr!Init PROVE QrInv
  OBVIOUS
<1>1. {visible, timer, polling, refreshing, strayed, opening} \subseteq BOOLEAN
  BY Zenon DEF Qr!Init
<1>2. One(opening) = 0 /\ renewing = 0
  BY OneIs DEF Qr!Init
<1>3. /\ tradeNo = 0 /\ cancelled = 0 /\ next = 1 /\ polls = {} /\ MaxOrders \in Nat
      /\ step = "loading" /\ status = "pending" /\ ~opening /\ ~polling
  BY PartsAssumption DEF Qr!Init
<1>4. orders \in [Qr!Order -> {"none", "unpaid", "paid", "failed"}]
  BY DEF Qr!Init
<1>5. /\ cancelled \in 0..MaxOrders /\ renewing \in 0..MaxOrders
      /\ next \in 1..(MaxOrders + 1) /\ tradeNo < next
      /\ next - 1 + cancelled + One(opening) + renewing <= MaxOrders
  BY <1>2, <1>3
<1> QED
  BY <1>1, <1>3, <1>4, <1>5 DEF QrInv, Qr!TypeOK, Qr!PollsOnScreen, Qr!PendingIsPolled, Qr!Shown

LEMMA QrStep ==
    ASSUME QrInv, Qr!Next
    PROVE  QrInv'
<1> DEFINE Orders == [1..MaxOrders -> {"none", "unpaid", "paid", "failed"}]
           Kinds == /\ visible' \in BOOLEAN /\ timer' \in BOOLEAN /\ polling' \in BOOLEAN
                    /\ refreshing' \in BOOLEAN /\ opening' \in BOOLEAN /\ strayed' \in BOOLEAN
                    /\ step' \in {"loading", "qrcode"}
                    /\ status' \in {"pending", "success", "failed", "expired"}
                    /\ polls' \subseteq 1..MaxOrders /\ orders' \in Orders
           Numbers == /\ tradeNo' \in Nat /\ cancelled' \in Nat /\ renewing' \in Nat /\ next' \in Nat
                      /\ next' >= 1 /\ tradeNo' < next'
                      /\ next' - 1 + cancelled' + One(opening') + renewing' <= MaxOrders
           Screen == /\ opening' => visible'
                     /\ step' = "qrcode" => visible' /\ tradeNo' # 0
                     /\ polling' => visible' /\ step' = "qrcode" /\ tradeNo' # 0 /\ status' = "pending"
                     /\ step' = "loading" /\ tradeNo' # 0 => strayed'
                     /\ visible' /\ tradeNo' # 0 /\ status' = "pending" => polling' \/ strayed'
<1>0. visible \in BOOLEAN /\ timer \in BOOLEAN /\ polling \in BOOLEAN
      /\ refreshing \in BOOLEAN /\ opening \in BOOLEAN /\ strayed \in BOOLEAN
  BY Zenon DEF QrInv, Qr!TypeOK
<1>1. /\ step \in {"loading", "qrcode"} /\ status \in {"pending", "success", "failed", "expired"}
      /\ polls \subseteq 1..MaxOrders /\ orders \in Orders
  BY DEF QrInv, Qr!TypeOK, Qr!Order
<1>2. /\ tradeNo \in Nat /\ cancelled \in Nat /\ renewing \in Nat /\ next \in Nat /\ next >= 1 /\ tradeNo < next
      /\ MaxOrders \in Nat
      /\ next - 1 + cancelled + One(opening) + renewing <= MaxOrders
  BY PartsAssumption DEF QrInv, Qr!TypeOK, Qr!Order
<1>3. /\ opening => visible
      /\ step = "qrcode" => visible /\ tradeNo # 0
      /\ polling => visible /\ step = "qrcode" /\ tradeNo # 0 /\ status = "pending"
      /\ step = "loading" /\ tradeNo # 0 => strayed
      /\ visible /\ tradeNo # 0 /\ status = "pending" => polling \/ strayed
  BY DEF QrInv, Qr!PollsOnScreen, Qr!PendingIsPolled, Qr!Shown
<1>4. ASSUME Kinds, Numbers, Screen
      PROVE  QrInv'
  <2>1. One(opening') \in {0, 1}
    BY <1>4, OneIs, Zenon
  <2>2. tradeNo' \in {0} \cup (1..MaxOrders) /\ cancelled' \in 0..MaxOrders /\ next' \in 1..(MaxOrders + 1)
        /\ renewing' \in 0..MaxOrders
    BY <1>2, <1>4, <2>1
  <2>3. {visible', timer', polling', refreshing', strayed', opening'} \subseteq BOOLEAN
    BY <1>4, Zenon
  <2>4. Qr!TypeOK'
    BY <1>4, <2>2, <2>3, Zenon DEF Qr!TypeOK, Qr!Order
  <2> QED
    BY <1>4, <2>4, Zenon DEF QrInv, Qr!PollsOnScreen, Qr!PendingIsPolled, Qr!Shown
<1>5. One(opening) \in {0, 1}
  BY <1>0, OneIs, Zenon
<1>6. ASSUME opening \/ cancelled > 0 \/ renewing > 0, Qr!NewOrder
      PROVE  next \in 1..MaxOrders /\ orders' \in Orders /\ next' = next + 1
  <2>1. opening => One(opening) = 1
    BY <1>0, OneIs, Zenon
  <2>3. next \in 1..MaxOrders
    BY <1>2, <1>5, <1>6, <2>1
  <2> QED
    BY <1>1, <1>6, <2>3 DEF Qr!NewOrder
<1>7. CASE Qr!Open
  <2>1. ~visible /\ visible' = TRUE /\ step' = "loading" /\ opening' = TRUE /\ polling' = polling
    BY <1>7 DEF Qr!Open
  <2>2. UNCHANGED <<status, tradeNo, timer, refreshing, strayed, cancelled, renewing, polls, orders, next>>
    BY <1>7 DEF Qr!Open
  <2>3. next - 1 + cancelled + One(opening) + renewing < MaxOrders
    BY <1>7 DEF Qr!Open, Qr!Budget, One
  <2>4. One(opening') = 1 /\ renewing' = renewing
    BY <2>1, <2>2, OneIs, Zenon
  <2>5. ~opening
    BY <1>3, <2>1
  <2>6. One(opening) = 0
    BY <1>0, <2>5, OneIs, Zenon
  <2>7. Kinds
    BY <1>0, <1>1, <2>1, <2>2, <2>3, <2>4, <2>5, <2>6
  <2>8. Numbers
    BY <1>2, <1>5, <2>2, <2>3, <2>4, <2>6
  <2>9. Screen
    BY <1>0, <1>1, <1>3, <2>1, <2>2, <2>3, <2>4, <2>5, <2>6
  <2> QED
    BY <1>4, <2>7, <2>8, <2>9
<1>8. CASE Qr!HandleClose
  <2>1. visible' = FALSE /\ step' = "loading" /\ status' = "pending" /\ tradeNo' = 0 /\ opening' = FALSE
        /\ timer' = FALSE /\ polling' = FALSE /\ refreshing' = FALSE /\ strayed' = FALSE
    BY <1>8 DEF Qr!HandleClose, Qr!ResetState
  <2>2. UNCHANGED <<renewing, polls, orders, next>>
    BY <1>8 DEF Qr!HandleClose
  <2>3. cancelled' = cancelled + One(opening)
    BY <1>8, <1>2 DEF Qr!HandleClose, One
  <2>4. One(opening') = 0 /\ renewing' = renewing
    BY <2>1, <2>2, OneIs, Zenon
  <2>5. Kinds
    BY <1>0, <1>1, <2>1, <2>2, <2>3, <2>4
  <2>6. Numbers
    BY <1>2, <1>5, <2>1, <2>2, <2>3, <2>4
  <2>7. Screen
    BY <1>0, <1>3, <2>1, <2>2, <2>3, <2>4
  <2> QED
    BY <1>4, <2>5, <2>6, <2>7
<1>9. CASE Qr!OrderArrives
  <2>1. opening /\ opening' = FALSE /\ tradeNo' = next /\ status' = "pending" /\ step' = "qrcode" /\ timer' = TRUE
        /\ strayed' = FALSE
    BY <1>9 DEF Qr!OrderArrives
  <2>2. UNCHANGED <<visible, refreshing, cancelled, renewing>>
    BY <1>9 DEF Qr!OrderArrives
  <2>3. next \in 1..MaxOrders /\ orders' \in Orders /\ next' = next + 1
    BY <1>9, <1>6 DEF Qr!OrderArrives
  <2>4. One(opening) = 1 /\ One(opening') = 0 /\ renewing' = renewing
    BY <1>0, <2>1, <2>2, OneIs, Zenon
  <2>5. tradeNo' # tradeNo /\ tradeNo' # 0
    BY <1>2, <2>1
  <2>6. polling' = TRUE /\ polls' = polls \cup {next}
    BY <1>9, <2>1, <2>5 DEF Qr!OrderArrives, Qr!PollEffect
  <2>7. Kinds
    BY <1>0, <1>1, <2>1, <2>2, <2>3, <2>4, <2>5, <2>6
  <2>8. Numbers
    <3>1. tradeNo' = next /\ cancelled' = cancelled /\ next' = next + 1
      BY <2>1, <2>2, <2>3
    <3> QED
      BY <1>2, <1>5, <2>4, <3>1
  <2>9. Screen
    BY <1>0, <1>3, <2>1, <2>2, <2>3, <2>4, <2>5, <2>6
  <2> QED
    BY <1>4, <2>7, <2>8, <2>9
<1>10. CASE Qr!LateOrder
  <2>1. cancelled > 0 /\ cancelled' = cancelled - 1
    BY <1>10 DEF Qr!LateOrder
  <2>2. UNCHANGED <<visible, step, status, tradeNo, timer, polling, refreshing, strayed, opening, renewing, polls>>
    BY <1>10 DEF Qr!LateOrder, Qr!dialog
  <2>3. next \in 1..MaxOrders /\ orders' \in Orders /\ next' = next + 1
    BY <1>10, <1>6 DEF Qr!LateOrder
  <2>4. One(opening') = One(opening) /\ renewing' = renewing
    BY <2>2, Zenon
  <2>5. Kinds
    BY <1>0, <1>1, <2>1, <2>2, <2>3, <2>4
  <2>6. Numbers
    BY <1>2, <1>5, <2>1, <2>2, <2>3, <2>4
  <2>7. Screen
    BY <1>0, <1>3, <2>1, <2>2, <2>3, <2>4
  <2> QED
    BY <1>4, <2>5, <2>6, <2>7
<1>11. CASE Qr!OrderFails
  <2>1. UNCHANGED <<renewing, polls, orders, next>>
    BY <1>11 DEF Qr!OrderFails
  <2>2. CASE opening /\ opening' = FALSE /\ visible' = FALSE /\ Qr!ResetState /\ UNCHANGED cancelled
    <3>1. visible' = FALSE /\ step' = "loading" /\ status' = "pending" /\ tradeNo' = 0 /\ opening' = FALSE
          /\ timer' = FALSE /\ polling' = FALSE /\ refreshing' = FALSE /\ strayed' = FALSE /\ cancelled' = cancelled
      BY <2>2 DEF Qr!ResetState
    <3>2. One(opening') = 0 /\ renewing' = renewing
      BY <2>1, <3>1, OneIs, Zenon
    <3>3. Kinds
      BY <1>0, <1>1, <2>1, <3>1, Zenon
    <3>4. Numbers
      BY <1>2, <1>5, <2>1, <3>1, <3>2
    <3>5. Screen
      BY <3>1
    <3> QED
      BY <1>4, <3>3, <3>4, <3>5
  <2>3. CASE cancelled > 0 /\ cancelled' = cancelled - 1 /\ UNCHANGED <<Qr!dialog, opening>>
    <3>1. UNCHANGED <<visible, step, status, tradeNo, timer, polling, refreshing, strayed, opening>>
      BY <2>3 DEF Qr!dialog
    <3>2. One(opening') = One(opening) /\ renewing' = renewing
      BY <2>1, <3>1, Zenon
    <3>3. Kinds
      BY <1>0, <1>1, <2>1, <3>1, Zenon
    <3>4. Numbers
      BY <1>2, <1>5, <2>1, <2>3, <3>1, <3>2
    <3>5. Screen
      BY <1>3, <3>1
    <3> QED
      BY <1>4, <3>3, <3>4, <3>5
  <2> QED
    BY <1>11, <2>2, <2>3 DEF Qr!OrderFails
<1>12. CASE Qr!PollTick
  <2>1. UNCHANGED <<opening, renewing, tradeNo, cancelled, next>>
    BY <1>12 DEF Qr!PollTick, Qr!dialog
  <2>2. renewing' = renewing /\ One(opening') = One(opening)
    BY <2>1, Zenon
  <2>3. Kinds
    <3>1. tradeNo \in 1..MaxOrders
      BY <1>2, <1>5, <1>12 DEF Qr!PollTick
    <3> QED
      BY <1>0, <1>1, <1>12, <3>1 DEF Qr!PollTick, Qr!dialog
  <2>4. Numbers
    BY <1>2, <2>1, <2>2
  <2>5. Screen
    BY <1>0, <1>3, <1>12 DEF Qr!PollTick, Qr!dialog
  <2> QED
    BY <1>4, <2>3, <2>4, <2>5
<1>13. CASE Qr!Expire
  <2>1. UNCHANGED <<opening, renewing, tradeNo, cancelled, next>>
    BY <1>13 DEF Qr!Expire, Qr!requests
  <2>2. renewing' = renewing /\ One(opening') = One(opening)
    BY <2>1, Zenon
  <2>3. Kinds
    BY <1>0, <1>1, <1>2, <1>3, <1>13 DEF Qr!Expire, Qr!requests, Qr!Order
  <2>4. Numbers
    BY <1>2, <2>1, <2>2
  <2>5. Screen
    BY <1>0, <1>3, <1>13 DEF Qr!Expire, Qr!requests
  <2> QED
    BY <1>4, <2>3, <2>4, <2>5
<1>14. CASE Qr!HandleRefresh
  <2>1. refreshing' = TRUE /\ renewing' = renewing + 1
    BY <1>14 DEF Qr!HandleRefresh
  <2>2. UNCHANGED <<visible, step, status, tradeNo, timer, polling, strayed, opening, cancelled, polls, orders, next>>
    BY <1>14 DEF Qr!HandleRefresh
  <2>3. next - 1 + cancelled + One(opening) + renewing < MaxOrders
    BY <1>14 DEF Qr!HandleRefresh, Qr!Budget, One
  <2>4. One(opening') = One(opening)
    BY <1>0, <2>1, <2>2, OneIs, Zenon
  <2>5. Kinds
    BY <1>0, <1>1, <2>1, <2>2, <2>3, <2>4
  <2>6. Numbers
    BY <1>2, <1>5, <2>1, <2>2, <2>3, <2>4
  <2>7. Screen
    BY <1>0, <1>3, <2>1, <2>2, <2>3, <2>4
  <2> QED
    BY <1>4, <2>5, <2>6, <2>7
<1>15. CASE Qr!Refreshed
  <2>1. renewing > 0 /\ renewing' = renewing - 1 /\ refreshing' = FALSE /\ tradeNo' = next /\ status' = "pending" /\ timer' = TRUE
        /\ step' = step /\ strayed' = (step = "loading")
    BY <1>15 DEF Qr!Refreshed
  <2>2. UNCHANGED <<visible, opening, cancelled>>
    BY <1>15 DEF Qr!Refreshed
  <2>3. next \in 1..MaxOrders /\ orders' \in Orders /\ next' = next + 1
    BY <1>15, <1>6 DEF Qr!Refreshed
  <2>4. One(opening') = One(opening)
    BY <1>0, <2>1, <2>2, OneIs, Zenon
  <2>5. tradeNo' # tradeNo /\ tradeNo' # 0
    BY <1>2, <2>1
  <2>6. polling' = (step = "qrcode") /\ polls' \subseteq polls \cup {next}
    BY <1>15, <2>1, <2>5 DEF Qr!Refreshed, Qr!PollEffect
  <2>7. Kinds
    BY <1>0, <1>1, <2>1, <2>2, <2>3, <2>4, <2>5, <2>6
  <2>8. Numbers
    <3>1. tradeNo' = next /\ cancelled' = cancelled /\ next' = next + 1
      BY <2>1, <2>2, <2>3
    <3> QED
      BY <1>2, <1>5, <2>1, <2>4, <3>1
  <2>9. Screen
    BY <1>0, <1>1, <1>3, <2>1, <2>2, <2>3, <2>4, <2>5, <2>6
  <2> QED
    BY <1>4, <2>7, <2>8, <2>9
<1>16. CASE Qr!RefreshFails
  <2>1. renewing > 0 /\ renewing' = renewing - 1 /\ refreshing' = FALSE
    BY <1>16 DEF Qr!RefreshFails
  <2>2. UNCHANGED <<visible, step, status, tradeNo, timer, polling, strayed, opening, cancelled, polls, orders, next>>
    BY <1>16 DEF Qr!RefreshFails
  <2>3. One(opening') = One(opening)
    BY <2>1, <2>2, OneIs, Zenon
  <2>4. Kinds
    BY <1>0, <1>1, <2>1, <2>2, <2>3
  <2>5. Numbers
    BY <1>2, <1>5, <2>1, <2>2, <2>3
  <2>6. Screen
    BY <1>0, <1>3, <2>1, <2>2, <2>3
  <2> QED
    BY <1>4, <2>4, <2>5, <2>6
<1>17. CASE Qr!Again
  <2>1. step' = "loading" /\ status' = "pending" /\ tradeNo' = 0
        /\ timer' = FALSE /\ polling' = FALSE /\ refreshing' = FALSE /\ strayed' = FALSE
    BY <1>17 DEF Qr!Again, Qr!ResetState
  <2>2. UNCHANGED <<visible, opening, cancelled, renewing, polls, orders, next>>
    BY <1>17 DEF Qr!Again, Qr!requests
  <2>3. renewing' = renewing /\ One(opening') = One(opening)
    BY <2>2, Zenon
  <2>4. Kinds
    BY <1>0, <1>1, <2>1, <2>2, <2>3
  <2>5. Numbers
    BY <1>2, <1>5, <2>1, <2>2, <2>3
  <2>6. Screen
    BY <1>0, <1>3, <2>1, <2>2, <2>3
  <2> QED
    BY <1>4, <2>4, <2>5, <2>6
<1>18. ASSUME NEW o \in Qr!Order, Qr!PollAnswer(o)
      PROVE  QrInv'
  <2>1. UNCHANGED <<opening, renewing, tradeNo, cancelled, next>>
    BY <1>18 DEF Qr!PollAnswer
  <2>2. renewing' = renewing /\ One(opening') = One(opening)
    BY <2>1, Zenon
  <2>3. Kinds
    BY <1>0, <1>1, <1>2, <1>3, <1>18 DEF Qr!PollAnswer, Qr!Order
  <2>4. Numbers
    BY <1>2, <2>1, <2>2
  <2>5. Screen
    BY <1>0, <1>3, <1>18 DEF Qr!PollAnswer
  <2> QED
    BY <1>4, <2>3, <2>4, <2>5
<1>19. ASSUME NEW o \in Qr!Order, Qr!PollError(o)
      PROVE  QrInv'
  <2>1. UNCHANGED <<opening, renewing, tradeNo, cancelled, next>>
    BY <1>19 DEF Qr!PollError, Qr!dialog
  <2>2. renewing' = renewing /\ One(opening') = One(opening)
    BY <2>1, Zenon
  <2>3. Kinds
    BY <1>0, <1>1, <1>2, <1>3, <1>19 DEF Qr!PollError, Qr!dialog, Qr!Order
  <2>4. Numbers
    BY <1>2, <2>1, <2>2
  <2>5. Screen
    BY <1>0, <1>3, <1>19 DEF Qr!PollError, Qr!dialog
  <2> QED
    BY <1>4, <2>3, <2>4, <2>5
<1>20. ASSUME NEW o \in Qr!Order, Qr!OrderEnds(o)
      PROVE  QrInv'
  <2>1. UNCHANGED <<opening, renewing, tradeNo, cancelled, next>>
    BY <1>20 DEF Qr!OrderEnds, Qr!dialog, Qr!requests
  <2>2. renewing' = renewing /\ One(opening') = One(opening)
    BY <2>1, Zenon
  <2>3. Kinds
    BY <1>0, <1>1, <1>2, <1>3, <1>20 DEF Qr!OrderEnds, Qr!dialog, Qr!requests, Qr!Order
  <2>4. Numbers
    BY <1>2, <2>1, <2>2
  <2>5. Screen
    BY <1>0, <1>3, <1>20 DEF Qr!OrderEnds, Qr!dialog, Qr!requests
  <2> QED
    BY <1>4, <2>3, <2>4, <2>5
<1> QED
  BY <1>7, <1>8, <1>9, <1>10, <1>11, <1>12, <1>13, <1>14, <1>15, <1>16, <1>17, <1>18, <1>19, <1>20 DEF Qr!Next

-----------------------------------------------------------------------------
(* The model test dialog.                                                  *)

(* A wave is one of models that there are; without an overlap one batch    *)
(* runs at most.                                                           *)
Loops == [Loop -> [pc : Tests!Pc, i : 1..(Len(Models) + Limit)]]
WavesWithin(ls) == \A l \in Loop : ls[l].pc = "wave" => ls[l].i <= Len(Models)
LiveIn(ls, l) == ls[l].pc \notin {"idle", "ended"}
Alone(ls) == \A k, l \in Loop : LiveIn(ls, k) /\ LiveIn(ls, l) => k = l
TestsInv ==
    /\ Tests!TypeOK /\ WavesWithin(loops) /\ (~overlapped => Alone(loops))
    /\ Tests!RowSpinners /\ Tests!StopOffered

LEMMA TestsInit == Tests!Init => TestsInv
<1> SUFFICES ASSUME Tests!Init PROVE TestsInv
  OBVIOUS
<1>1. {open, batching, stop, stopped, overlapped} \subseteq BOOLEAN
  BY Zenon DEF Tests!Init
<1>2. loops \in Loops /\ \A l \in Loop : loops[l].pc = "idle"
  <2>1. 1 \in 1..(Len(Models) + Limit)
    BY PartsAssumption
  <2> QED
    BY <2>1 DEF Tests!Init, Loops, Tests!Pc
<1>3. tests = {} /\ testing = {} /\ results = {} /\ singles \in 0..MaxTests
  BY PartsAssumption DEF Tests!Init
<1>4. Tests!TypeOK
  BY <1>1, <1>2, <1>3, Zenon DEF Tests!TypeOK, Loops
<1>5. WavesWithin(loops) /\ Alone(loops)
  BY <1>2 DEF WavesWithin, Alone, LiveIn
<1>6. Tests!RowSpinners /\ Tests!StopOffered
  BY <1>2, <1>3 DEF Tests!RowSpinners, Tests!StopOffered, Tests!Live
<1> QED
  BY <1>4, <1>5, <1>6 DEF TestsInv

(* The wave at an index that there is is one of models.                    *)
LEMMA WaveOfModels ==
    ASSUME NEW i \in Nat, i >= 1
    PROVE  Tests!Wave(i) \subseteq Tests!Model
<1> SUFFICES ASSUME NEW j \in i..(IF i + Limit - 1 < Len(Models) THEN i + Limit - 1 ELSE Len(Models))
             PROVE  j \in DOMAIN Models
  BY DEF Tests!Wave, Tests!Model
<1> QED
  BY PartsAssumption

(* A test that is sent has a spinner and one that has a spinner was sent.  *)
LEMMA TestSent ==
    ASSUME TestsInv, NEW ms \in SUBSET Tests!Model, NEW by \in Loop \cup {Tests!Nobody}, NEW saw \in BOOLEAN,
           Tests!TestChannel(ms, by, saw)
    PROVE  /\ tests' \subseteq [by : Loop \cup {Tests!Nobody}, model : Tests!Model, seen : BOOLEAN]
           /\ testing' \subseteq Tests!Model /\ Tests!RowSpinners'
<1>1. /\ tests \subseteq [by : Loop \cup {Tests!Nobody}, model : Tests!Model, seen : BOOLEAN]
      /\ testing \subseteq Tests!Model /\ \A m \in testing : \E x \in tests : x.model = m
  BY DEF TestsInv, Tests!TypeOK, Tests!RowSpinners
<1>2. CASE stop /\ saw
  BY <1>1, <1>2 DEF Tests!TestChannel, Tests!RowSpinners
<1>3. CASE ~(stop /\ saw)
  <2> DEFINE sent == {[by |-> by, model |-> m, seen |-> saw] : m \in ms}
  <2>1. tests' = tests \cup sent /\ testing' = testing \cup ms
    BY <1>3 DEF Tests!TestChannel
  <2>2. sent \subseteq [by : Loop \cup {Tests!Nobody}, model : Tests!Model, seen : BOOLEAN]
    <3>1. \A m \in ms : [by |-> by, model |-> m, seen |-> saw]
                        \in [by : Loop \cup {Tests!Nobody}, model : Tests!Model, seen : BOOLEAN]
      <4> SUFFICES ASSUME NEW m \in ms
                   PROVE  [by |-> by, model |-> m, seen |-> saw]
                          \in [by : Loop \cup {Tests!Nobody}, model : Tests!Model, seen : BOOLEAN]
        OBVIOUS
      <4>1. m \in Tests!Model
        OBVIOUS
      <4> QED
        BY <4>1, Zenon
    <3> QED
      BY <3>1
  <2>3. \A m \in ms : \E x \in sent : x.model = m
    <3> SUFFICES ASSUME NEW m \in ms PROVE \E x \in sent : x.model = m
      OBVIOUS
    <3>1. [by |-> by, model |-> m, seen |-> saw] \in sent
      OBVIOUS
    <3> QED
      BY <3>1
  <2> HIDE DEF sent
  <2>4. Tests!RowSpinners'
    BY <1>1, <2>1, <2>3 DEF Tests!RowSpinners
  <2> QED
    BY <1>1, <2>1, <2>2, <2>4
<1> QED
  BY <1>2, <1>3

(* A batch goes on: one loop moves, to a place where it is as live as it   *)
(* was or over.                                                            *)
LEMMA LoopMoves ==
    ASSUME TestsInv, NEW l \in Loop, LiveIn(loops, l), NEW p \in Tests!Pc \ {"idle"},
           NEW j \in 1..(Len(Models) + Limit),
           p = "wave" => j <= Len(Models),
           loops' = [loops EXCEPT ![l] = [pc |-> p, i |-> j]],
           overlapped' = overlapped, stopped' = stopped,
           batching' = batching \/ p = "ended"
    PROVE  /\ loops' \in Loops /\ WavesWithin(loops')
           /\ ~overlapped' => Alone(loops')
           /\ Tests!StopOffered'
<1>1. loops \in Loops /\ WavesWithin(loops) /\ (~overlapped => Alone(loops))
  BY DEF TestsInv, Tests!TypeOK, Loops
<1>2. ~overlapped => \A k \in Loop : LiveIn(loops, k) => batching \/ stopped
  BY DEF TestsInv, Tests!StopOffered, Tests!Live, LiveIn
<1>3. loops' \in Loops
  BY <1>1 DEF Loops
<1>4. \A k \in Loop : loops'[k] = IF k = l THEN [pc |-> p, i |-> j] ELSE loops[k]
  BY <1>1 DEF Loops
<1>5. \A k \in Loop : /\ LiveIn(loops', k) => LiveIn(loops, k)
                      /\ LiveIn(loops', l) => p # "ended"
  BY <1>4 DEF LiveIn
<1>6. WavesWithin(loops')
  BY <1>1, <1>4 DEF WavesWithin
<1>7. ~overlapped' => Alone(loops')
  BY <1>1, <1>5 DEF Alone
<1>8. Tests!StopOffered'
  <2> SUFFICES ASSUME ~overlapped', NEW k \in Loop, LiveIn(loops', k)
               PROVE  (batching \/ stopped)'
    BY DEF Tests!StopOffered, Tests!Live, LiveIn
  <2>1. LiveIn(loops, k) /\ k = l
    BY <1>1, <1>5 DEF Alone
  <2>2. p # "ended"
    BY <1>5, <2>1
  <2> QED
    BY <1>2, <2>1, <2>2
<1> QED
  BY <1>3, <1>6, <1>7, <1>8

LEMMA TestsStep ==
    ASSUME TestsInv, Tests!Next
    PROVE  TestsInv'
<1>1. /\ open \in BOOLEAN /\ batching \in BOOLEAN /\ stop \in BOOLEAN
      /\ stopped \in BOOLEAN /\ overlapped \in BOOLEAN
  BY Zenon DEF TestsInv, Tests!TypeOK
<1>2. /\ loops \in Loops /\ testing \subseteq Tests!Model /\ results \subseteq Tests!Model
      /\ tests \subseteq [by : Loop \cup {Tests!Nobody}, model : Tests!Model, seen : BOOLEAN]
      /\ singles \in Nat /\ singles <= MaxTests /\ MaxTests \in Nat
  BY PartsAssumption DEF TestsInv, Tests!TypeOK, Loops
<1>3. WavesWithin(loops) /\ (~overlapped => Alone(loops)) /\ Tests!RowSpinners /\ Tests!StopOffered
  BY DEF TestsInv
<1> DEFINE Flags == /\ open' \in BOOLEAN /\ batching' \in BOOLEAN /\ stop' \in BOOLEAN
                    /\ stopped' \in BOOLEAN /\ overlapped' \in BOOLEAN
           Rows == /\ tests' \subseteq [by : Loop \cup {Tests!Nobody}, model : Tests!Model, seen : BOOLEAN]
                   /\ testing' \subseteq Tests!Model /\ Tests!RowSpinners'
           Batches == /\ loops' \in Loops /\ WavesWithin(loops') /\ (~overlapped' => Alone(loops'))
                      /\ Tests!StopOffered'
           Rest == results' \subseteq Tests!Model /\ singles' \in 0..MaxTests
<1>4. ASSUME Flags, Rows, Batches, Rest
      PROVE  TestsInv'
  <2>1. {open', batching', stop', stopped', overlapped'} \subseteq BOOLEAN
    BY <1>4, Zenon
  <2>2. Tests!TypeOK'
    BY <1>4, <2>1, Zenon DEF Tests!TypeOK, Loops
  <2> QED
    BY <1>4, <2>2, Zenon DEF TestsInv, Loops
<1>5. ASSUME UNCHANGED <<tests, testing>>
      PROVE  Rows
  BY <1>2, <1>3, <1>5 DEF Tests!RowSpinners
<1>6. ASSUME UNCHANGED <<loops, batching, stopped, overlapped>>
      PROVE  Batches
  <2>1. loops' = loops /\ batching' = batching /\ stopped' = stopped /\ overlapped' = overlapped
    BY <1>6
  <2>2. Tests!StopOffered'
    BY <1>3, <2>1 DEF Tests!StopOffered, Tests!Live
  <2> QED
    BY <1>2, <1>3, <2>1, <2>2
<1>7. \A l \in Loop : loops[l] \in [pc : Tests!Pc, i : 1..(Len(Models) + Limit)]
  BY <1>2 DEF Loops
<1>8. ASSUME UNCHANGED <<results, singles>>
      PROVE  Rest
  BY <1>2, <1>8
<1> HIDE DEF Rows, Batches, Rest, Flags
<1>9. ASSUME NEW m \in Tests!Model, Tests!TestOne(m)
      PROVE  TestsInv'
  <2>1. Flags
    BY <1>1, <1>9, Zenon DEF Tests!TestOne, Flags
  <2>2. Rows
    <3>1. Tests!TestChannel({m}, Tests!Nobody, batching)
      BY <1>9 DEF Tests!TestOne
    <3> QED
      BY <1>1, <3>1, TestSent DEF Rows
  <2>3. Batches
    BY <1>6, <1>9 DEF Tests!TestOne
  <2>4. Rest
    BY <1>2, <1>9 DEF Tests!TestOne, Rest
  <2> QED
    BY <1>4, <2>1, <2>2, <2>3, <2>4
<1>10. ASSUME NEW x \in tests, Tests!TestAnswer(x)
      PROVE  TestsInv'
  <2>1. Flags
    BY <1>1, <1>10, Zenon DEF Tests!TestAnswer, Flags
  <2>2. tests' = tests \ {x} /\ testing' = testing \ {x.model}
    BY <1>10 DEF Tests!TestAnswer
  <2>3. Rows
    BY <1>2, <1>3, <2>2 DEF Rows, Tests!RowSpinners
  <2>4. Batches
    BY <1>6, <1>10 DEF Tests!TestAnswer
  <2>5. Rest
    <3>1. x.model \in Tests!Model
      BY <1>2
    <3> QED
      BY <1>2, <1>10, <3>1 DEF Tests!TestAnswer, Rest
  <2> QED
    BY <1>4, <2>1, <2>3, <2>4, <2>5
<1>11. ASSUME NEW l \in Loop, Tests!BatchTestModels(l)
      PROVE  TestsInv'
  <2>1. /\ batching' = TRUE /\ stop' = FALSE /\ stopped' = FALSE /\ open' = open
        /\ overlapped' = (overlapped \/ \E k \in Loop : Tests!Live(k))
    BY <1>11 DEF Tests!BatchTestModels
  <2>2. Flags
    BY <1>1, <2>1, Zenon DEF Flags
  <2>3. Rows
    BY <1>5, <1>11 DEF Tests!BatchTestModels
  <2>4. Rest
    BY <1>2, <1>11 DEF Tests!BatchTestModels, Rest
  <2>5. loops' = [loops EXCEPT ![l].pc = "top"]
    BY <1>11 DEF Tests!BatchTestModels, Tests!Goto
  <2>6. loops' \in Loops /\ \A k \in Loop : k # l => loops'[k] = loops[k]
    BY <1>2, <2>5 DEF Loops, Tests!Pc
  <2>7. loops'[l].pc = "top"
    BY <1>2, <1>7, <2>5 DEF Loops
  <2>8. WavesWithin(loops')
    BY <1>3, <2>6, <2>7 DEF WavesWithin
  <2>9. ~overlapped' => Alone(loops')
    BY <2>1, <2>6 DEF Alone, LiveIn, Tests!Live
  <2>10. Tests!StopOffered'
    BY <2>1 DEF Tests!StopOffered
  <2>11. Batches
    BY <2>6, <2>8, <2>9, <2>10 DEF Batches
  <2> QED
    BY <1>4, <2>2, <2>3, <2>4, <2>11
<1>12. ASSUME NEW l \in Loop, NEW p \in Tests!Pc, Tests!Goto(l, p)
       PROVE  loops' = [loops EXCEPT ![l] = [pc |-> p, i |-> loops[l].i]]
  <2>1. loops[l] \in [pc : Tests!Pc, i : 1..(Len(Models) + Limit)]
    BY <1>7
  <2>2. [loops[l] EXCEPT !.pc = p] = [pc |-> p, i |-> loops[l].i]
    BY <2>1
  <2>3. loops' = [loops EXCEPT ![l] = [loops[l] EXCEPT !.pc = p]]
    BY <1>12 DEF Tests!Goto
  <2> QED
    BY <2>2, <2>3
<1>13. \A l \in Loop : loops[l].i \in 1..(Len(Models) + Limit)
  BY <1>7
<1>14. {"top", "wave", "pause", "summing", "ended"} \subseteq Tests!Pc \ {"idle"}
  BY DEF Tests!Pc
<1>15. ASSUME NEW l \in Loop, Tests!NextWave(l)
       PROVE  TestsInv'
  <2>1. /\ loops[l].pc = "top" /\ LiveIn(loops, l)
        /\ UNCHANGED <<open, stop, results, singles, stopped, overlapped>>
    BY <1>15 DEF Tests!NextWave, LiveIn
  <2>2. CASE stop /\ Tests!Goto(l, "ended") /\ batching' = FALSE /\ UNCHANGED <<tests, testing>>
    <3>1. Flags
      BY <1>1, <2>1, <2>2, Zenon DEF Flags
    <3>2. loops' = [loops EXCEPT ![l] = [pc |-> "ended", i |-> loops[l].i]]
      BY <1>12, <1>14, <2>2
    <3>3. Batches
      BY <1>13, <1>14, <2>1, <2>2, <3>2, LoopMoves DEF Batches
    <3> QED
      BY <1>4, <1>5, <1>8, <2>1, <2>2, <3>1, <3>3
  <2>3. CASE Tests!Goto(l, "summing") /\ UNCHANGED <<batching, tests, testing>>
    <3>1. Flags
      BY <1>1, <2>1, <2>3, Zenon DEF Flags
    <3>2. loops' = [loops EXCEPT ![l] = [pc |-> "summing", i |-> loops[l].i]]
      BY <1>12, <1>14, <2>3
    <3>3. Batches
      BY <1>13, <1>14, <2>1, <2>3, <3>2, LoopMoves DEF Batches
    <3> QED
      BY <1>4, <1>5, <1>8, <2>1, <2>3, <3>1, <3>3
  <2>4. CASE /\ ~(loops[l].i > Len(Models)) /\ Tests!Goto(l, "wave")
             /\ Tests!TestChannel(Tests!Wave(loops[l].i), l, FALSE) /\ UNCHANGED batching
    <3>1. Flags
      BY <1>1, <2>1, <2>4, Zenon DEF Flags
    <3>2. loops' = [loops EXCEPT ![l] = [pc |-> "wave", i |-> loops[l].i]]
      BY <1>12, <1>14, <2>4
    <3>3. loops[l].i \in Nat /\ loops[l].i >= 1 /\ loops[l].i <= Len(Models)
      BY <1>13, <2>4, PartsAssumption
    <3>4. Batches
      BY <1>13, <1>14, <2>1, <2>4, <3>2, <3>3, LoopMoves DEF Batches
    <3>5. Tests!Wave(loops[l].i) \in SUBSET Tests!Model
      BY <3>3, WaveOfModels
    <3>6. Rows
      BY <2>4, <3>5, TestSent DEF Rows
    <3> QED
      BY <1>4, <1>8, <2>1, <3>1, <3>4, <3>6
  <2> QED
    BY <1>15, <2>2, <2>3, <2>4 DEF Tests!NextWave
<1>16. ASSUME NEW l \in Loop, Tests!WaveSettled(l)
       PROVE  TestsInv'
  <2>1. /\ loops[l].pc = "wave" /\ LiveIn(loops, l) /\ loops[l].i <= Len(Models)
        /\ UNCHANGED <<open, stop, tests, testing, results, singles, stopped, overlapped>>
    BY <1>3, <1>16 DEF Tests!WaveSettled, LiveIn, WavesWithin
  <2>2. CASE Tests!Goto(l, "ended") /\ batching' = FALSE
    <3>1. Flags
      BY <1>1, <2>1, <2>2, Zenon DEF Flags
    <3>2. loops' = [loops EXCEPT ![l] = [pc |-> "ended", i |-> loops[l].i]]
      BY <1>12, <1>14, <2>2
    <3>3. Batches
      BY <1>13, <1>14, <2>1, <2>2, <3>2, LoopMoves DEF Batches
    <3> QED
      BY <1>4, <1>5, <1>8, <2>1, <2>2, <3>1, <3>3
  <2>3. CASE /\ loops' = [loops EXCEPT ![l] =
                   [pc |-> IF loops[l].i + Limit <= Len(Models) THEN "pause" ELSE "top",
                    i |-> loops[l].i + Limit]]
             /\ UNCHANGED batching
    <3>1. Flags
      BY <1>1, <2>1, <2>3, Zenon DEF Flags
    <3> DEFINE p == IF loops[l].i + Limit <= Len(Models) THEN "pause" ELSE "top"
               j == loops[l].i + Limit
    <3>2. p \in Tests!Pc \ {"idle"} /\ p # "wave"
      BY <1>14
    <3>3. j \in 1..(Len(Models) + Limit)
      BY <1>13, <2>1, PartsAssumption
    <3>4. loops' = [loops EXCEPT ![l] = [pc |-> p, i |-> j]] /\ batching' = batching
      BY <2>3
    <3> HIDE DEF p, j
    <3>5. Batches
      BY <2>1, <3>2, <3>3, <3>4, LoopMoves DEF Batches
    <3> QED
      BY <1>4, <1>5, <1>8, <2>1, <3>1, <3>5
  <2> QED
    BY <1>16, <2>2, <2>3 DEF Tests!WaveSettled
<1>17. ASSUME NEW l \in Loop, Tests!PauseOver(l)
       PROVE  TestsInv'
  <2>1. /\ LiveIn(loops, l) /\ Tests!Goto(l, "top")
        /\ UNCHANGED <<open, batching, stop, tests, testing, results, singles, stopped, overlapped>>
    BY <1>17 DEF Tests!PauseOver, LiveIn
  <2>2. Flags
    BY <1>1, <2>1, Zenon DEF Flags
  <2>3. loops' = [loops EXCEPT ![l] = [pc |-> "top", i |-> loops[l].i]]
    BY <1>12, <1>14, <2>1
  <2>4. Batches
    BY <1>13, <1>14, <2>1, <2>3, LoopMoves DEF Batches
  <2> QED
    BY <1>4, <1>5, <1>8, <2>1, <2>2, <2>4
<1>18. ASSUME NEW l \in Loop, Tests!Summary(l)
       PROVE  TestsInv'
  <2>1. /\ LiveIn(loops, l) /\ Tests!Goto(l, "ended") /\ batching' = FALSE
        /\ UNCHANGED <<open, stop, tests, testing, results, singles, stopped, overlapped>>
    BY <1>18 DEF Tests!Summary, LiveIn
  <2>2. Flags
    BY <1>1, <2>1, Zenon DEF Flags
  <2>3. loops' = [loops EXCEPT ![l] = [pc |-> "ended", i |-> loops[l].i]]
    BY <1>12, <1>14, <2>1
  <2>4. Batches
    BY <1>13, <1>14, <2>1, <2>3, LoopMoves DEF Batches
  <2> QED
    BY <1>4, <1>5, <1>8, <2>1, <2>2, <2>4
<1>19. ASSUME UNCHANGED <<loops, overlapped>>, batching => batching' \/ stopped', stopped => stopped'
       PROVE  Batches
  <2>1. loops' = loops /\ overlapped' = overlapped
    BY <1>19
  <2>2. Tests!StopOffered'
    BY <1>3, <1>19, <2>1 DEF Tests!StopOffered, Tests!Live
  <2> QED
    BY <1>2, <1>3, <2>1, <2>2 DEF Batches
<1>20. ASSUME testing' = {}, tests' = tests
       PROVE  Rows
  BY <1>2, <1>20 DEF Rows, Tests!RowSpinners
<1>21. CASE Tests!StopBatchTesting
  <2>1. Flags
    BY <1>1, <1>21, Zenon DEF Tests!StopBatchTesting, Flags
  <2>2. Batches
    BY <1>19, <1>21 DEF Tests!StopBatchTesting
  <2> QED
    BY <1>4, <1>8, <1>20, <1>21, <2>1, <2>2 DEF Tests!StopBatchTesting
<1>22. CASE Tests!HandleCloseModal
  <2>1. Flags
    BY <1>1, <1>22, Zenon DEF Tests!HandleCloseModal, Flags
  <2>2. Batches
    BY <1>19, <1>22 DEF Tests!HandleCloseModal
  <2> QED
    BY <1>4, <1>8, <1>20, <1>22, <2>1, <2>2 DEF Tests!HandleCloseModal
<1>23. CASE Tests!Reopen
  <2>1. Flags
    BY <1>1, <1>23, Zenon DEF Tests!Reopen, Flags
  <2> QED
    BY <1>4, <1>5, <1>6, <1>8, <1>23, <2>1 DEF Tests!Reopen
<1>24. CASE Tests!ClearTestResults
  <2>1. Flags
    BY <1>1, <1>24, Zenon DEF Tests!ClearTestResults, Flags
  <2>2. Rest
    BY <1>2, <1>24 DEF Tests!ClearTestResults, Rest
  <2> QED
    BY <1>4, <1>5, <1>6, <1>24, <2>1, <2>2 DEF Tests!ClearTestResults
<1> QED
  BY <1>9, <1>10, <1>11, <1>15, <1>16, <1>17, <1>18, <1>21, <1>22, <1>23, <1>24 DEF Tests!Next

-----------------------------------------------------------------------------
(* The desktop shell.                                                      *)

(* Each probe that failed left two timers at most, and none once the       *)
(* attempts have reached the limit.                                        *)
ShellProbes ==
    /\ attempt \in Nat /\ probes \in Nat /\ timers \in Nat
    /\ startup = "idle" => attempt = 0 /\ probes = 0 /\ timers = 0
    /\ startup # "idle" => /\ probes <= attempt
                           /\ attempt + timers <= 1 + 2 * (attempt - probes)
                           /\ attempt + timers <= 2 * MaxRetries - 1

(* The tray is there once the start is resolved, which opens the window    *)
(* that may leave another one behind.                                      *)
ShellWindow ==
    /\ window \in {"none", "shown", "hidden"} /\ orphans \in {0, 1}
    /\ startup # "resolved" => orphans = 0
    /\ tray \in BOOLEAN
    /\ tray => startup = "resolved"
    /\ startup = "resolved" => tray
    /\ ~mode.mac /\ window # "none" => startup = "resolved"

(* An application that exited with a server has killed it.                 *)
ShellKinds ==
    /\ mode \in [dev : BOOLEAN, mac : BOOLEAN]
    /\ server \in {"none", "starting", "listening", "exited"}
    /\ closing \in {"none", "zero", "error"}
    /\ startup \in {"idle", "waiting", "resolved", "rejected"}
    /\ crashDialog \in Shell!Dialog /\ startDialog \in Shell!Dialog
ShellFlags ==
    /\ app \in {"up", "exited"}
    /\ handle \in BOOLEAN /\ isQuitting \in BOOLEAN /\ deadline \in BOOLEAN
    /\ closer \in BOOLEAN /\ killed \in BOOLEAN
    /\ app = "exited" /\ handle => killed
ShellInv == ShellProbes /\ ShellWindow /\ ShellKinds /\ ShellFlags

LEMMA ShellHolds ==
    ASSUME ShellInv
    PROVE  Shell!TypeOK /\ Shell!NoServerLeft /\ Shell!WindowHasServer
<1>1. attempt \in 0..(2 * MaxRetries) /\ probes \in 0..(2 * MaxRetries) /\ timers \in 0..(2 * MaxRetries)
  <2>1. MaxRetries \in Nat /\ MaxRetries >= 1
    BY PartsAssumption
  <2>2. CASE startup = "idle"
    BY <2>1, <2>2 DEF ShellInv, ShellProbes
  <2>3. CASE startup # "idle"
    BY <2>1, <2>3 DEF ShellInv, ShellProbes
  <2> QED
    BY <2>2, <2>3
<1>2. {handle, tray, isQuitting, deadline, closer, killed} \subseteq BOOLEAN
  BY Zenon DEF ShellInv, ShellFlags, ShellWindow
<1>3. orphans \in 0..1
  BY DEF ShellInv, ShellWindow
<1>4. Shell!TypeOK
  BY <1>1, <1>2, <1>3, Zenon DEF ShellInv, ShellWindow, ShellKinds, ShellFlags, Shell!TypeOK, Shell!MaxAttempts
<1>5. Shell!NoServerLeft
  BY DEF ShellInv, ShellFlags, Shell!NoServerLeft
<1>6. Shell!WindowHasServer
  BY DEF ShellInv, ShellWindow, Shell!WindowHasServer
<1> QED
  BY <1>4, <1>5, <1>6

LEMMA ShellInit == Shell!Init => ShellInv
<1> SUFFICES ASSUME Shell!Init PROVE ShellInv
  OBVIOUS
<1>1. ShellProbes
  BY DEF Shell!Init, ShellProbes
<1>2. ShellWindow
  BY DEF Shell!Init, ShellWindow
<1>3. ShellKinds
  BY DEF Shell!Init, ShellKinds, Shell!Dialog
<1>4. ShellFlags
  BY DEF Shell!Init, ShellFlags
<1> QED
  BY <1>1, <1>2, <1>3, <1>4 DEF ShellInv

(* Steps that leave a part alone keep it.                                  *)
LEMMA ProbesKept ==
    ASSUME ShellProbes, UNCHANGED Shell!probing,
           (startup # "idle" /\ startup' # "idle") \/ startup' = startup
    PROVE  ShellProbes'
BY DEF ShellProbes, Shell!probing

LEMMA WindowKept ==
    ASSUME ShellWindow, UNCHANGED <<mode, Shell!screen>>, startup = "resolved" <=> startup' = "resolved"
    PROVE  ShellWindow'
BY DEF ShellWindow, Shell!screen

(* Of before-quit: with a server nothing but the timer is set; else the    *)
(* application exits, which has no server.                                 *)
LEMMA QuitKeeps ==
    ASSUME ShellWindow, ShellFlags, app = "up", NEW q \in BOOLEAN, Shell!Quit(q),
           UNCHANGED <<mode, Shell!process, startup>>
    PROVE  ShellWindow' /\ ShellFlags'
<1>1. UNCHANGED <<mode, server, handle, closing, killed, startup>>
  BY DEF Shell!process
<1>2. CASE handle
  BY <1>1, <1>2 DEF ShellWindow, ShellFlags, Shell!Quit, Shell!screen
<1>3. CASE ~handle
  <2>1. ShellWindow'
    BY <1>1, <1>3 DEF ShellWindow, Shell!Quit
  <2>2. ShellFlags'
    BY <1>1, <1>3 DEF ShellFlags, Shell!Quit
  <2> QED
    BY <2>1, <2>2
<1> QED
  BY <1>2, <1>3 DEF ShellFlags

LEMMA RejectKeeps ==
    ASSUME ShellWindow, ShellKinds, Shell!Reject, UNCHANGED mode
    PROVE  /\ ShellWindow' /\ startDialog' \in Shell!Dialog
           /\ startup' \in {"idle", "waiting", "resolved", "rejected"}
           /\ (startup # "idle" /\ startup' # "idle") \/ startup' = startup
<1>1. startup = "resolved" <=> startup' = "resolved"
  BY DEF Shell!Reject
<1>2. ShellWindow'
  BY <1>1, WindowKept DEF Shell!Reject
<1> QED
  BY <1>2 DEF Shell!Reject, ShellKinds, Shell!Dialog

LEMMA ResolveKeeps ==
    ASSUME ShellWindow, ShellKinds, Shell!Resolve, UNCHANGED mode
    PROVE  /\ ShellWindow' /\ startDialog' = startDialog
           /\ startup' \in {"idle", "waiting", "resolved", "rejected"}
           /\ (startup # "idle" /\ startup' # "idle") \/ startup' = startup
<1>1. CASE startup = "waiting"
  BY <1>1 DEF Shell!Resolve, Shell!CreateWindow, ShellWindow, ShellKinds
<1>2. CASE startup # "waiting"
  BY <1>2 DEF Shell!Resolve, Shell!screen, ShellWindow, ShellKinds
<1> QED
  BY <1>1, <1>2

LEMMA ShellStep ==
    ASSUME ShellInv, Shell!Next
    PROVE  ShellInv'
<1>1. ShellProbes /\ ShellWindow /\ ShellKinds /\ ShellFlags
  BY DEF ShellInv
<1>2. ASSUME ShellProbes', ShellWindow', ShellKinds', ShellFlags'
      PROVE  ShellInv'
  BY <1>2 DEF ShellInv
<1>3. ASSUME UNCHANGED <<mode, server, closing, startup, crashDialog, startDialog>>
      PROVE  ShellKinds'
  BY <1>1, <1>3 DEF ShellKinds
<1>4. ASSUME UNCHANGED <<Shell!quitting, handle, killed>>
      PROVE  ShellFlags'
  BY <1>1, <1>4 DEF ShellFlags, Shell!quitting
<1>5. CASE Shell!WhenReady
  <2>1. ShellProbes'
    <3>1. attempt' = 1 /\ probes' = 1 /\ timers' = 0 /\ startup' = "waiting"
      BY <1>1, <1>5 DEF Shell!WhenReady, ShellProbes
    <3>2. MaxRetries \in Nat /\ MaxRetries >= 1
      BY PartsAssumption
    <3> QED
      BY <3>1, <3>2 DEF ShellProbes
  <2>2. ShellWindow'
    BY <1>1, <1>5, WindowKept DEF Shell!WhenReady
  <2>3. ShellKinds'
    BY <1>1, <1>5 DEF Shell!WhenReady, ShellKinds, Shell!process, Shell!dialogs
  <2>4. ShellFlags'
    BY <1>1, <1>5 DEF Shell!WhenReady, ShellFlags, Shell!process, Shell!quitting
  <2> QED
    BY <1>2, <2>1, <2>2, <2>3, <2>4
<1>6. CASE Shell!SpawnError
  <2>1. ShellWindow' /\ startDialog' \in Shell!Dialog
        /\ startup' \in {"idle", "waiting", "resolved", "rejected"}
        /\ ((startup # "idle" /\ startup' # "idle") \/ startup' = startup)
    BY <1>1, <1>6, RejectKeeps DEF Shell!SpawnError
  <2>2. ShellProbes'
    BY <1>1, <1>6, <2>1, ProbesKept DEF Shell!SpawnError
  <2>3. ShellKinds'
    BY <1>1, <1>6, <2>1 DEF Shell!SpawnError, ShellKinds
  <2>4. ShellFlags'
    BY <1>4, <1>6 DEF Shell!SpawnError
  <2> QED
    BY <1>2, <2>1, <2>2, <2>3, <2>4
<1>7. CASE Shell!Connected
  <2>1. ShellWindow' /\ startDialog' = startDialog
        /\ startup' \in {"idle", "waiting", "resolved", "rejected"}
        /\ ((startup # "idle" /\ startup' # "idle") \/ startup' = startup)
    BY <1>1, <1>7, ResolveKeeps DEF Shell!Connected
  <2>2. ShellProbes'
    BY <1>1, <1>7, <2>1 DEF Shell!Connected, ShellProbes
  <2>3. ShellKinds'
    BY <1>1, <1>7, <2>1 DEF Shell!Connected, ShellKinds, Shell!process
  <2>4. ShellFlags'
    BY <1>4, <1>7 DEF Shell!Connected, Shell!process
  <2> QED
    BY <1>2, <2>1, <2>2, <2>3, <2>4
<1>8. ASSUME NEW r \in {1, 2}, Shell!ProbeFails(r)
      PROVE  ShellInv'
  <2>1. /\ probes > 0 /\ probes' = probes - 1 /\ attempt' = attempt
        /\ UNCHANGED <<mode, server, handle, closing, killed, Shell!quitting, crashDialog>>
    BY <1>8 DEF Shell!ProbeFails, Shell!process
  <2>2. ShellFlags'
    BY <1>4, <2>1
  <2>3. startup # "idle"
    BY <1>1, <2>1 DEF ShellProbes
  <2>4. MaxRetries \in Nat /\ MaxRetries >= 1
    BY PartsAssumption
  <2>5. CASE attempt >= MaxRetries
    <3>1. Shell!Reject /\ timers' = timers
      BY <1>8, <2>5 DEF Shell!ProbeFails
    <3>2. ShellWindow' /\ startDialog' \in Shell!Dialog
        /\ startup' \in {"idle", "waiting", "resolved", "rejected"}
        /\ ((startup # "idle" /\ startup' # "idle") \/ startup' = startup)
      BY <1>1, <2>1, <3>1, RejectKeeps
    <3>3. ShellKinds'
      BY <1>1, <2>1, <3>2 DEF ShellKinds
    <3>4. ShellProbes'
      BY <1>1, <2>1, <2>3, <2>4, <3>1, <3>2 DEF ShellProbes
    <3> QED
      BY <1>2, <2>2, <3>2, <3>3, <3>4
  <2>6. CASE ~(attempt >= MaxRetries)
    <3>1. timers' = timers + r /\ UNCHANGED <<startup, startDialog, Shell!screen>>
      BY <1>8, <2>6 DEF Shell!ProbeFails
    <3>2. ShellWindow'
      BY <1>1, <2>1, <3>1, WindowKept
    <3>3. ShellKinds'
      BY <1>3, <2>1, <3>1
    <3>4. ShellProbes'
      <4>1. /\ attempt \in Nat /\ probes \in Nat /\ timers \in Nat /\ probes <= attempt
            /\ attempt + timers <= 1 + 2 * (attempt - probes)
        BY <1>1, <2>3 DEF ShellProbes
      <4>2. /\ attempt' \in Nat /\ probes' \in Nat /\ timers' \in Nat /\ probes' <= attempt'
            /\ attempt' + timers' <= 1 + 2 * (attempt' - probes')
            /\ attempt' + timers' <= 2 * MaxRetries - 1
        BY <2>1, <2>4, <2>6, <3>1, <4>1
      <4> QED
        BY <2>3, <3>1, <4>2 DEF ShellProbes
    <3> QED
      BY <1>2, <2>2, <3>2, <3>3, <3>4
  <2> QED
    BY <2>5, <2>6
<1>9. CASE Shell!TryConnect
  <2>1. /\ timers > 0 /\ timers' = timers - 1 /\ attempt' = attempt + 1 /\ probes' = probes + 1
        /\ startup' = startup
    BY <1>9 DEF Shell!TryConnect
  <2>2. ShellProbes'
    <3>1. startup # "idle"
      BY <1>1, <2>1 DEF ShellProbes
    <3>2. /\ attempt \in Nat /\ probes \in Nat /\ timers \in Nat /\ probes <= attempt
          /\ attempt + timers <= 1 + 2 * (attempt - probes) /\ attempt + timers <= 2 * MaxRetries - 1
      BY <1>1, <3>1 DEF ShellProbes
    <3>3. /\ attempt' \in Nat /\ probes' \in Nat /\ timers' \in Nat /\ probes' <= attempt'
          /\ attempt' + timers' <= 1 + 2 * (attempt' - probes')
          /\ attempt' + timers' <= 2 * MaxRetries - 1
      BY <2>1, <3>2, PartsAssumption
    <3> QED
      BY <2>1, <3>1, <3>3 DEF ShellProbes
  <2>3. ShellWindow'
    BY <1>1, <1>9, WindowKept DEF Shell!TryConnect
  <2>4. ShellKinds'
    BY <1>3, <1>9 DEF Shell!TryConnect, Shell!process, Shell!dialogs
  <2>5. ShellFlags'
    BY <1>4, <1>9 DEF Shell!TryConnect, Shell!process
  <2> QED
    BY <1>2, <2>2, <2>3, <2>4, <2>5
<1>10. CASE Shell!ServerListens \/ Shell!ServerExits
  <2>1. /\ UNCHANGED <<mode, Shell!probing, handle, killed, Shell!screen, Shell!quitting, Shell!dialogs, startup>>
        /\ server' \in {"listening", "exited"} /\ closing' \in {closing, "zero", "error"}
    BY <1>10 DEF Shell!ServerListens, Shell!ServerExits
  <2>2. ShellProbes' /\ ShellWindow'
    BY <1>1, <2>1, ProbesKept, WindowKept
  <2>3. ShellKinds'
    BY <1>1, <2>1 DEF ShellKinds, Shell!dialogs
  <2>4. ShellFlags'
    BY <1>4, <2>1
  <2> QED
    BY <1>2, <2>2, <2>3, <2>4
<1>11. CASE Shell!ServerClosed
  <2>1. ShellProbes'
    BY <1>1, <1>11, ProbesKept DEF Shell!ServerClosed
  <2>2. ShellWindow'
    BY <1>1, <1>11 DEF Shell!ServerClosed, Shell!CloseWindow, ShellWindow
  <2>3. ShellKinds'
    BY <1>1, <1>11 DEF Shell!ServerClosed, ShellKinds, Shell!Dialog
  <2>4. ShellFlags'
    <3>1. UNCHANGED <<isQuitting, deadline, closer, killed>>
      BY <1>11 DEF Shell!ServerClosed
    <3>2. CASE closer
      <4>1. handle' = FALSE /\ app' = "exited"
        BY <1>11, <3>2 DEF Shell!ServerClosed
      <4> QED
        BY <1>1, <3>1, <4>1 DEF ShellFlags
    <3>3. CASE ~closer
      <4>1. handle' = handle /\ app' = app
        BY <1>11, <3>3 DEF Shell!ServerClosed
      <4> QED
        BY <1>1, <3>1, <4>1 DEF ShellFlags
    <3> QED
      BY <3>2, <3>3
  <2> QED
    BY <1>2, <2>1, <2>2, <2>3, <2>4
<1>12. CASE Shell!KillDeadline
  <2>1. ShellProbes' /\ ShellWindow'
    BY <1>1, <1>12, ProbesKept, WindowKept DEF Shell!KillDeadline
  <2>2. ShellKinds'
    BY <1>3, <1>12 DEF Shell!KillDeadline, Shell!dialogs
  <2>3. ShellFlags'
    <3>1. killed' = handle /\ deadline' = FALSE /\ app' = "exited" /\ handle' = handle
          /\ isQuitting' = isQuitting /\ closer' = closer
      BY <1>12 DEF Shell!KillDeadline
    <3> QED
      BY <1>1, <3>1, Zenon DEF ShellFlags
  <2> QED
    BY <1>2, <2>1, <2>2, <2>3
<1>13. ASSUME app = "up", NEW q \in BOOLEAN, Shell!Quit(q) \/ UNCHANGED <<Shell!quitting, Shell!screen>>,
              UNCHANGED <<mode, Shell!probing, Shell!process, startup>>,
              crashDialog' \in Shell!Dialog, startDialog' \in Shell!Dialog
       PROVE  ShellInv'
  <2>1. ShellProbes'
    BY <1>1, <1>13, ProbesKept
  <2>2. ShellKinds'
    BY <1>1, <1>13 DEF ShellKinds, Shell!process
  <2>3. CASE Shell!Quit(q)
    BY <1>1, <1>2, <1>13, <2>1, <2>2, <2>3, QuitKeeps
  <2>4. CASE UNCHANGED <<Shell!quitting, Shell!screen>>
    <3>1. ShellWindow'
      BY <1>1, <1>13, <2>4, WindowKept
    <3>2. ShellFlags'
      BY <1>4, <1>13, <2>4 DEF Shell!process
    <3> QED
      BY <1>2, <2>1, <2>2, <3>1, <3>2
  <2> QED
    BY <1>13, <2>3, <2>4
<1>14. isQuitting \in BOOLEAN /\ TRUE \in BOOLEAN
       /\ crashDialog \in Shell!Dialog /\ startDialog \in Shell!Dialog
       /\ {"log", "gone"} \subseteq Shell!Dialog
  BY <1>1 DEF ShellFlags, ShellKinds, Shell!Dialog
<1>15. CASE Shell!AnswerCrash
  <2>1. /\ app = "up" /\ (Shell!Quit(TRUE) \/ UNCHANGED <<Shell!quitting, Shell!screen>>)
        /\ UNCHANGED <<mode, Shell!probing, Shell!process, startup>>
        /\ crashDialog' \in {"log", "gone"} /\ startDialog' = startDialog
    BY <1>15 DEF Shell!AnswerCrash
  <2> QED
    BY <1>13, <1>14, <2>1
<1>16. CASE Shell!AnswerStart
  <2>1. /\ app = "up" /\ (Shell!Quit(isQuitting) \/ UNCHANGED <<Shell!quitting, Shell!screen>>)
        /\ UNCHANGED <<mode, Shell!probing, Shell!process, startup>>
        /\ startDialog' \in {"log", "gone"} /\ crashDialog' = crashDialog
    BY <1>16 DEF Shell!AnswerStart
  <2> QED
    BY <1>13, <1>14, <2>1
<1>17. CASE Shell!TrayQuit
  <2>1. /\ app = "up" /\ Shell!Quit(TRUE) /\ UNCHANGED <<mode, Shell!probing, Shell!process, startup>>
        /\ startDialog' = startDialog /\ crashDialog' = crashDialog
    BY <1>17 DEF Shell!TrayQuit, Shell!dialogs
  <2> QED
    BY <1>13, <1>14, <2>1
<1>18. CASE Shell!MenuQuit
  <2>1. /\ app = "up" /\ Shell!Quit(isQuitting) /\ UNCHANGED <<mode, Shell!probing, Shell!process, startup>>
        /\ startDialog' = startDialog /\ crashDialog' = crashDialog
    BY <1>18 DEF Shell!MenuQuit, Shell!dialogs
  <2> QED
    BY <1>13, <1>14, <2>1
<1>19. CASE Shell!TrayShow \/ Shell!TrayClick \/ Shell!UserCloses \/ Shell!Activate
  <2>1. UNCHANGED <<mode, Shell!probing, Shell!process, tray, Shell!quitting, Shell!dialogs, startup>>
    BY <1>19 DEF Shell!TrayShow, Shell!TrayClick, Shell!UserCloses, Shell!Activate
  <2>2. ShellProbes' /\ ShellKinds' /\ ShellFlags'
    BY <1>1, <1>3, <1>4, <2>1, ProbesKept DEF Shell!process, Shell!dialogs
  <2>3. ShellWindow'
    <3>1. mode' = mode /\ tray' = tray /\ startup' = startup
      BY <2>1
    <3>2. CASE Shell!TrayShow
      BY <1>1, <3>1, <3>2 DEF ShellWindow, Shell!TrayShow, Shell!CreateWindow
    <3>3. CASE Shell!TrayClick
      BY <1>1, <3>1, <3>3 DEF ShellWindow, Shell!TrayClick, Shell!CreateWindow
    <3>4. CASE Shell!UserCloses
      BY <1>1, <3>1, <3>4 DEF ShellWindow, Shell!UserCloses, Shell!CloseWindow
    <3>5. CASE Shell!Activate
      BY <1>1, <3>1, <3>5 DEF ShellWindow, Shell!Activate, Shell!CreateWindow
    <3> QED
      BY <1>19, <3>2, <3>3, <3>4, <3>5
  <2> QED
    BY <1>2, <2>2, <2>3
<1>20. CASE Shell!Refused \/ Shell!Timeout
  BY <1>8, <1>20 DEF Shell!Refused, Shell!Timeout
<1> QED
  BY <1>5, <1>6, <1>7, <1>9, <1>10, <1>11, <1>12, <1>15, <1>16, <1>17, <1>18, <1>19, <1>20 DEF Shell!Next

-----------------------------------------------------------------------------
(* The chat with the Clawd agent.                                          *)

ChatMessage == [by : {"user", "agent", "note"}, ask : Chat!Ask, session : Chat!Session]
ChatRun == [at : {"idle", "fetch", "json", "read", "lines"}, ask : 0..MaxAsks,
            session : Chat!Session, lines : Nat, text : Nat, closure : Nat]
ChatAgent == [ask : Chat!Ask, session : Chat!Session, left : 0..MaxPieces]

ChatTypes ==
    /\ chatOpen \in BOOLEAN /\ dot \in BOOLEAN /\ crossed \in BOOLEAN
    /\ session \in Chat!Session /\ asks \in Nat /\ asks <= MaxAsks
    /\ messages \in Seq(ChatMessage)
    /\ run \in ChatRun /\ wire \in [got : Nat, closed : BOOLEAN]
    /\ agents \subseteq ChatAgent
    /\ aborted \subseteq Chat!Ask /\ silent \subseteq Chat!Ask /\ lost \subseteq Chat!Ask

(* handleSend runs for the last question, and can be stopped until it was. *)
ChatRuns ==
    /\ loading \in BOOLEAN
    /\ loading <=> run.at # "idle"
    /\ run.at = "idle" => run = Chat!Idle /\ streaming = 0
    /\ run.at # "idle" => run.ask = asks /\ asks # 0
    /\ run.closure = 0
    /\ run.at \in {"fetch", "json"} => run.text = 0
    /\ run.at \in {"fetch", "json", "read"} => run.lines = 0
    /\ streaming \in Nat /\ streaming <= run.text
    /\ abortRef \in {0, run.ask}
    /\ run.at # "idle" => abortRef = run.ask \/ run.ask \in aborted

(* What was read, what arrived and what is to come make one answer.        *)
ChatPieces ==
    /\ run.text + run.lines + wire.got <= MaxPieces
    /\ \A a \in agents : a.ask = run.ask =>
          run.text + run.lines + wire.got + a.left <= MaxPieces

(* An agent works on the question that runs, or on one that was given up.  *)
ChatAgents ==
    /\ \A a \in agents : a.ask <= asks
    /\ \A a, b \in agents : a.ask = b.ask => a = b
    /\ \A a \in agents : a.ask = run.ask \/ a.ask \in aborted \cup lost
    /\ run.at = "json" \/ wire.closed => \A a \in agents : a.ask # run.ask

(* A question is answered unless it was given up or is being answered; an  *)
(* answer to an older session is one that can no longer come.              *)
Answered(ms, i) ==
    /\ i + 1 \in DOMAIN ms
    /\ ms[i + 1].by # "user" /\ ms[i + 1].ask = ms[i].ask
ChatAnswers ==
    \A i \in DOMAIN messages :
        messages[i].by = "user" /\ messages[i].ask \notin (aborted \cup silent) =>
            \/ Answered(messages, i)
            \/ run.at # "idle" /\ i = Len(messages) /\ messages[i].ask = run.ask
ChatSessions ==
    ~crossed =>
        /\ \A i \in DOMAIN messages : messages[i].session = session
        /\ streaming > 0 => run.session = session
        /\ run.at # "idle" /\ run.session # session =>
              run.at \in {"fetch", "read"} /\ run.ask \in aborted /\ ~wire.closed

(* Each question adds two messages at most.                                *)
ChatCounts ==
    /\ Len(messages) <= 2 * asks
    /\ run.at # "idle" => Len(messages) + 1 <= 2 * asks
    /\ seen \in Nat /\ seen <= 2 * asks
    /\ Chat!NothingMissed

ChatInv ==
    /\ ChatTypes /\ ChatRuns /\ ChatPieces /\ ChatAgents
    /\ ChatAnswers /\ ChatSessions /\ ChatCounts

LEMMA ChatHolds ==
    ASSUME ChatInv
    PROVE  /\ Chat!TypeOK /\ Chat!SessionClean /\ Chat!EveryQuestionAnswered
           /\ Chat!OneRunPerSession /\ Chat!NothingMissed
<1>1. ChatTypes /\ ChatRuns /\ ChatPieces /\ ChatAgents /\ ChatAnswers /\ ChatSessions /\ ChatCounts
  BY DEF ChatInv
<1>2. MaxAsks \in Nat /\ MaxPieces \in Nat
  BY PartsAssumption
<1>3. Chat!TypeOK
  <2>1. {chatOpen, dot, loading, crossed} \subseteq BOOLEAN
    BY <1>1, Zenon DEF ChatTypes, ChatRuns
  <2>2. /\ run.ask \in 0..MaxAsks /\ run.lines \in Nat /\ run.text \in Nat /\ run.closure = 0
        /\ wire.got \in Nat /\ wire.closed \in BOOLEAN /\ asks \in Nat /\ asks <= MaxAsks
        /\ run.at \in {"idle", "fetch", "json", "read", "lines"} /\ run.session \in Chat!Session
        /\ run = [at |-> run.at, ask |-> run.ask, session |-> run.session, lines |-> run.lines,
                  text |-> run.text, closure |-> run.closure]
        /\ wire = [got |-> wire.got, closed |-> wire.closed]
    BY <1>1 DEF ChatTypes, ChatRun, ChatRuns
  <2>3. abortRef \in 0..MaxAsks /\ asks \in 0..MaxAsks
    BY <1>1, <1>2, <2>2 DEF ChatRuns
  <2>4. seen \in 0..(2 * MaxAsks)
    BY <1>1, <1>2, <2>2 DEF ChatCounts
  <2>5. run.lines \in 0..MaxPieces /\ run.text \in 0..MaxPieces /\ wire.got \in 0..MaxPieces
        /\ run.closure \in 0..MaxPieces
    BY <1>1, <1>2, <2>2 DEF ChatPieces
  <2>6. streaming \in 0..MaxPieces
    BY <1>1, <1>2, <2>5 DEF ChatRuns
  <2>7. run \in [at : {"idle", "fetch", "json", "read", "lines"}, ask : 0..MaxAsks,
                session : Chat!Session, lines : 0..MaxPieces, text : 0..MaxPieces,
                closure : 0..MaxPieces]
    BY <2>2, <2>5
  <2>8. wire \in [got : 0..MaxPieces, closed : BOOLEAN]
    BY <2>2, <2>5
  <2>9. \A i \in DOMAIN messages : messages[i] \in ChatMessage
    BY <1>1 DEF ChatTypes
  <2> QED
    BY <1>1, <2>1, <2>3, <2>4, <2>6, <2>7, <2>8, <2>9, Zenon
       DEF Chat!TypeOK, ChatTypes, ChatMessage, ChatAgent
<1>4. Chat!SessionClean
  BY <1>1 DEF ChatSessions, Chat!SessionClean
<1>5. Chat!EveryQuestionAnswered
  BY <1>1 DEF ChatAnswers, ChatRuns, Answered, Chat!EveryQuestionAnswered
<1>6. Chat!OneRunPerSession
  <2> SUFFICES ASSUME NEW a \in agents, NEW b \in agents, a.ask < b.ask
               PROVE  a.ask \in aborted \cup lost
    BY DEF Chat!OneRunPerSession
  <2>1. a.ask \in Nat /\ b.ask \in Nat /\ a.ask # 0 /\ b.ask <= asks /\ asks \in Nat
    BY <1>1, <1>2 DEF ChatTypes, ChatAgent, ChatAgents, Chat!Ask
  <2>2. run.ask = asks \/ run.ask = 0
    BY <1>1 DEF ChatRuns, Chat!Idle
  <2>3. a.ask # run.ask
    BY <2>1, <2>2
  <2> QED
    BY <1>1, <2>3 DEF ChatAgents
<1> QED
  BY <1>1, <1>3, <1>4, <1>5, <1>6 DEF ChatCounts

LEMMA ChatInit == Chat!Init => ChatInv
<1> SUFFICES ASSUME Chat!Init PROVE ChatInv
  OBVIOUS
<1>1. /\ run = Chat!Idle /\ run.at = "idle" /\ run.ask = 0 /\ run.lines = 0 /\ run.text = 0 /\ run.closure = 0
      /\ wire.got = 0 /\ wire.closed = FALSE
  BY DEF Chat!Init, Chat!Idle, Chat!NoWire
<1>2. 1 \in Chat!Session /\ MaxPieces \in Nat /\ MaxAsks \in Nat
  BY PartsAssumption DEF Chat!Session
<1>3. run \in ChatRun
  BY <1>2 DEF Chat!Init, Chat!Idle, ChatRun
<1>4. wire \in [got : Nat, closed : BOOLEAN]
  BY DEF Chat!Init, Chat!NoWire
<1>5. messages = <<>> /\ Len(messages) = 0 /\ DOMAIN messages = {} /\ messages \in Seq(ChatMessage)
  BY DEF Chat!Init
<1>6. ChatTypes
  <2>1. chatOpen \in BOOLEAN /\ dot \in BOOLEAN /\ crossed \in BOOLEAN
    BY Zenon DEF Chat!Init
  <2>2. asks = 0 /\ agents = {} /\ aborted = {} /\ silent = {} /\ lost = {} /\ session = 1
    BY DEF Chat!Init
  <2>3. asks \in Nat /\ asks <= MaxAsks /\ session \in Chat!Session
    BY <1>2, <2>2
  <2> QED
    BY <1>3, <1>4, <1>5, <2>1, <2>2, <2>3, Zenon DEF ChatTypes
<1>7. ChatRuns
  <2>1. streaming = 0 /\ abortRef = 0
    BY DEF Chat!Init
  <2>2. loading \in BOOLEAN /\ ~loading
    BY Zenon DEF Chat!Init
  <2>3. streaming \in Nat /\ streaming <= run.text
    BY <1>1, <2>1
  <2> QED
    BY <1>1, <2>1, <2>2, <2>3 DEF ChatRuns
<1>8. ChatPieces /\ ChatAgents
  BY <1>1, <1>2 DEF Chat!Init, ChatPieces, ChatAgents
<1>9. ChatAnswers /\ ChatSessions
  BY <1>1, <1>5 DEF Chat!Init, ChatAnswers, ChatSessions
<1>10. ChatCounts
  BY <1>1, <1>5 DEF Chat!Init, ChatCounts, Chat!NothingMissed
<1> QED
  BY <1>6, <1>7, <1>8, <1>9, <1>10 DEF ChatInv

(* handleSend goes on to its next await.                                   *)
LEMMA ChatGoesOn ==
    ASSUME ChatInv, run.at # "idle", run' \in ChatRun, run'.at # "idle",
           run'.ask = run.ask, run'.session = run.session, run'.closure = run.closure,
           wire' \in [got : Nat, closed : BOOLEAN], wire'.closed = wire.closed,
           run'.text + run'.lines + wire'.got = run.text + run.lines + wire.got,
           run'.at \in {"fetch", "json"} => run'.text = 0,
           run'.at \in {"fetch", "json", "read"} => run'.lines = 0,
           streaming' \in Nat, streaming' <= run'.text,
           run'.at = "json" => \A a \in agents : a.ask # run.ask,
           ~crossed => run.session = session,
           UNCHANGED <<chatOpen, dot, seen, session, messages, loading, abortRef, agents, aborted,
                       asks, silent, lost, crossed>>
    PROVE  ChatInv'
<1>1. ChatTypes /\ ChatRuns /\ ChatPieces /\ ChatAgents /\ ChatAnswers /\ ChatSessions /\ ChatCounts
  BY DEF ChatInv
<1>2. ChatTypes'
  BY <1>1 DEF ChatTypes
<1>3. ChatRuns'
  BY <1>1 DEF ChatRuns
<1>4. ChatPieces'
  BY <1>1 DEF ChatPieces
<1>5. ChatAgents'
  BY <1>1 DEF ChatAgents
<1>6. ChatAnswers'
  BY <1>1 DEF ChatAnswers
<1>7. ChatSessions'
  BY <1>1 DEF ChatSessions
<1>8. ChatCounts'
  BY <1>1 DEF ChatCounts, Chat!NothingMissed
<1> QED
  BY <1>2, <1>3, <1>4, <1>5, <1>6, <1>7, <1>8 DEF ChatInv

(* handleSend is over: with an answer, or for a question that is not to    *)
(* have one.                                                               *)
LEMMA ChatEnded ==
    ASSUME ChatInv, run.at # "idle", NEW ms, Chat!Finish(ms),
           UNCHANGED <<chatOpen, session, wire, agents, aborted, asks, crossed>>,
           silent \subseteq silent', silent' \subseteq Chat!Ask,
           lost \subseteq lost', lost' \subseteq Chat!Ask,
           \A a \in agents : a.ask = run.ask => a.ask \in aborted \cup lost',
           \/ ms = messages /\ run.ask \in aborted \cup silent'
           \/ \E m \in ChatMessage :
                 /\ ms = Append(messages, m) /\ m.ask = run.ask /\ m.by # "user"
                 /\ ~crossed => m.session = session
    PROVE  ChatInv'
<1>1. ChatTypes /\ ChatRuns /\ ChatPieces /\ ChatAgents /\ ChatAnswers /\ ChatSessions /\ ChatCounts
  BY DEF ChatInv
<1>2. /\ messages' = ms /\ run' = Chat!Idle /\ streaming' = 0 /\ abortRef' = 0
      /\ seen' = IF chatOpen THEN Len(ms) ELSE seen
  BY DEF Chat!Finish
<1>3. loading' = FALSE /\ dot' = (dot \/ ~chatOpen)
  BY DEF Chat!Finish
<1>4. /\ run'.at = "idle" /\ run'.ask = 0 /\ run'.lines = 0 /\ run'.text = 0 /\ run'.closure = 0
      /\ run' \in ChatRun
  <2>1. 1 \in Chat!Session /\ MaxAsks \in Nat
    BY PartsAssumption DEF Chat!Session
  <2> QED
    BY <1>2, <2>1 DEF Chat!Idle, ChatRun
<1>5. ms \in Seq(ChatMessage) /\ Len(ms) \in Nat /\ Len(ms) <= Len(messages) + 1
  BY <1>1 DEF ChatTypes
<1>6. ChatTypes'
  <2>1. dot' \in BOOLEAN /\ chatOpen' \in BOOLEAN /\ crossed' \in BOOLEAN
    <3>1. dot \in BOOLEAN /\ chatOpen \in BOOLEAN /\ crossed \in BOOLEAN
      BY <1>1 DEF ChatTypes
    <3> QED
      BY <1>3, <3>1, Zenon
  <2> QED
    BY <1>1, <1>2, <1>4, <1>5, <2>1 DEF ChatTypes
<1>7. ChatRuns'
  <2>1. loading' \in BOOLEAN /\ ~loading'
    BY <1>3, Zenon
  <2>2. streaming' \in Nat /\ streaming' <= run'.text
    BY <1>2, <1>4
  <2> QED
    BY <1>2, <1>4, <2>1, <2>2 DEF ChatRuns
<1>8. ChatPieces'
  <2>1. run.text \in Nat /\ run.lines \in Nat /\ wire.got \in Nat
        /\ run.text + run.lines + wire.got <= MaxPieces /\ MaxPieces \in Nat
    BY <1>1, PartsAssumption DEF ChatTypes, ChatRun, ChatPieces
  <2>2. wire' = wire /\ agents' = agents
    OBVIOUS
  <2>3. \A a \in agents : a.ask # 0
    BY <1>1, PartsAssumption DEF ChatTypes, ChatAgent, Chat!Ask
  <2>4. run'.text + run'.lines + wire'.got <= MaxPieces
    BY <1>4, <2>1, <2>2
  <2> QED
    BY <1>4, <2>2, <2>3, <2>4 DEF ChatPieces
<1>9. ChatAgents'
  <2>1. \A a \in agents : a.ask # 0
    BY <1>1, PartsAssumption DEF ChatTypes, ChatAgent, Chat!Ask
  <2> QED
    BY <1>1, <1>4, <2>1 DEF ChatAgents
<1>10. ChatAnswers' /\ ChatSessions'
  <2>1. CASE ms = messages /\ run.ask \in aborted \cup silent'
    <3>1. ChatAnswers'
      BY <1>1, <1>2, <1>4, <2>1 DEF ChatAnswers
    <3>2. ChatSessions'
      BY <1>1, <1>2, <1>4, <2>1 DEF ChatSessions
    <3> QED
      BY <3>1, <3>2
  <2>2. ASSUME NEW m \in ChatMessage, ms = Append(messages, m), m.ask = run.ask, m.by # "user",
               ~crossed => m.session = session
        PROVE  ChatAnswers' /\ ChatSessions'
    <3> DEFINE n == Len(messages)
    <3>1. /\ n \in Nat /\ DOMAIN messages = 1..n /\ DOMAIN ms = 1..(n + 1)
          /\ ms[n + 1] = m /\ \A i \in 1..n : ms[i] = messages[i]
      BY <1>1, <2>2 DEF ChatTypes
    <3> HIDE DEF n
    <3>2. ChatAnswers'
      <4> SUFFICES ASSUME NEW i \in 1..(n + 1), ms[i].by = "user", ms[i].ask \notin (aborted \cup silent)'
                   PROVE  Answered(ms, i)
        BY <1>2, <3>1 DEF ChatAnswers
      <4>1. i \in 1..n /\ i # n + 1
        BY <2>2, <3>1
      <4>2. messages[i].by = "user" /\ messages[i].ask \notin (aborted \cup silent)
        BY <3>1, <4>1
      <4>3. CASE Answered(messages, i)
        <5>1. i + 1 \in 1..n /\ messages[i + 1].by # "user" /\ messages[i + 1].ask = messages[i].ask
          BY <3>1, <4>3 DEF Answered
        <5>2. i + 1 \in 1..(n + 1)
          BY <3>1, <4>1
        <5> QED
          BY <3>1, <4>1, <5>1, <5>2 DEF Answered
      <4>4. CASE i = n /\ messages[i].ask = run.ask
        <5>1. i + 1 \in 1..(n + 1) /\ ms[i + 1] = m
          BY <3>1, <4>1, <4>4
        <5> QED
          BY <2>2, <3>1, <4>1, <4>4, <5>1 DEF Answered
      <4> QED
        BY <1>1, <3>1, <4>1, <4>2, <4>3, <4>4 DEF ChatAnswers, n
    <3>3. ChatSessions'
      <4> SUFFICES ASSUME ~crossed, NEW i \in 1..(n + 1)
                   PROVE  ms[i].session = session
        BY <1>2, <1>4, <3>1 DEF ChatSessions
      <4>1. CASE i = n + 1
        BY <2>2, <3>1, <4>1
      <4>2. CASE i # n + 1
        <5>1. i \in 1..n
          BY <3>1, <4>2
        <5> QED
          BY <1>1, <3>1, <5>1 DEF ChatSessions
      <4> QED
        BY <4>1, <4>2
    <3> QED
      BY <3>2, <3>3
  <2> QED
    BY <2>1, <2>2
<1>11. ChatCounts'
  <2>1. asks \in Nat /\ asks' = asks /\ seen \in Nat /\ seen <= 2 * asks /\ Len(messages) \in Nat
        /\ Len(messages) + 1 <= 2 * asks
    BY <1>1 DEF ChatTypes, ChatCounts
  <2>2. Len(messages') <= 2 * asks' /\ Len(messages') \in Nat
    BY <1>2, <1>5, <2>1
  <2>3. seen' \in Nat /\ seen' <= 2 * asks'
    BY <1>2, <2>1, <2>2
  <2>4. Chat!NothingMissed'
    <3>1. CASE chatOpen
      BY <3>1 DEF Chat!NothingMissed
    <3>2. CASE ~chatOpen
      <4>1. dot'
        BY <1>3, <3>2, Zenon
      <4> QED
        BY <4>1 DEF Chat!NothingMissed
    <3> QED
      BY <3>1, <3>2
  <2> QED
    BY <1>4, <2>2, <2>3, <2>4 DEF ChatCounts
<1> QED
  BY <1>6, <1>7, <1>8, <1>9, <1>10, <1>11 DEF ChatInv

LEMMA ChatStep ==
    ASSUME ChatInv, Chat!Next
    PROVE  ChatInv'
<1>1. ChatTypes /\ ChatRuns /\ ChatPieces /\ ChatAgents /\ ChatAnswers /\ ChatSessions /\ ChatCounts
  BY DEF ChatInv
<1>2. ASSUME ChatTypes', ChatRuns', ChatPieces', ChatAgents', ChatAnswers', ChatSessions', ChatCounts'
      PROVE  ChatInv'
  BY <1>2 DEF ChatInv
<1>3. /\ run.at \in {"idle", "fetch", "json", "read", "lines"} /\ run.ask \in 0..MaxAsks
      /\ run.session \in Chat!Session /\ run.lines \in Nat /\ run.text \in Nat /\ run.closure = 0
      /\ run.closure \in Nat /\ wire.got \in Nat /\ wire.closed \in BOOLEAN
      /\ run \in ChatRun /\ wire \in [got : Nat, closed : BOOLEAN]
  BY <1>1 DEF ChatTypes, ChatRun, ChatRuns
<1>4. /\ asks \in Nat /\ asks <= MaxAsks /\ MaxAsks \in Nat /\ MaxPieces \in Nat
      /\ messages \in Seq(ChatMessage) /\ Len(messages) \in Nat /\ DOMAIN messages = 1..Len(messages)
      /\ session \in Chat!Session
  BY <1>1, PartsAssumption DEF ChatTypes
<1>5. ASSUME run.at # "idle"
      PROVE  run.ask = asks /\ run.ask \in Chat!Ask
  <2>1. run.ask = asks /\ asks # 0
    BY <1>1, <1>5 DEF ChatRuns
  <2> QED
    BY <1>4, <2>1 DEF Chat!Ask
<1>6. ASSUME run.at # "idle", NEW w \in {"agent", "note"}
      PROVE  Chat!Message(w) \in ChatMessage /\ Chat!Message(w).ask = run.ask
             /\ Chat!Message(w).by # "user" /\ Chat!Message(w).session = run.session
  BY <1>3, <1>5, <1>6 DEF Chat!Message, ChatMessage
<1>7. \A a \in agents : /\ a \in ChatAgent /\ a.ask \in Nat /\ a.ask # 0 /\ a.ask <= asks
                        /\ a.left \in Nat /\ a.left <= MaxPieces /\ a.ask \in Chat!Ask
                        /\ a.session \in Chat!Session
  BY <1>1, <1>4 DEF ChatTypes, ChatAgent, ChatAgents, Chat!Ask
<1>8. CASE Chat!HandleSend
  <2>1. /\ asks < MaxAsks /\ asks' = asks + 1 /\ streaming' = 0 /\ abortRef' = asks + 1
        /\ run' = [at |-> "fetch", ask |-> asks + 1, session |-> session, lines |-> 0, text |-> 0,
                   closure |-> streaming]
        /\ messages' = Append(messages, [by |-> "user", ask |-> asks + 1, session |-> session])
        /\ seen' = Len(messages') /\ wire' = Chat!NoWire
    BY <1>8 DEF Chat!HandleSend
  <2>2. UNCHANGED <<chatOpen, dot, session, agents, aborted, silent, lost, crossed>>
    BY <1>8 DEF Chat!HandleSend, Chat!history
  <2>3. chatOpen /\ loading' = TRUE /\ run.at = "idle" /\ streaming = 0
    BY <1>1, <1>8 DEF Chat!HandleSend, Chat!CanSend, ChatRuns
  <2>4. asks + 1 \in Chat!Ask /\ asks + 1 \in 0..MaxAsks
    BY <1>4, <2>1 DEF Chat!Ask
  <2>5. /\ run'.at = "fetch" /\ run'.ask = asks + 1 /\ run'.session = session /\ run'.lines = 0
        /\ run'.text = 0 /\ run'.closure = 0 /\ run' \in ChatRun
    BY <1>4, <2>1, <2>3, <2>4 DEF ChatRun
  <2>6. wire'.got = 0 /\ wire'.closed = FALSE /\ wire' \in [got : Nat, closed : BOOLEAN]
    BY <2>1 DEF Chat!NoWire
  <2> DEFINE m == [by |-> "user", ask |-> asks + 1, session |-> session]
             n == Len(messages)
  <2>7. m \in ChatMessage
    BY <1>4, <2>4 DEF ChatMessage
  <2>8. m.ask = asks + 1 /\ m.session = session
    OBVIOUS
  <2>9. messages' = Append(messages, m)
    BY <2>1
  <2> HIDE DEF m
  <2>10. /\ messages' \in Seq(ChatMessage) /\ Len(messages') = n + 1 /\ DOMAIN messages' = 1..(n + 1)
         /\ messages'[n + 1] = m /\ \A i \in 1..n : messages'[i] = messages[i]
    BY <1>4, <2>7, <2>9
  <2> HIDE DEF n
  <2>11. ChatTypes'
    <3>1. chatOpen' \in BOOLEAN /\ dot' \in BOOLEAN /\ crossed' \in BOOLEAN
      BY <1>1, <2>2 DEF ChatTypes
    <3>2. asks' \in Nat /\ asks' <= MaxAsks
      BY <1>4, <2>1
    <3> QED
      BY <1>1, <1>4, <2>2, <2>5, <2>6, <2>10, <3>1, <3>2 DEF ChatTypes
  <2>12. ChatRuns'
    <3>1. loading' \in BOOLEAN /\ loading'
      BY <2>3, Zenon
    <3>2. streaming' \in Nat /\ streaming' <= run'.text /\ asks' # 0 /\ run'.ask = asks'
      BY <1>4, <2>1, <2>5
    <3>3. abortRef' = run'.ask
      BY <2>1, <2>5
    <3> QED
      BY <2>5, <3>1, <3>2, <3>3 DEF ChatRuns
  <2>13. \A a \in agents' : a.ask # run'.ask /\ a.ask <= asks'
    BY <1>4, <1>7, <2>1, <2>2, <2>5
  <2>14. ChatPieces'
    BY <1>4, <2>5, <2>6, <2>13 DEF ChatPieces
  <2>15. ChatAgents'
    <3>1. \A a \in agents : a.ask # run.ask
      BY <1>1, <1>7, <2>3 DEF ChatRuns, Chat!Idle
    <3> QED
      BY <1>1, <2>2, <2>13, <3>1 DEF ChatAgents
  <2>16. ChatAnswers'
    <3> SUFFICES ASSUME NEW i \in 1..(n + 1), messages'[i].by = "user",
                        messages'[i].ask \notin aborted \cup silent
                 PROVE  \/ Answered(messages', i)
                        \/ i = n + 1 /\ messages'[i].ask = run'.ask
      BY <2>2, <2>5, <2>10 DEF ChatAnswers
    <3>1. CASE i = n + 1
      BY <2>5, <2>8, <2>10, <3>1
    <3>2. CASE i # n + 1
      <4>1. n \in Nat /\ i \in 1..n
        BY <1>4, <3>2 DEF n
      <4>2. Answered(messages, i)
        BY <1>1, <1>4, <2>3, <2>10, <4>1 DEF ChatAnswers, n
      <4>3. i + 1 \in 1..n
        BY <1>4, <4>2 DEF Answered, n
      <4>4. i + 1 \in 1..(n + 1)
        BY <4>1
      <4> QED
        BY <2>10, <4>1, <4>2, <4>3, <4>4 DEF Answered
    <3> QED
      BY <3>1, <3>2
  <2>17. ChatSessions'
    <3>1. streaming' = 0 /\ crossed' = crossed /\ session' = session /\ run'.session = session
      BY <2>1, <2>2, <2>5
    <3>2. ASSUME ~crossed, NEW i \in 1..(n + 1)
          PROVE  messages'[i].session = session
      <4>1. CASE i = n + 1
        BY <2>8, <2>10, <4>1
      <4>2. CASE i # n + 1
        <5>1. i \in 1..n
          BY <1>4, <4>2 DEF n
        <5> QED
          BY <1>1, <1>4, <2>10, <3>2, <5>1 DEF ChatSessions, n
      <4> QED
        BY <4>1, <4>2
    <3> QED
      BY <2>10, <3>1, <3>2 DEF ChatSessions
  <2>18. ChatCounts'
    <3>1. n \in Nat /\ n <= 2 * asks
      BY <1>1, <1>4 DEF ChatCounts, n
    <3>2. Len(messages') + 1 <= 2 * asks' /\ Len(messages') <= 2 * asks' /\ seen' \in Nat /\ seen' <= 2 * asks'
      BY <1>4, <2>1, <2>10, <3>1
    <3>3. Chat!NothingMissed'
      BY <2>2, <2>3 DEF Chat!NothingMissed
    <3> QED
      BY <3>2, <3>3 DEF ChatCounts
  <2> QED
    BY <1>2, <2>11, <2>12, <2>14, <2>15, <2>16, <2>17, <2>18
<1>9. CASE Chat!HandleStop
  <2>1. /\ aborted' = aborted \cup {abortRef} /\ abortRef # 0
        /\ UNCHANGED <<chatOpen, dot, seen, session, messages, loading, streaming, abortRef, run,
                       wire, agents, asks, silent, lost, crossed>>
    BY <1>9 DEF Chat!HandleStop, Chat!panel, Chat!screen, Chat!history
  <2>2. run.at # "idle" /\ abortRef = run.ask
    BY <1>1, <2>1 DEF ChatRuns, Chat!Idle
  <2>3. aborted \subseteq aborted' /\ aborted' \subseteq Chat!Ask
    BY <1>1, <1>5, <2>1, <2>2 DEF ChatTypes
  <2>4. ChatTypes'
    BY <1>1, <2>1, <2>3 DEF ChatTypes
  <2>5. ChatRuns'
    BY <1>1, <2>1, <2>3 DEF ChatRuns
  <2>6. ChatPieces' /\ ChatCounts'
    BY <1>1, <2>1 DEF ChatPieces, ChatCounts, Chat!NothingMissed
  <2>7. ChatAgents'
    BY <1>1, <2>1, <2>3 DEF ChatAgents
  <2>8. ChatAnswers'
    BY <1>1, <2>1, <2>3 DEF ChatAnswers
  <2>9. ChatSessions'
    BY <1>1, <2>1, <2>3 DEF ChatSessions
  <2> QED
    BY <1>2, <2>4, <2>5, <2>6, <2>7, <2>8, <2>9
<1>10. CASE Chat!HandleNewSession
  <2>1. /\ session < MaxSessions /\ aborted' = aborted \cup ({abortRef} \ {0}) /\ abortRef' = 0
        /\ messages' = <<>> /\ seen' = 0 /\ streaming' = 0 /\ session' = session + 1
        /\ UNCHANGED <<chatOpen, dot, loading, run, wire, agents, asks, silent, lost>>
    BY <1>10 DEF Chat!HandleNewSession, Chat!Abort
  <2>2. crossed' = (crossed \/ run.at \in {"json", "lines"} \/ (run.at # "idle" /\ wire.closed))
    BY <1>10 DEF Chat!HandleNewSession
  <2>3. chatOpen
    BY <1>10 DEF Chat!HandleNewSession
  <2>4. aborted \subseteq aborted' /\ aborted' \subseteq Chat!Ask
    <3>1. abortRef # 0 => run.at # "idle" /\ abortRef = run.ask
      BY <1>1 DEF ChatRuns, Chat!Idle
    <3> QED
      BY <1>1, <1>5, <2>1, <3>1 DEF ChatTypes
  <2>5. run.at # "idle" => run.ask \in aborted'
    <3>1. run.at # "idle" => run.ask # 0
      BY <1>5, <1>4 DEF Chat!Ask
    <3> QED
      BY <1>1, <2>1, <3>1 DEF ChatRuns
  <2>6. session' \in Chat!Session /\ MaxSessions \in Nat
    BY <1>4, <2>1, PartsAssumption DEF Chat!Session
  <2>7. messages' \in Seq(ChatMessage) /\ Len(messages') = 0 /\ DOMAIN messages' = {}
    BY <2>1
  <2>8. ChatTypes'
    <3>1. crossed' \in BOOLEAN
      BY <2>2, Zenon
    <3> QED
      BY <1>1, <2>1, <2>4, <2>6, <2>7, <3>1 DEF ChatTypes
  <2>9. ChatRuns'
    <3>1. streaming' \in Nat /\ streaming' <= run'.text /\ run' = run /\ asks' = asks
      BY <1>3, <2>1
    <3> QED
      BY <1>1, <2>1, <2>4, <2>5, <3>1 DEF ChatRuns
  <2>10. ChatPieces'
    BY <1>1, <2>1 DEF ChatPieces
  <2>11. ChatAgents'
    BY <1>1, <2>1, <2>4 DEF ChatAgents
  <2>12. ChatAnswers'
    BY <2>7 DEF ChatAnswers
  <2>13. ChatSessions'
    <3>1. ~crossed' => run.at \notin {"json", "lines"} /\ (run.at = "idle" \/ ~wire.closed)
      BY <2>2
    <3>2. run' = run /\ wire' = wire /\ ~(streaming' > 0)
      BY <2>1
    <3> QED
      BY <1>3, <2>5, <2>7, <3>1, <3>2 DEF ChatSessions
  <2>14. ChatCounts'
    <3>1. seen' \in Nat /\ seen' <= 2 * asks' /\ Len(messages') <= 2 * asks'
      BY <1>4, <2>1, <2>7
    <3>2. run.at # "idle" => Len(messages') + 1 <= 2 * asks'
      <4>1. run.at # "idle" => asks # 0
        BY <1>1 DEF ChatRuns
      <4> QED
        BY <1>4, <2>1, <2>7, <4>1
    <3>3. Chat!NothingMissed'
      BY <2>1, <2>3 DEF Chat!NothingMissed
    <3> QED
      BY <2>1, <3>1, <3>2, <3>3 DEF ChatCounts
  <2> QED
    BY <1>2, <2>8, <2>9, <2>10, <2>11, <2>12, <2>13, <2>14
<1>11. CASE Chat!HandleClickMascot
  <2>1. /\ seen' = Len(messages)
        /\ UNCHANGED <<session, messages, loading, streaming, abortRef, run,
                       wire, agents, aborted, asks, silent, lost, crossed>>
    BY <1>11 DEF Chat!HandleClickMascot, Chat!screen, Chat!net, Chat!history
  <2>2. chatOpen' = ~chatOpen /\ dot' = (dot /\ chatOpen)
    BY <1>11 DEF Chat!HandleClickMascot
  <2>3. ChatTypes'
    <3>1. chatOpen' \in BOOLEAN /\ dot' \in BOOLEAN
      BY <2>2, Zenon
    <3> QED
      BY <1>1, <2>1, <3>1 DEF ChatTypes
  <2>4. ChatRuns' /\ ChatPieces' /\ ChatAgents'
    BY <1>1, <2>1 DEF ChatRuns, ChatPieces, ChatAgents
  <2>5. ChatAnswers' /\ ChatSessions'
    BY <1>1, <2>1 DEF ChatAnswers, ChatSessions
  <2>6. ChatCounts'
    BY <1>1, <1>4, <2>1 DEF ChatCounts, Chat!NothingMissed
  <2> QED
    BY <1>2, <2>3, <2>4, <2>5, <2>6
<1>12. run.at # "idle" /\ ~crossed /\ (run.ask \notin aborted \/ run.at \in {"json", "lines"} \/ wire.closed)
         => run.session = session
  BY <1>1 DEF ChatSessions
<1>13. streaming \in Nat /\ streaming <= run.text
  BY <1>1 DEF ChatRuns
<1>14. CASE Chat!FetchResolves \/ Chat!NextRead
  <2>1. /\ run.at \in {"fetch", "lines"} /\ run.lines = 0 /\ run.ask \notin aborted
        /\ run' = [run EXCEPT !.at = "read"]
    BY <1>1, <1>14 DEF Chat!FetchResolves, Chat!NextRead, ChatRuns
  <2>2. UNCHANGED <<chatOpen, dot, seen, session, messages, loading, streaming, abortRef,
                    wire, agents, aborted, asks, silent, lost, crossed>>
    BY <1>14 DEF Chat!FetchResolves, Chat!NextRead, Chat!panel, Chat!net, Chat!history
  <2>3. /\ run' \in ChatRun /\ run'.at = "read" /\ run'.ask = run.ask /\ run'.session = run.session
        /\ run'.closure = run.closure /\ run'.text = run.text /\ run'.lines = run.lines
    BY <1>3, <2>1 DEF ChatRun
  <2> QED
    BY <1>3, <1>12, <1>13, <2>1, <2>2, <2>3, ChatGoesOn
<1>15. CASE Chat!ReadResolves
  <2>1. /\ run.at = "read" /\ run.lines = 0 /\ run.ask \notin aborted
        /\ run' = [run EXCEPT !.at = "lines", !.lines = wire.got]
        /\ wire' = [wire EXCEPT !.got = 0]
    BY <1>1, <1>15 DEF Chat!ReadResolves, ChatRuns
  <2>2. UNCHANGED <<chatOpen, dot, seen, session, messages, loading, streaming, abortRef,
                    agents, aborted, asks, silent, lost, crossed>>
    BY <1>15 DEF Chat!ReadResolves, Chat!panel, Chat!history
  <2>3. /\ run' \in ChatRun /\ run'.at = "lines" /\ run'.ask = run.ask /\ run'.session = run.session
        /\ run'.closure = run.closure /\ run'.text = run.text /\ run'.lines = wire.got
    BY <1>3, <2>1 DEF ChatRun
  <2>4. wire' \in [got : Nat, closed : BOOLEAN] /\ wire'.got = 0 /\ wire'.closed = wire.closed
    BY <1>3, <2>1
  <2>5. run'.text + run'.lines + wire'.got = run.text + run.lines + wire.got
    BY <1>3, <2>1, <2>3, <2>4
  <2> QED
    BY <1>3, <1>12, <1>13, <2>1, <2>2, <2>3, <2>4, <2>5, ChatGoesOn
<1>16. CASE Chat!Line
  <2>1. /\ run.at = "lines" /\ run.lines > 0
        /\ run' = [run EXCEPT !.lines = run.lines - 1, !.text = run.text + 1]
        /\ streaming' = run.text + 1
    BY <1>16 DEF Chat!Line
  <2>2. UNCHANGED <<chatOpen, dot, seen, session, messages, loading, abortRef, wire,
                    agents, aborted, asks, silent, lost, crossed>>
    BY <1>16 DEF Chat!Line, Chat!panel, Chat!net, Chat!history
  <2>3. run.lines - 1 \in Nat /\ run.text + 1 \in Nat
    BY <1>3, <2>1
  <2>4. /\ run' \in ChatRun /\ run'.at = "lines" /\ run'.ask = run.ask /\ run'.session = run.session
        /\ run'.closure = run.closure /\ run'.text = run.text + 1 /\ run'.lines = run.lines - 1
    BY <1>3, <2>1, <2>3 DEF ChatRun
  <2>5. run'.text + run'.lines + wire'.got = run.text + run.lines + wire.got
    BY <1>3, <2>2, <2>4
  <2>6. streaming' \in Nat /\ streaming' <= run'.text
    BY <1>3, <2>1, <2>4
  <2> QED
    BY <1>3, <1>12, <2>1, <2>2, <2>4, <2>5, <2>6, ChatGoesOn
<1>17. CASE Chat!ServerRefuses
  <2>1. /\ run.at = "fetch" /\ run.ask \notin aborted /\ \A a \in agents : a.ask # run.ask
        /\ run' = [run EXCEPT !.at = "json"]
    BY <1>17 DEF Chat!ServerRefuses
  <2>2. UNCHANGED <<chatOpen, dot, seen, session, messages, loading, streaming, abortRef,
                    wire, agents, aborted, asks, silent, lost, crossed>>
    BY <1>17 DEF Chat!ServerRefuses, Chat!panel, Chat!net, Chat!history
  <2>3. /\ run' \in ChatRun /\ run'.at = "json" /\ run'.ask = run.ask /\ run'.session = run.session
        /\ run'.closure = run.closure /\ run'.text = run.text /\ run'.lines = run.lines
    BY <1>3, <2>1 DEF ChatRun
  <2>4. run.text = 0 /\ run.lines = 0
    BY <1>1, <2>1 DEF ChatRuns
  <2> QED
    BY <1>3, <1>12, <1>13, <2>1, <2>2, <2>3, <2>4, ChatGoesOn
<1>18. silent \subseteq Chat!Ask /\ lost \subseteq Chat!Ask
  BY <1>1 DEF ChatTypes
<1>19. CASE Chat!StreamEnds
  <2>1. /\ run.at # "idle" /\ wire.closed
        /\ UNCHANGED <<chatOpen, session, wire, agents, aborted, asks, lost, crossed>>
        /\ silent' = IF run.text = 0 THEN silent \cup {run.ask} ELSE silent
    BY <1>19 DEF Chat!StreamEnds, Chat!Reading, Chat!net
  <2> DEFINE ms == IF run.text > 0 THEN Append(messages, Chat!Message("agent")) ELSE messages
  <2>2. Chat!Finish(ms)
    BY <1>19 DEF Chat!StreamEnds
  <2>3. silent \subseteq silent' /\ silent' \subseteq Chat!Ask
    BY <1>5, <1>18, <2>1
  <2>4. \A a \in agents : a.ask # run.ask
    BY <1>1, <2>1 DEF ChatAgents
  <2>5. \/ ms = messages /\ run.ask \in aborted \cup silent'
        \/ \E m \in ChatMessage :
              /\ ms = Append(messages, m) /\ m.ask = run.ask /\ m.by # "user"
              /\ ~crossed => m.session = session
    <3>1. CASE run.text = 0
      <4>1. ms = messages
        BY <3>1
      <4> QED
        BY <2>1, <3>1, <4>1
    <3>2. CASE run.text # 0
      <4>1. ms = Append(messages, Chat!Message("agent"))
        BY <1>3, <3>2
      <4>2. ~crossed => run.session = session
        BY <1>12, <2>1
      <4>3. Chat!Message("agent") \in ChatMessage /\ Chat!Message("agent").ask = run.ask
             /\ Chat!Message("agent").by # "user" /\ Chat!Message("agent").session = run.session
        BY <1>6, <2>1
      <4> QED
        BY <4>1, <4>2, <4>3, Zenon
    <3> QED
      BY <3>1, <3>2
  <2> HIDE DEF ms
  <2> QED
    BY <1>18, <2>1, <2>2, <2>3, <2>4, <2>5, ChatEnded
<1>20. CASE Chat!AbortRejects
  <2>1. /\ run.at # "idle" /\ run.ask \in aborted /\ Chat!Finish(messages)
        /\ UNCHANGED <<chatOpen, session, wire, agents, aborted, asks, silent, lost, crossed>>
    BY <1>3, <1>20 DEF Chat!AbortRejects, Chat!Reading, Chat!net, Chat!history
  <2> QED
    BY <1>18, <2>1, ChatEnded
<1>21. CASE Chat!Refused
  <2>1. /\ run.at = "json" /\ Chat!Finish(Append(messages, Chat!Message("note")))
        /\ UNCHANGED <<chatOpen, session, wire, agents, aborted, asks, silent, lost, crossed>>
    BY <1>21 DEF Chat!Refused, Chat!net, Chat!history
  <2>2. Chat!Message("note") \in ChatMessage /\ Chat!Message("note").ask = run.ask
        /\ Chat!Message("note").by # "user" /\ Chat!Message("note").session = run.session
    BY <1>6, <2>1
  <2>3. \A a \in agents : a.ask # run.ask
    BY <1>1, <2>1 DEF ChatAgents
  <2>4. ~crossed => run.session = session
    BY <1>12, <2>1
  <2> DEFINE ms == Append(messages, Chat!Message("note"))
  <2>5. \E m \in ChatMessage :
              /\ ms = Append(messages, m) /\ m.ask = run.ask /\ m.by # "user"
              /\ ~crossed => m.session = session
    BY <2>2, <2>4
  <2>6. Chat!Finish(ms)
    BY <2>1
  <2> HIDE DEF ms
  <2> QED
    BY <1>18, <2>1, <2>3, <2>5, <2>6, ChatEnded
<1>22. CASE Chat!NetworkFails
  <2>1. /\ run.at # "idle" /\ run.ask \notin aborted /\ Chat!Finish(Append(messages, Chat!Message("note")))
        /\ UNCHANGED <<chatOpen, session, wire, agents, aborted, asks, silent, crossed>>
        /\ lost' = lost \cup {run.ask}
    BY <1>22 DEF Chat!NetworkFails, Chat!net
  <2>2. Chat!Message("note") \in ChatMessage /\ Chat!Message("note").ask = run.ask
        /\ Chat!Message("note").by # "user" /\ Chat!Message("note").session = run.session
    BY <1>6, <2>1
  <2>3. lost \subseteq lost' /\ lost' \subseteq Chat!Ask /\ run.ask \in lost'
    BY <1>5, <1>18, <2>1
  <2>4. ~crossed => run.session = session
    BY <1>12, <2>1
  <2> DEFINE ms == Append(messages, Chat!Message("note"))
  <2>5. \E m \in ChatMessage :
              /\ ms = Append(messages, m) /\ m.ask = run.ask /\ m.by # "user"
              /\ ~crossed => m.session = session
    BY <2>2, <2>4
  <2>6. Chat!Finish(ms)
    BY <2>1
  <2> HIDE DEF ms
  <2> QED
    BY <1>18, <2>1, <2>3, <2>5, <2>6, ChatEnded
<1>23. ASSUME wire' \in [got : Nat, closed : BOOLEAN], agents' \subseteq ChatAgent,
              UNCHANGED <<chatOpen, dot, seen, session, messages, loading, streaming, abortRef, run,
                          aborted, asks, silent, lost, crossed>>,
              ChatPieces', ChatAgents',
              wire'.closed = wire.closed \/ run.ask \notin aborted
       PROVE  ChatInv'
  <2>1. ChatTypes'
    BY <1>1, <1>23 DEF ChatTypes
  <2>2. ChatRuns' /\ ChatAnswers' /\ ChatCounts'
    BY <1>1, <1>23 DEF ChatRuns, ChatAnswers, ChatCounts, Chat!NothingMissed
  <2>3. ChatSessions'
    BY <1>1, <1>23 DEF ChatSessions
  <2> QED
    BY <1>2, <1>23, <2>1, <2>2, <2>3
<1>24. CASE Chat!ServerAccepts
  <2> DEFINE b == [ask |-> run.ask, session |-> run.session, left |-> MaxPieces]
  <2>1. /\ run.at = "fetch" /\ run.ask \notin aborted /\ \A a \in agents : a.ask # run.ask
        /\ wire = Chat!NoWire /\ agents' = agents \cup {b} /\ wire' = wire
        /\ UNCHANGED <<chatOpen, dot, seen, session, messages, loading, streaming, abortRef, run,
                       aborted, asks, silent, lost, crossed>>
    BY <1>24 DEF Chat!ServerAccepts, Chat!panel, Chat!screen, Chat!history
  <2>2. b \in ChatAgent /\ b.ask = run.ask /\ b.left = MaxPieces
    <3>1. MaxPieces \in 0..MaxPieces
      BY <1>4
    <3> QED
      BY <1>3, <1>5, <2>1, <3>1 DEF ChatAgent
  <2> HIDE DEF b
  <2>3. wire.got = 0 /\ wire.closed = FALSE /\ run.text = 0 /\ run.lines = 0
    BY <1>1, <2>1 DEF Chat!NoWire, ChatRuns
  <2>4. agents' \subseteq ChatAgent
    BY <1>1, <2>1, <2>2 DEF ChatTypes
  <2>5. ChatPieces'
    <3>1. 0 + 0 + 0 <= MaxPieces /\ 0 + 0 + 0 + MaxPieces <= MaxPieces
      BY <1>4
    <3> QED
      BY <2>1, <2>2, <2>3, <3>1 DEF ChatPieces
  <2>6. ChatAgents'
    <3>1. run.ask <= asks
      BY <1>4, <1>5, <2>1
    <3> QED
      BY <1>1, <2>1, <2>2, <2>3, <3>1 DEF ChatAgents
  <2> QED
    BY <1>3, <1>23, <2>1, <2>4, <2>5, <2>6
<1>25. ASSUME NEW a \in agents, Chat!AgentPiece(a)
       PROVE  ChatInv'
  <2>1. /\ a.left > 0
        /\ UNCHANGED <<chatOpen, dot, seen, session, messages, loading, streaming, abortRef, run,
                       aborted, asks, silent, lost, crossed>>
    BY <1>25 DEF Chat!AgentPiece, Chat!panel, Chat!screen, Chat!history
  <2>2. CASE Chat!Connected(a)
    <3> DEFINE b == [a EXCEPT !.left = a.left - 1]
    <3>1. agents' = (agents \ {a}) \cup {b} /\ wire' = [wire EXCEPT !.got = wire.got + 1]
      BY <1>25, <2>2 DEF Chat!AgentPiece
    <3>2. b \in ChatAgent /\ b.ask = a.ask /\ b.left = a.left - 1
      <4>1. a.left - 1 \in 0..MaxPieces
        BY <1>7, <2>1, <1>4
      <4> QED
        BY <1>7, <4>1 DEF ChatAgent
    <3> HIDE DEF b
    <3>3. wire' \in [got : Nat, closed : BOOLEAN] /\ wire'.got = wire.got + 1 /\ wire'.closed = wire.closed
      BY <1>3, <3>1
    <3>4. agents' \subseteq ChatAgent
      BY <1>1, <3>1, <3>2 DEF ChatTypes
    <3>5. run.ask = a.ask /\ \A c \in agents \ {a} : c.ask # a.ask
      BY <1>1, <2>2 DEF Chat!Connected, ChatAgents
    <3>6. ChatPieces'
      <4>1. run.text + run.lines + wire.got + a.left <= MaxPieces
        BY <1>1, <3>5 DEF ChatPieces
      <4>2. run'.text + run'.lines + wire'.got <= MaxPieces /\ run'.text + run'.lines + wire'.got + b.left <= MaxPieces
        BY <1>3, <1>4, <1>7, <2>1, <3>2, <3>3, <4>1
      <4> QED
        BY <2>1, <3>1, <3>5, <4>2 DEF ChatPieces
    <3>7. ChatAgents'
      BY <1>1, <2>1, <3>1, <3>2, <3>3, <3>5 DEF ChatAgents
    <3> QED
      BY <1>23, <2>1, <3>3, <3>4, <3>6, <3>7
  <2>3. CASE ~Chat!Connected(a)
    <3>1. agents' = agents \ {a} /\ wire' = wire
      BY <1>25, <2>3 DEF Chat!AgentPiece
    <3>2. agents' \subseteq ChatAgent
      BY <1>1, <3>1 DEF ChatTypes
    <3>3. ChatPieces'
      BY <1>1, <2>1, <3>1 DEF ChatPieces
    <3>4. ChatAgents'
      BY <1>1, <2>1, <3>1 DEF ChatAgents
    <3> QED
      BY <1>3, <1>23, <2>1, <3>1, <3>2, <3>3, <3>4
  <2> QED
    BY <2>2, <2>3
<1>26. ASSUME NEW a \in agents, Chat!AgentEnds(a)
       PROVE  ChatInv'
  <2>1. /\ agents' = agents \ {a}
        /\ wire' = IF Chat!Connected(a) THEN [wire EXCEPT !.closed = TRUE] ELSE wire
        /\ UNCHANGED <<chatOpen, dot, seen, session, messages, loading, streaming, abortRef, run,
                       aborted, asks, silent, lost, crossed>>
    BY <1>26 DEF Chat!AgentEnds, Chat!panel, Chat!screen, Chat!history
  <2>2. agents' \subseteq ChatAgent
    BY <1>1, <2>1 DEF ChatTypes
  <2>3. wire' \in [got : Nat, closed : BOOLEAN] /\ wire'.got = wire.got
    BY <1>3, <2>1
  <2>4. ChatPieces'
    BY <1>1, <2>1, <2>3 DEF ChatPieces
  <2>5. CASE Chat!Connected(a)
    <3>1. run.ask = a.ask /\ run.ask \notin aborted /\ \A c \in agents \ {a} : c.ask # a.ask
      BY <1>1, <2>5 DEF Chat!Connected, ChatAgents
    <3>2. ChatAgents'
      BY <1>1, <2>1, <3>1 DEF ChatAgents
    <3> QED
      BY <1>23, <2>1, <2>2, <2>3, <2>4, <3>1, <3>2
  <2>6. CASE ~Chat!Connected(a)
    <3>1. wire' = wire
      BY <2>1, <2>6
    <3>2. ChatAgents'
      BY <1>1, <2>1, <3>1 DEF ChatAgents
    <3> QED
      BY <1>23, <2>1, <2>2, <2>3, <2>4, <3>1, <3>2
  <2> QED
    BY <2>5, <2>6
<1> QED
  BY <1>8, <1>9, <1>10, <1>11, <1>14, <1>15, <1>16, <1>17, <1>19, <1>20, <1>21, <1>22, <1>24, <1>25, <1>26
     DEF Chat!Next, Chat!Reader

-----------------------------------------------------------------------------
(* The stream scanner.                                                     *)

Left == {"exit", "gone"}
Reading == {"scan", "check", "send"}

StreamTypes ==
    /\ main \in {"select", "notify", "wait", "returned"}
    /\ scanner \in {"scan", "check", "send", "exit", "gone"}
    /\ handler \in {"range", "lock", "handle", "exit", "gone"}
    /\ ping \in {"select", "writing", "gone"}
    /\ tokens \in Nat /\ buffer \in Nat /\ received \in Nat /\ handled \in Nat
    /\ stopClosed \in BOOLEAN /\ dataClosed \in BOOLEAN /\ ctxDone \in BOOLEAN
    /\ bodyClosed \in BOOLEAN /\ ended \in BOOLEAN /\ refused \in BOOLEAN
    /\ timedOut \in BOOLEAN /\ overdue \in BOOLEAN

(* Where the lines are, for as long as the scanner has dropped none.       *)
Lines ==
    /\ scanner \in Reading \/ ended =>
          received = handled + buffer + One(scanner \in {"check", "send"})
                             + One(handler \in {"lock", "handle"})
    /\ dataClosed <=> scanner \in Left
    /\ ended => scanner \in Left
    /\ handler \in Left => refused \/ (dataClosed /\ buffer = 0)

(* What tells the goroutines that the call is over.                        *)
Signals ==
    /\ ctxDone <=> main # "select"
    /\ stopClosed <=> main = "returned"
    /\ bodyClosed <=> main = "returned"
    /\ main = "returned" /\ ~overdue => Stream!AllDone

(* Everybody sends one token at most.  One that the loop could wait for is *)
(* there, unless the pinger took it.                                       *)
Tokens ==
    /\ tokens <= One(scanner = "gone") + One(handler = "gone")
                 + One(main \in {"wait", "returned"})
    /\ main = "select" /\ (scanner \in Reading \/ ended) =>
          tokens + One(ping = "gone") >= One(scanner = "gone") + One(handler = "gone")

(* The scanner leaves early, and the loop returns early, only for a reason.*)
Reasons ==
    /\ main = "select" /\ scanner \in Left => ended \/ refused
    /\ main # "select" => ended \/ refused \/ timedOut

StreamInv == StreamTypes /\ Lines /\ Signals /\ Tokens /\ Reasons

LEMMA StreamInit == Stream!Init => StreamInv
<1> SUFFICES ASSUME Stream!Init PROVE StreamInv
  OBVIOUS
<1>1. StreamTypes
  BY DEF Stream!Init, StreamTypes
<1>2. Lines
  BY DEF Stream!Init, Lines, Left, Reading, One
<1>3. Signals
  BY DEF Stream!Init, Signals
<1>4. Tokens /\ Reasons
  BY DEF Stream!Init, Tokens, Reasons, Left, Reading, One
<1> QED
  BY <1>1, <1>2, <1>3, <1>4 DEF StreamInv

LEMMA LoopSteps == StreamInv /\ (Stream!Main \/ Stream!ClientLeaves) => StreamInv'
<1> SUFFICES ASSUME StreamInv, Stream!Main \/ Stream!ClientLeaves PROVE StreamInv'
  OBVIOUS
<1> USE DEF StreamInv, StreamTypes, Lines, Signals, Tokens, Reasons, Left, Reading, One, Stream!AllDone,
        Stream!SafeSendBool, Stream!CanSend, Stream!StopCap, Stream!TakeStop, Stream!Stopped, Stream!procs, Stream!chans, Stream!world, Stream!counts, Stream!history
<1>1. CASE Stream!Return
  <2>1. StreamTypes'
    <3>1. tokens' \in Nat /\ buffer' \in Nat
      BY <1>1 DEF Stream!Return
    <3> QED
      BY <1>1, <3>1, Zenon DEF Stream!Return
  <2>2. Lines'
    BY <1>1 DEF Stream!Return
  <2>3. Signals'
    BY <1>1 DEF Stream!Return
  <2>4. Tokens'
    BY <1>1 DEF Stream!Return
  <2>5. Reasons'
    BY <1>1 DEF Stream!Return
  <2> QED
    BY <2>1, <2>2, <2>3, <2>4, <2>5
<1>2. CASE Stream!Notify
  <2>1. StreamTypes'
    BY <1>2 DEF Stream!Notify
  <2>2. Lines'
    BY <1>2 DEF Stream!Notify
  <2>3. Signals'
    BY <1>2 DEF Stream!Notify
  <2>4. Tokens'
    BY <1>2 DEF Stream!Notify
  <2>5. Reasons'
    BY <1>2 DEF Stream!Notify
  <2> QED
    BY <2>1, <2>2, <2>3, <2>4, <2>5
<1>3. CASE Stream!Cleanup
  <2>1. StreamTypes'
    BY <1>3 DEF Stream!Cleanup
  <2>2. Lines'
    BY <1>3 DEF Stream!Cleanup
  <2>3. Signals'
    BY <1>3 DEF Stream!Cleanup
  <2>4. Tokens'
    BY <1>3 DEF Stream!Cleanup
  <2>5. Reasons'
    BY <1>3 DEF Stream!Cleanup
  <2> QED
    BY <2>1, <2>2, <2>3, <2>4, <2>5
<1>4. CASE Stream!ClientLeaves
  BY <1>4 DEF Stream!ClientLeaves
<1> QED
  BY <1>1, <1>2, <1>3, <1>4 DEF Stream!Main

LEMMA ScannerSteps == StreamInv /\ (Stream!ScanLine \/ Stream!ScanEnds \/ Stream!Check \/ Stream!Send \/ Stream!ScannerExits) => StreamInv'
<1> SUFFICES ASSUME StreamInv, Stream!ScanLine \/ Stream!ScanEnds \/ Stream!Check \/ Stream!Send \/ Stream!ScannerExits PROVE StreamInv'
  OBVIOUS
<1> USE DEF StreamInv, StreamTypes, Lines, Signals, Tokens, Reasons, Left, Reading, One, Stream!AllDone, Stream!Stop,
        Stream!SafeSendBool, Stream!CanSend, Stream!StopCap, Stream!TakeStop, Stream!Stopped, Stream!procs, Stream!chans, Stream!world, Stream!counts, Stream!history
<1>1. CASE Stream!ScanLine
  BY <1>1 DEF Stream!ScanLine
<1>2. CASE Stream!ScanEnds
  <2>1. StreamTypes'
    BY <1>2 DEF Stream!ScanEnds
  <2>2. Lines'
    BY <1>2 DEF Stream!ScanEnds
  <2>3. Signals'
    BY <1>2 DEF Stream!ScanEnds
  <2>4. Tokens'
    BY <1>2 DEF Stream!ScanEnds
  <2>5. Reasons'
    BY <1>2 DEF Stream!ScanEnds
  <2> QED
    BY <2>1, <2>2, <2>3, <2>4, <2>5
<1>3. CASE Stream!Check
  <2>1. StreamTypes'
    <3>1. tokens' \in Nat /\ buffer' \in Nat
      BY <1>3 DEF Stream!Check
    <3> QED
      BY <1>3, <3>1, Zenon DEF Stream!Check
  <2>2. Lines'
    BY <1>3 DEF Stream!Check
  <2>3. Signals'
    BY <1>3 DEF Stream!Check
  <2>4. Tokens'
    BY <1>3 DEF Stream!Check
  <2>5. Reasons'
    BY <1>3 DEF Stream!Check
  <2> QED
    BY <2>1, <2>2, <2>3, <2>4, <2>5
<1>4. CASE Stream!Send
  <2>1. StreamTypes'
    <3>1. tokens' \in Nat /\ buffer' \in Nat
      BY <1>4 DEF Stream!Send
    <3> QED
      BY <1>4, <3>1, Zenon DEF Stream!Send
  <2>2. Lines'
    BY <1>4 DEF Stream!Send
  <2>3. Signals'
    BY <1>4 DEF Stream!Send
  <2>4. Tokens'
    BY <1>4 DEF Stream!Send
  <2>5. Reasons'
    BY <1>4 DEF Stream!Send
  <2> QED
    BY <2>1, <2>2, <2>3, <2>4, <2>5
<1>5. CASE Stream!ScannerExits
  <2>1. StreamTypes'
    BY <1>5 DEF Stream!ScannerExits
  <2>2. Lines'
    BY <1>5 DEF Stream!ScannerExits
  <2>3. Signals'
    BY <1>5 DEF Stream!ScannerExits
  <2>4. Tokens'
    BY <1>5 DEF Stream!ScannerExits
  <2>5. Reasons'
    BY <1>5 DEF Stream!ScannerExits
  <2> QED
    BY <2>1, <2>2, <2>3, <2>4, <2>5
<1> QED
  BY <1>1, <1>2, <1>3, <1>4, <1>5

LEMMA HandlerSteps == StreamInv /\ Stream!Handler => StreamInv'
<1> SUFFICES ASSUME StreamInv, Stream!Handler PROVE StreamInv'
  OBVIOUS
<1> USE DEF StreamInv, StreamTypes, Lines, Signals, Tokens, Reasons, Left, Reading, One, Stream!AllDone,
        Stream!SafeSendBool, Stream!CanSend, Stream!StopCap, Stream!procs, Stream!chans, Stream!world, Stream!counts, Stream!history
<1>1. CASE Stream!TakeLine
  <2>1. StreamTypes'
    BY <1>1 DEF Stream!TakeLine
  <2>2. Lines'
    BY <1>1 DEF Stream!TakeLine
  <2>3. Signals'
    BY <1>1 DEF Stream!TakeLine
  <2>4. Tokens'
    BY <1>1 DEF Stream!TakeLine
  <2>5. Reasons'
    BY <1>1 DEF Stream!TakeLine
  <2> QED
    BY <2>1, <2>2, <2>3, <2>4, <2>5
<1>2. CASE Stream!HandlerLocks
  BY <1>2 DEF Stream!HandlerLocks
<1>3. CASE Stream!DataHandler
  <2>1. StreamTypes'
    <3>1. handled' \in Nat
      BY <1>3 DEF Stream!DataHandler
    <3> QED
      BY <1>3, <3>1, Zenon DEF Stream!DataHandler
  <2>2. Lines'
    BY <1>3 DEF Stream!DataHandler
  <2>3. Signals'
    BY <1>3 DEF Stream!DataHandler
  <2>4. Tokens'
    BY <1>3 DEF Stream!DataHandler
  <2>5. Reasons'
    BY <1>3 DEF Stream!DataHandler
  <2> QED
    BY <2>1, <2>2, <2>3, <2>4, <2>5
<1>4. CASE Stream!HandlerExits
  <2>1. StreamTypes'
    BY <1>4 DEF Stream!HandlerExits
  <2>2. Lines'
    BY <1>4 DEF Stream!HandlerExits
  <2>3. Signals'
    BY <1>4 DEF Stream!HandlerExits
  <2>4. Tokens'
    BY <1>4 DEF Stream!HandlerExits
  <2>5. Reasons'
    BY <1>4 DEF Stream!HandlerExits
  <2> QED
    BY <2>1, <2>2, <2>3, <2>4, <2>5
<1> QED
  BY <1>1, <1>2, <1>3, <1>4 DEF Stream!Handler

LEMMA PingSteps == StreamInv /\ (Stream!PingTick \/ Stream!WriterLocks \/ Stream!PingData \/ Stream!Pinged \/ Stream!PingEnds) => StreamInv'
<1> SUFFICES ASSUME StreamInv, Stream!PingTick \/ Stream!WriterLocks \/ Stream!PingData \/ Stream!Pinged \/ Stream!PingEnds PROVE StreamInv'
  OBVIOUS
<1> USE DEF StreamInv, StreamTypes, Lines, Signals, Tokens, Reasons, Left, Reading, One, Stream!AllDone,
        Stream!TakeStop, Stream!Stopped, Stream!procs, Stream!chans, Stream!world, Stream!counts, Stream!history
<1>1. CASE Stream!PingTick
  BY <1>1 DEF Stream!PingTick
<1>2. CASE Stream!WriterLocks
  BY <1>2 DEF Stream!WriterLocks
<1>3. CASE Stream!PingData
  BY <1>3 DEF Stream!PingData
<1>4. CASE Stream!Pinged
  BY <1>4 DEF Stream!Pinged
<1>5. CASE Stream!PingEnds
  <2>1. StreamTypes'
    BY <1>5 DEF Stream!PingEnds
  <2>2. Lines'
    BY <1>5 DEF Stream!PingEnds
  <2>3. Signals'
    BY <1>5 DEF Stream!PingEnds
  <2>4. Tokens'
    BY <1>5 DEF Stream!PingEnds
  <2>5. Reasons'
    BY <1>5 DEF Stream!PingEnds
  <2> QED
    BY <2>1, <2>2, <2>3, <2>4, <2>5
<1> QED
  BY <1>1, <1>2, <1>3, <1>4, <1>5

LEMMA StreamStep == StreamInv /\ [Next]_vars => StreamInv'
<1> SUFFICES ASSUME StreamInv, [Next]_vars PROVE StreamInv'
  OBVIOUS
<1>1. CASE OfStream(Stream!Next)
  BY <1>1, LoopSteps, ScannerSteps, HandlerSteps, PingSteps DEF Stream!Next, OfStream
<1>2. CASE UNCHANGED stream
  BY <1>2 DEF stream, StreamInv, StreamTypes, Lines, Signals, Tokens,
              Reasons, Left, Reading, One, Stream!AllDone
<1> QED
  BY <1>1, <1>2 DEF Next, vars, OfShell, OfTest, OfQr, OfChat, OfLimit

(* The stream scanner: without refusals and timeouts every line of the     *)
(* upstream is handled before the call returns, also when the client left, *)
(* no line after it, and stopChan has room for everyone's token; for any   *)
(* number of lines and any capacity of dataChan.                           *)
THEOREM Complete == Spec => []StreamComplete
<1>1. StreamInv => StreamComplete
  <2> SUFFICES ASSUME StreamInv PROVE StreamComplete
    OBVIOUS
  <2> USE DEF StreamInv, StreamTypes, Left, Reading, One
  <2>1. Stream!ReadToTheEnd
    BY DEF Stream!ReadToTheEnd, Lines, Signals, Reasons, Stream!AllDone
  <2>2. Stream!QuietAfterReturn
    BY DEF Stream!QuietAfterReturn, Signals, Stream!AllDone
  <2>3. Stream!RoomForTokens
    BY DEF Stream!RoomForTokens, Tokens, Stream!CanSend, Stream!StopCap
  <2>4. Stream!EndAnnounced
    BY DEF Stream!EndAnnounced, Tokens
  <2> QED
    BY <2>1, <2>2, <2>3, <2>4 DEF StreamComplete, Stream!StreamComplete
<1>2. Init => StreamInv
  BY StreamInit DEF Init
<1> QED
  BY <1>1, <1>2, StreamStep, PTL DEF Spec

-----------------------------------------------------------------------------
(* What the counts below rest on.                                          *)

Below == {ss \in Nat \X Nat : ss[1] < ss[2]}

(* Every set of numbers has a least one.                                   *)
LEMMA Least ==
    ASSUME NEW T \in SUBSET Nat, T # {}
    PROVE  \E x \in T : \A y \in T : x <= y
<1>1. IsWellFoundedOn(Below, Nat)
  BY NatLessThanWellFounded DEF OpToRel, Below
<1>2. PICK x \in T : \A y \in T : ~(<<y, x>> \in Below)
  BY <1>1, WFMin
<1>3. ASSUME NEW y \in T, ~(x <= y)
      PROVE  FALSE
  <2>1. <<y, x>> \in Nat \X Nat /\ y < x
    BY <1>3
  <2>2. <<y, x>>[1] = y /\ <<y, x>>[2] = x
    OBVIOUS
  <2> QED
    BY <2>1, <2>2, <1>2 DEF Below
<1> QED
  BY <1>3

(* The entries of p from time t on.                                        *)
After(p, t) == {i \in DOMAIN p : t <= p[i]}
Count(p, t) == Cardinality(After(p, t))
InOrder(p) == \A i, j \in DOMAIN p : i <= j => p[i] <= p[j]

LEMMA AfterFinite ==
    ASSUME NEW p \in Seq(Nat), NEW t \in Int
    PROVE  IsFiniteSet(After(p, t)) /\ Count(p, t) \in Nat /\ Count(p, t) <= Len(p)
<1>1. After(p, t) \in SUBSET (1..Len(p))
  BY DEF After
<1>2. \A n \in Nat : IsFiniteSet(1..n) /\ Cardinality(1..n) = n
  BY FS_Interval
<1> QED
  BY <1>1, <1>2, FS_Subset, FS_CardinalityType DEF Count

(* In order, they are the last Count(p, t) ones.                           *)
LEMMA AfterIsTail ==
    ASSUME NEW p \in Seq(Nat), InOrder(p), NEW t \in Int
    PROVE  \A i \in 1..Len(p) : t <= p[i] <=> i > Len(p) - Count(p, t)
<1> DEFINE n == Len(p)
<1>1. n \in Nat /\ DOMAIN p = 1..n
  OBVIOUS
<1>2. CASE After(p, t) = {}
  <2>1. Count(p, t) = 0
    BY <1>2, FS_EmptySet DEF Count
  <2> QED
    BY <1>1, <1>2, <2>1 DEF After
<1>3. CASE After(p, t) # {}
  <2>0. After(p, t) \in SUBSET Nat
    BY <1>1 DEF After
  <2>1. PICK m \in After(p, t) : \A i \in After(p, t) : m <= i
    BY <1>3, <2>0, Least
  <2>2. m \in 1..n /\ t <= p[m] /\ p[m] \in Nat
    BY <2>1 DEF After
  <2>3. \A i \in 1..n : t <= p[i] <=> m <= i
    BY <2>1, <2>2, <1>1 DEF After, InOrder
  <2>4. After(p, t) = m..n
    BY <2>3, <2>2, <1>1 DEF After
  <2>5. Count(p, t) = n - m + 1
    BY <2>2, <2>4, FS_Interval DEF Count
  <2> QED
    BY <2>2, <2>3, <2>5, <1>1
<1> QED
  BY <1>2, <1>3

LEMMA CountAppend ==
    ASSUME NEW p \in Seq(Nat), NEW x \in Nat, NEW t \in Int
    PROVE  Count(Append(p, x), t) = Count(p, t) + (IF t <= x THEN 1 ELSE 0)
<1> DEFINE n == Len(p)  q == Append(p, x)
<1>1. n \in Nat /\ DOMAIN p = 1..n /\ DOMAIN q = 1..(n + 1)
  OBVIOUS
<1>2. q[n + 1] = x /\ \A i \in 1..n : q[i] = p[i]
  OBVIOUS
<1>3. CASE t <= x
  <2>1. After(q, t) = After(p, t) \cup {n + 1} /\ n + 1 \notin After(p, t)
    BY <1>1, <1>2, <1>3 DEF After
  <2> QED
    BY <2>1, <1>3, AfterFinite, FS_AddElement DEF Count
<1>4. CASE ~(t <= x)
  <2>1. After(q, t) = After(p, t)
    BY <1>1, <1>2, <1>4 DEF After
  <2> QED
    BY <2>1, <1>4, AfterFinite DEF Count
<1> QED
  BY <1>3, <1>4

(* A later start counts less.                                              *)
LEMMA CountMonotone ==
    ASSUME NEW p \in Seq(Nat), NEW t \in Int, NEW u \in Int, t <= u
    PROVE  Count(p, u) <= Count(p, t)
<1>1. After(p, u) \subseteq After(p, t)
  BY DEF After
<1> QED
  BY <1>1, AfterFinite, FS_Subset DEF Count

(* <<x>> \o s, an LPUSH.                                                   *)
LEMMA PushFront ==
    ASSUME NEW T, NEW s \in Seq(T), NEW x \in T
    PROVE  /\ <<x>> \o s \in Seq(T) /\ Len(<<x>> \o s) = Len(s) + 1
           /\ (<<x>> \o s)[1] = x
           /\ \A i \in 1..Len(s) : (<<x>> \o s)[i + 1] = s[i]
           /\ \A i \in 2..(Len(s) + 1) : (<<x>> \o s)[i] = s[i - 1]
OBVIOUS

(* SubSeq(s, 1, k), an LTRIM.                                              *)
LEMMA KeepFirst ==
    ASSUME NEW T, NEW s \in Seq(T), NEW k \in 0..Len(s)
    PROVE  /\ SubSeq(s, 1, k) \in Seq(T) /\ Len(SubSeq(s, 1, k)) = k
           /\ \A i \in 1..k : SubSeq(s, 1, k)[i] = s[i]
OBVIOUS

-----------------------------------------------------------------------------
(* The rate limits.                                                        *)

Lists == {"redis", "success"}
At(S) == {r \in Request : at[r] \in S}
Requests == Cardinality(Request)

Timely ==
    /\ InOrder(passed)
    /\ \A i \in DOMAIN passed : passed[i] <= now

(* The list holds the last that were let through, and while it is short    *)
(* all those of the running window.                                        *)
Kept ==
    limiter # "bucket" =>
        /\ Len(list) <= Len(passed)
        /\ \A i \in 1..Len(list) : list[i] = passed[Len(passed) + 1 - i]
        /\ Len(list) < MaxNum =>
              \A i \in DOMAIN passed :
                  now - passed[i] < Duration => i > Len(passed) - Len(list)

(* The list outlives its newest entry by Expiry, or is about to.           *)
Lasting ==
    limiter \in Lists /\ list # <<>> =>
        expires >= list[1] + Expiry \/ At({"trim", "expire"}) # {}

(* A list is too long only by those that found it short at the same time   *)
(* and by those that have not cut it yet.                                  *)
Short ==
    limiter \in Lists =>
        Len(list) + Cardinality(At({"pushOnly"}))
            <= MaxNum - 1 + Requests + Cardinality(At({"trim"}))

(* Who found the list full finds it so, and the time it reads is at least  *)
(* the limit's many requests ago.                                          *)
Checks ==
    \A r \in Request :
        /\ limiter \notin Lists => at[r] = "idle"
        /\ at[r] = "index" => Len(list) >= MaxNum
        /\ at[r] = "compare" => Count(passed, oldest[r]) >= MaxNum

(* Those that may still be let through in the window that began at t       *)
(* although it is full.                                                    *)
Loaded(t) ==
    {r \in Request : \/ at[r] \in {"push", "pushOnly", "serve"}
                     \/ at[r] = "compare" /\ oldest[r] < t}

Running ==
    limiter \in Lists =>
        \A t \in Limits!Time : now < t + Duration =>
            Count(passed, t) + Cardinality(Loaded(t)) <= Limits!Bound

Over ==
    limiter # "memory" =>
        \A t \in Limits!Time : t + Duration <= now =>
            Cardinality(Limits!Within(t, t + Duration - 1)) <= Limits!Bound

Spaced ==
    limiter = "memory" =>
        /\ Len(list) <= MaxNum
        /\ \A j \in DOMAIN passed : j > MaxNum => passed[j] - passed[j - MaxNum] >= Duration

(* What the bucket holds, and what it has given away since t.              *)
Filled ==
    limiter = "bucket" =>
        /\ bucket.last <= now
        /\ \A i \in DOMAIN passed : passed[i] <= bucket.last
        /\ \A t \in Limits!Time : t <= bucket.last =>
              Duration * Count(passed, t) + bucket.tokens
                  <= MaxNum * Duration + MaxNum * (bucket.last - t)
        /\ \A t \in Int : t <= bucket.last + 1 =>
              \/ MaxNum * Duration <= bucket.tokens + Duration * Count(passed, t)
              \/ MaxNum * (bucket.last + 1 - t) <= bucket.tokens + Duration * Count(passed, t)

LimitInv ==
    /\ Limits!TypeOK /\ early = FALSE
    /\ Timely /\ Kept /\ Lasting /\ Short /\ Checks /\ Running /\ Over /\ Spaced /\ Filled

LEMMA Numbers ==
    /\ MaxNum \in Nat /\ MaxNum > 0 /\ Duration \in Nat /\ Duration > 0
    /\ Expiry \in Nat /\ Expiry >= Duration /\ MaxTime \in Nat
    /\ Requests \in Nat /\ Requests > 0 /\ IsFiniteSet(Request)
    /\ MaxNum * Duration \in Nat /\ MaxNum * Duration >= MaxNum
<1>1. Requests \in Nat /\ Requests > 0
  BY LimitAssumption, FS_CardinalityType, FS_EmptySet DEF Requests
<1>2. MaxNum * Duration \in Nat
  BY LimitAssumption
<1>3. MaxNum * Duration >= MaxNum
  BY LimitAssumption
<1> QED
  BY <1>1, <1>2, <1>3, LimitAssumption

(* What sets of requests count.                                            *)
LEMMA SomeRequests ==
    ASSUME NEW A \in SUBSET Request
    PROVE  /\ IsFiniteSet(A) /\ Cardinality(A) \in Nat /\ Cardinality(A) <= Requests
           /\ A # Request => Cardinality(A) < Requests
           /\ \A r \in A : Cardinality(A \ {r}) = Cardinality(A) - 1
           /\ \A r \in Request \ A : Cardinality(A \cup {r}) = Cardinality(A) + 1
<1>1. IsFiniteSet(A) /\ Cardinality(A) <= Requests /\ (A # Request => Cardinality(A) # Requests)
  BY LimitAssumption, FS_Subset DEF Requests
<1>2. Cardinality(A) \in Nat
  BY <1>1, FS_CardinalityType
<1>3. \A r \in A : Cardinality(A \ {r}) = Cardinality(A) - 1
  BY <1>1, FS_RemoveElement
<1>4. \A r \in Request \ A : Cardinality(A \cup {r}) = Cardinality(A) + 1
  BY <1>1, FS_AddElement
<1> QED
  BY <1>1, <1>2, <1>3, <1>4, Numbers

LEMMA TwoGroups ==
    ASSUME NEW A \in SUBSET Request, NEW B \in SUBSET Request, A \cap B = {}
    PROVE  Cardinality(A) + Cardinality(B) <= Requests
<1>1. IsFiniteSet(A) /\ IsFiniteSet(B) /\ A \cup B \in SUBSET Request
  BY SomeRequests
<1>2. Cardinality(A \cup B) = Cardinality(A) + Cardinality(B)
  <2>1. Cardinality(A \cup B) = Cardinality(A) + Cardinality(B) - Cardinality(A \cap B)
    BY <1>1, FS_Union
  <2>2. Cardinality(A \cap B) = 0
    BY FS_EmptySet
  <2>3. Cardinality(A) \in Nat /\ Cardinality(B) \in Nat
    BY SomeRequests
  <2> QED
    BY <2>1, <2>2, <2>3
<1> QED
  BY <1>1, <1>2, SomeRequests

(* RateLimit's counts are counts.                                          *)
LEMMA SameCardinality == ASSUME NEW S PROVE Limits!Cardinality(S) = Cardinality(S)
BY DEF Limits!Cardinality, Cardinality

LEMMA ListBound == limiter \in Lists => Limits!Bound = MaxNum + 2 * (Requests - 1)
<1>1. Limits!Cardinality(Request) = Requests
  BY SameCardinality DEF Requests
<1> QED
  BY <1>1 DEF Limits!Bound, Lists

LEMMA LimitInit == Limits!Init => LimitInv
<1> SUFFICES ASSUME Limits!Init PROVE LimitInv
  OBVIOUS
<1>1. Limits!TypeOK /\ early = FALSE
  <2>1. 0 \in Limits!Time /\ MaxNum * Duration \in 0..(MaxNum * Duration) /\ limiter \in Limits!Limiter
    BY Numbers DEF Limits!Time, Limits!Init
  <2>2. bucket \in [tokens : 0..(MaxNum * Duration), last : Limits!Time]
    BY <2>1 DEF Limits!Init
  <2>3. now \in Limits!Time /\ list \in Seq(Limits!Time) /\ expires \in Nat
        /\ oldest \in [Request -> Limits!Time] /\ passed \in Seq(Limits!Time)
    BY <2>1 DEF Limits!Init
  <2>4. \A r \in Request : at[r] = "idle"
    BY DEF Limits!Init
  <2>5. at = [r \in Request |-> at[r]] /\ early = FALSE
    BY DEF Limits!Init
  <2> QED
    BY <2>1, <2>2, <2>3, <2>4, <2>5 DEF Limits!TypeOK
<1>2. Timely /\ Kept /\ Lasting /\ Spaced
  BY Numbers DEF Timely, Kept, Lasting, Spaced, InOrder, Limits!Init
<1>3. At({"pushOnly"}) = {} /\ At({"trim"}) = {} /\ \A t \in Limits!Time : Loaded(t) = {}
  BY DEF At, Loaded, Limits!Init
<1>4. Cardinality({}) = 0 /\ \A t \in Int : Count(passed, t) = 0
  BY FS_EmptySet DEF Count, After, Limits!Init
<1>5. Short
  <2>1. Cardinality(At({"pushOnly"})) = 0 /\ Cardinality(At({"trim"})) = 0 /\ Len(list) = 0
    BY <1>3, <1>4 DEF Limits!Init
  <2> QED
    BY <2>1, Numbers DEF Short
<1>6. Checks
  BY DEF Checks, Limits!Init
<1>7. Running
  <2> SUFFICES ASSUME limiter \in Lists, NEW t \in Limits!Time
               PROVE  Count(passed, t) + Cardinality(Loaded(t)) <= Limits!Bound
    BY DEF Running
  <2>1. Count(passed, t) = 0 /\ Cardinality(Loaded(t)) = 0
    BY <1>3, <1>4 DEF Limits!Time
  <2>2. Limits!Bound = MaxNum + 2 * (Requests - 1)
    BY ListBound
  <2>3. Cardinality(Loaded(t)) \in Nat /\ Requests - 1 >= 0
    BY <2>1, Numbers
  <2> QED
    BY <2>1, <2>2, Numbers
<1>8. Over
  BY Numbers DEF Over, Limits!Time, Limits!Init
<1>9. Filled
  BY <1>4, Numbers DEF Filled, Limits!Time, Limits!Init
<1> QED
  BY <1>1, <1>2, <1>5, <1>6, <1>7, <1>8, <1>9 DEF LimitInv

(* Its types.                                                              *)
LEMMA LimitTypes ==
    ASSUME LimitInv, Limits!Next
    PROVE  Limits!TypeOK'
<1> DEFINE Places == {"idle", "index", "compare", "serve", "push", "pushOnly", "trim", "expire"}
<1>1. /\ limiter \in Limits!Limiter /\ now \in Limits!Time /\ list \in Seq(Limits!Time)
      /\ expires \in Nat /\ bucket \in [tokens : 0..(MaxNum * Duration), last : Limits!Time]
      /\ at \in [Request -> Places] /\ oldest \in [Request -> Limits!Time]
      /\ passed \in Seq(Limits!Time) /\ early \in BOOLEAN
  BY DEF LimitInv, Limits!TypeOK
<1>a. now \in Limits!Time /\ passed \in Seq(Limits!Time) /\ list \in Seq(Limits!Time)
  BY <1>1
<1>b. now \in Nat /\ now <= MaxTime /\ expires \in Nat
  BY <1>1, Numbers DEF Limits!Time
<1>2. limiter' = limiter /\ early' \in BOOLEAN
  BY <1>1 DEF Limits!Next, Limits!Tick, Limits!ClearExpiredItems, Limits!MemoryRequest,
        Limits!ReadLength, Limits!ReadOldest, Limits!Compare, Limits!Serve, Limits!Push,
        Limits!Trim, Limits!Expire, Limits!Allow, Limits!Refuse
<1>3. now' \in Limits!Time
  <2>1. now' = now \/ (now < MaxTime /\ now' = now + 1)
    BY DEF Limits!Next, Limits!Tick, Limits!ClearExpiredItems, Limits!MemoryRequest,
        Limits!ReadLength, Limits!ReadOldest, Limits!Compare, Limits!Serve, Limits!Push,
        Limits!Trim, Limits!Expire, Limits!Allow
  <2> QED
    BY <2>1, <1>b, Numbers DEF Limits!Time
<1>4. passed' = passed \/ passed' = Append(passed, now)
  BY DEF Limits!Next, Limits!Tick, Limits!ClearExpiredItems, Limits!MemoryRequest,
        Limits!ReadLength, Limits!ReadOldest, Limits!Compare, Limits!Serve, Limits!Push,
        Limits!Trim, Limits!Expire, Limits!Allow, Limits!Admit
<1>5. passed' \in Seq(Limits!Time)
  <2>1. Append(passed, now) \in Seq(Limits!Time)
    BY <1>a
  <2> QED
    BY <1>a, <1>4, <2>1
<1>6. at' \in [Request -> Places]
  <2>1. at' = at \/ \E r \in Request, s \in Places : at' = [at EXCEPT ![r] = s]
    BY DEF Limits!Next, Limits!Tick, Limits!ClearExpiredItems, Limits!MemoryRequest,
        Limits!ReadLength, Limits!ReadOldest, Limits!Compare, Limits!Serve, Limits!Push,
        Limits!Trim, Limits!Expire, Limits!Allow, Limits!Goto
  <2> QED
    BY <1>1, <2>1
<1>7. list' \in Seq(Limits!Time)
  <2>1. list' = list \/ list' = <<>> \/ list' = <<now>> \o list
        \/ (list' = <<now>> \o SubSeq(list, 1, Len(list) - 1) /\ Len(list) >= MaxNum)
        \/ (list' = SubSeq(list, 1, MaxNum) /\ Len(list) > MaxNum)
    BY DEF Limits!Next, Limits!Tick, Limits!ClearExpiredItems, Limits!MemoryRequest,
        Limits!ReadLength, Limits!ReadOldest, Limits!Compare, Limits!Serve, Limits!Push,
        Limits!Trim, Limits!Expire, Limits!Allow
  <2>2. Len(list) >= MaxNum => SubSeq(list, 1, Len(list) - 1) \in Seq(Limits!Time)
    BY <1>1, Numbers, KeepFirst
  <2>3. Len(list) > MaxNum => SubSeq(list, 1, MaxNum) \in Seq(Limits!Time)
    BY <1>1, Numbers, KeepFirst
  <2> QED
    <3>1. <<now>> \o list \in Seq(Limits!Time)
      BY <1>a, PushFront
    <3>2. Len(list) >= MaxNum => <<now>> \o SubSeq(list, 1, Len(list) - 1) \in Seq(Limits!Time)
      BY <1>a, <2>2, PushFront
    <3>3. <<>> \in Seq(Limits!Time)
      OBVIOUS
    <3> QED
      BY <1>a, <2>1, <2>3, <3>1, <3>2, <3>3
<1>8. oldest' \in [Request -> Limits!Time]
  <2>1. oldest' = oldest \/ \E r \in Request : Limits!ReadOldest(r)
    BY DEF Limits!Next, Limits!Tick, Limits!ClearExpiredItems, Limits!MemoryRequest,
        Limits!ReadLength, Limits!Compare, Limits!Serve, Limits!Push,
        Limits!Trim, Limits!Expire, Limits!Allow
  <2>2. ASSUME NEW r \in Request, Limits!ReadOldest(r)
        PROVE  oldest' \in [Request -> Limits!Time]
    <3>1. Len(list) >= MaxNum /\ Len(list) \in 1..Len(list)
      BY <2>2, <1>1, Numbers DEF Limits!ReadOldest, LimitInv, Checks
    <3>2. list[Len(list)] \in Limits!Time
      BY <3>1, <1>1
    <3> QED
      BY <1>1, <2>2, <3>2 DEF Limits!ReadOldest
  <2> QED
    BY <1>1, <2>1, <2>2
<1>9. expires' \in Nat
  <2>1. expires' = expires \/ expires' = MaxTime + 1 \/ expires' = now + Expiry
    BY DEF Limits!Next, Limits!Tick, Limits!ClearExpiredItems, Limits!MemoryRequest,
        Limits!ReadLength, Limits!ReadOldest, Limits!Compare, Limits!Serve, Limits!Push,
        Limits!Trim, Limits!Expire, Limits!Allow
  <2> QED
    BY <2>1, <1>b, Numbers
<1>10. bucket' \in [tokens : 0..(MaxNum * Duration), last : Limits!Time]
  <2>1. bucket' = bucket \/ \E r \in Request : Limits!Allow(r)
    BY DEF Limits!Next, Limits!Tick, Limits!ClearExpiredItems, Limits!MemoryRequest,
        Limits!ReadLength, Limits!ReadOldest, Limits!Compare, Limits!Serve, Limits!Push,
        Limits!Trim, Limits!Expire
  <2>2. ASSUME NEW r \in Request, Limits!Allow(r)
        PROVE  \E n \in 0..(MaxNum * Duration) : bucket' = [tokens |-> n, last |-> now]
    <3> DEFINE filled == bucket.tokens + (now - bucket.last) * MaxNum
               tokens_ == IF filled > MaxNum * Duration THEN MaxNum * Duration ELSE filled
    <3>1. bucket.last <= now /\ bucket.last \in Nat /\ now \in Nat /\ bucket.tokens \in Nat
      BY <1>1, <2>2, Numbers DEF LimitInv, Filled, Limits!Allow, Limits!Time
    <3>2. (now - bucket.last) * MaxNum \in Nat
      BY <3>1, Numbers
    <3>3. tokens_ \in 0..(MaxNum * Duration)
      BY <3>1, <3>2, Numbers
    <3>4. bucket' = [tokens |-> tokens_, last |-> now]
          \/ (bucket' = [tokens |-> tokens_ - Duration, last |-> now] /\ tokens_ >= Duration)
      BY <2>2 DEF Limits!Allow
    <3> QED
      BY <3>3, <3>4, Numbers
  <2> QED
    BY <1>1, <2>1, <2>2
<1> QED
  BY <1>1, <1>2, <1>3, <1>5, <1>6, <1>7, <1>8, <1>9, <1>10 DEF Limits!TypeOK

LEMMA LimitFacts ==
    ASSUME LimitInv
    PROVE  /\ passed \in Seq(Nat) /\ list \in Seq(Nat) /\ now \in Nat /\ now <= MaxTime
           /\ expires \in Nat /\ Len(passed) \in Nat /\ Len(list) \in Nat
           /\ DOMAIN passed = 1..Len(passed) /\ DOMAIN list = 1..Len(list)
           /\ \A i \in DOMAIN passed : passed[i] \in Nat
           /\ \A r \in Request : oldest[r] \in Nat /\ oldest[r] <= MaxTime
           /\ limiter \in Limits!Limiter
<1>1. passed \in Seq(Limits!Time) /\ list \in Seq(Limits!Time) /\ now \in Limits!Time
      /\ oldest \in [Request -> Limits!Time] /\ expires \in Nat
  BY DEF LimitInv, Limits!TypeOK
<1>2. Limits!Time \subseteq Nat /\ \A t \in Limits!Time : t <= MaxTime
  BY Numbers DEF Limits!Time
<1>3. \A s \in Seq(Limits!Time) : s \in Seq(Nat)
  BY <1>2, SeqMonotonic
<1>4. \A r \in Request : oldest[r] \in Limits!Time
  BY <1>1
<1> QED
  <2>1. passed \in Seq(Nat) /\ list \in Seq(Nat) /\ limiter \in Limits!Limiter
    BY <1>1, <1>3 DEF LimitInv, Limits!TypeOK
  <2>2. now \in Nat /\ now <= MaxTime /\ expires \in Nat
    BY <1>1, <1>2
  <2>3. Len(passed) \in Nat /\ Len(list) \in Nat
        /\ DOMAIN passed = 1..Len(passed) /\ DOMAIN list = 1..Len(list)
        /\ \A i \in DOMAIN passed : passed[i] \in Nat
    BY <2>1
  <2>4. \A r \in Request : oldest[r] \in Nat /\ oldest[r] <= MaxTime
    BY <1>2, <1>4
  <2> QED
    BY <2>1, <2>2, <2>3, <2>4

(* One more is let through.                                                *)
LEMMA Admitted ==
    ASSUME LimitInv, Limits!Admit
    PROVE  /\ passed' = Append(passed, now) /\ Len(passed') = Len(passed) + 1
           /\ DOMAIN passed' = 1..(Len(passed) + 1)
           /\ passed'[Len(passed) + 1] = now
           /\ \A i \in 1..Len(passed) : passed'[i] = passed[i]
           /\ now' = now => Timely'
           /\ \A t \in Int : Count(passed', t) = Count(passed, t) + (IF t <= now THEN 1 ELSE 0)
<1>1. passed' = Append(passed, now)
  BY DEF Limits!Admit
<1>2. /\ Len(passed') = Len(passed) + 1 /\ DOMAIN passed' = 1..(Len(passed) + 1)
      /\ passed'[Len(passed) + 1] = now
      /\ \A i \in 1..Len(passed) : passed'[i] = passed[i]
  BY <1>1, LimitFacts
<1>3. \A t \in Int : Count(passed', t) = Count(passed, t) + (IF t <= now THEN 1 ELSE 0)
  BY <1>1, LimitFacts, CountAppend
<1>4. ASSUME now' = now
      PROVE  Timely'
  <2>1. /\ \A i, j \in 1..Len(passed) : i <= j => passed[i] <= passed[j]
        /\ \A i \in 1..Len(passed) : passed[i] <= now /\ passed[i] \in Nat
    BY LimitFacts DEF LimitInv, Timely, InOrder
  <2>2. \A i \in DOMAIN passed' : passed'[i] <= now
    BY <2>1, <1>2, LimitFacts
  <2>3. \A i, j \in DOMAIN passed' : i <= j => passed'[i] <= passed'[j]
    BY <2>1, <1>2, LimitFacts
  <2> QED
    BY <2>2, <2>3, <1>4 DEF Timely, InOrder
<1> QED
  BY <1>1, <1>2, <1>3, <1>4

(* What the windows count.                                                 *)
LEMMA WindowCount ==
    ASSUME LimitInv, NEW t \in Int
    PROVE  /\ Limits!Recent = Count(passed, now + 1 - Duration)
           /\ now < t + Duration =>
                Cardinality(Limits!Within(t, t + Duration - 1)) = Count(passed, t)
           /\ Cardinality(Limits!Within(t, t + Duration - 1)) <= Count(passed, t)
<1>0. /\ \A i \in DOMAIN passed : passed[i] \in Nat /\ passed[i] <= now
      /\ now \in Nat /\ Duration \in Nat /\ passed \in Seq(Nat)
  BY LimitFacts, Numbers DEF LimitInv, Timely
<1>1. Limits!Within(now + 1 - Duration, now) = After(passed, now + 1 - Duration)
  BY <1>0 DEF Limits!Within, After
<1>2. Limits!Recent = Count(passed, now + 1 - Duration)
  BY <1>1, SameCardinality DEF Limits!Recent, Count
<1>3. now < t + Duration => Limits!Within(t, t + Duration - 1) = After(passed, t)
  BY <1>0 DEF Limits!Within, After
<1>4. Limits!Within(t, t + Duration - 1) \in SUBSET After(passed, t)
  BY <1>0 DEF Limits!Within, After
<1> QED
  BY <1>0, <1>2, <1>3, <1>4, AfterFinite, FS_Subset DEF Count

(* The list reaches back to the time of its last entry.                    *)
LEMMA ListCounts ==
    ASSUME LimitInv, limiter # "bucket", Len(list) > 0,
           NEW t \in Int, t <= list[Len(list)]
    PROVE  Count(passed, t) >= Len(list)
<1> DEFINE n == Len(passed)  k == Len(list)
<1>1. k \in Nat /\ n \in Nat /\ k <= n /\ list[k] = passed[n + 1 - k]
  BY LimitFacts DEF LimitInv, Kept
<1>2. n + 1 - k \in 1..n /\ t <= passed[n + 1 - k]
  BY <1>1
<1>3. n + 1 - k > n - Count(passed, t) /\ Count(passed, t) \in Nat
  BY <1>2, LimitFacts, AfterIsTail, AfterFinite DEF LimitInv, Timely
<1> QED
  BY <1>1, <1>3

LEMMA MemorySteps ==
    ASSUME LimitInv, NEW r \in Request, Limits!MemoryRequest(r)
    PROVE  LimitInv'
<1> DEFINE n == Len(passed)  k == Len(list)
<1>1. /\ limiter = "memory" /\ limiter' = limiter /\ now' = now /\ at' = at /\ oldest' = oldest
      /\ expires' = expires /\ bucket' = bucket
  BY DEF Limits!MemoryRequest
<1>2. n \in Nat /\ k \in Nat /\ k <= n /\ k <= MaxNum /\ now \in Nat
      /\ \A i \in 1..k : list[i] = passed[n + 1 - i]
  BY <1>1, LimitFacts DEF LimitInv, Kept, Spaced
<1>3. Limits!TypeOK'
  BY LimitTypes DEF Limits!Next
<1>4. Lasting' /\ Short' /\ Running' /\ Over' /\ Filled'
  BY <1>1 DEF Lists, Lasting, Short, Running, Over, Filled
<1>5. Checks'
  BY <1>1 DEF LimitInv, Checks, Lists
<1>6. ASSUME Limits!Admit, list' \in Seq(Nat), Len(list') <= MaxNum, Len(list') <= k + 1,
             Len(list') >= 1, list'[1] = now, Len(list') < MaxNum => Len(list') = k + 1,
             \A i \in 2..Len(list') : list'[i] = list[i - 1],
             n + 1 > MaxNum => now - passed[n + 1 - MaxNum] >= Duration,
             UNCHANGED early
      PROVE  LimitInv'
  <2>1. Timely' /\ Len(passed') = n + 1 /\ DOMAIN passed' = 1..(n + 1)
        /\ passed'[n + 1] = now /\ \A i \in 1..n : passed'[i] = passed[i]
    BY <1>1, <1>6, Admitted
  <2>2. Kept'
    <3>1. ASSUME NEW i \in 1..Len(list')
          PROVE  list'[i] = passed'[n + 2 - i]
      <4>1. CASE i = 1
        BY <4>1, <1>2, <1>6, <2>1
      <4>2. CASE i # 1
        <5>1. i \in 2..Len(list') /\ i - 1 \in 1..k /\ n + 2 - i \in 1..n
          <6>1. Len(list') \in Nat /\ Len(list') <= k + 1 /\ i \in Nat /\ i >= 2 /\ i <= Len(list')
            BY <4>2, <3>1, <1>6
          <6> QED
            BY <6>1, <1>2
        <5>2. list'[i] = list[i - 1] /\ list[i - 1] = passed[n + 1 - (i - 1)]
          BY <5>1, <1>2, <1>6
        <5>3. n + 1 - (i - 1) = n + 2 - i
          BY <1>2, <5>1
        <5>4. passed'[n + 2 - i] = passed[n + 2 - i]
          BY <5>1, <2>1
        <5> QED
          BY <5>2, <5>3, <5>4
      <4> QED
        BY <4>1, <4>2
    <3>2. ASSUME Len(list') < MaxNum, NEW i \in 1..(n + 1), now - passed'[i] < Duration
          PROVE  i > n + 1 - Len(list')
      <4>1. Len(list') = k + 1 /\ k < MaxNum
        BY <3>2, <1>2, <1>6, Numbers
      <4>2. CASE i \in 1..n
        BY <4>1, <4>2, <3>2, <1>1, <1>2, <2>1, LimitFacts DEF LimitInv, Kept
      <4>3. CASE i = n + 1
        BY <4>1, <4>3, <1>2
      <4> QED
        BY <4>2, <4>3, <1>2
    <3>3. n + 1 + 1 = n + 2 /\ Len(list') <= n + 1
      BY <1>2, <1>6
    <3> QED
      BY <3>1, <3>2, <3>3, <1>1, <2>1 DEF Kept
  <2>3. Spaced'
    <3>1. ASSUME NEW j \in 1..(n + 1), j > MaxNum
          PROVE  passed'[j] - passed'[j - MaxNum] >= Duration
      <4>1. j - MaxNum \in 1..n
        BY <3>1, <1>2, Numbers
      <4>2. CASE j \in 1..n
        <5>1. passed[j] - passed[j - MaxNum] >= Duration
          BY <4>2, <3>1, <1>1, LimitFacts DEF LimitInv, Spaced
        <5> QED
          BY <5>1, <4>1, <4>2, <2>1
      <4>3. CASE j = n + 1
        <5>1. passed'[j - MaxNum] = passed[j - MaxNum] /\ passed'[j] = now
          BY <4>1, <4>3, <2>1
        <5> QED
          <6>1. now - passed[n + 1 - MaxNum] >= Duration
            <7>1. n + 1 > MaxNum
              BY <4>3, <3>1
            <7> QED
              BY <7>1, <1>6
          <6> QED
            BY <6>1, <5>1, <4>3, <1>2, Numbers
      <4> QED
        BY <4>2, <4>3, <1>2
    <3> QED
      BY <3>1, <2>1, <1>6 DEF Spaced
  <2> QED
    BY <1>3, <1>4, <1>5, <1>6, <2>1, <2>2, <2>3 DEF LimitInv
<1>7. CASE k < MaxNum /\ list' = <<now>> \o list /\ Limits!Admit /\ UNCHANGED early
  <2>1. list' \in Seq(Nat) /\ Len(list') = k + 1 /\ list'[1] = now
        /\ \A i \in 2..Len(list') : list'[i] = list[i - 1]
    BY <1>7, LimitFacts, PushFront
  <2>2. n + 1 > MaxNum => now - passed[n + 1 - MaxNum] >= Duration
    <3> SUFFICES ASSUME n + 1 > MaxNum, now - passed[n + 1 - MaxNum] < Duration PROVE FALSE
      BY <1>2, Numbers, LimitFacts
    <3>1. n + 1 - MaxNum \in DOMAIN passed
      BY <1>2, Numbers, LimitFacts
    <3>2. n + 1 - MaxNum > n - k
      BY <3>1, <1>1, <1>7 DEF LimitInv, Kept
    <3> QED
      BY <3>2, <1>2, <1>7, Numbers
  <2> QED
    BY <1>2, <1>6, <1>7, <2>1, <2>2, Numbers
<1>8. CASE /\ k >= MaxNum /\ now - list[k] >= Duration
           /\ list' = <<now>> \o SubSeq(list, 1, k - 1) /\ Limits!Admit /\ UNCHANGED early
  <2> DEFINE s == SubSeq(list, 1, k - 1)
  <2>1. k = MaxNum /\ k - 1 \in 0..k
    BY <1>2, <1>8, Numbers
  <2>2. s \in Seq(Nat) /\ Len(s) = k - 1 /\ \A i \in 1..(k - 1) : s[i] = list[i]
    BY <2>1, LimitFacts, KeepFirst
  <2> HIDE DEF s
  <2>3. list' \in Seq(Nat) /\ Len(list') = k /\ list'[1] = now
        /\ \A i \in 2..Len(list') : list'[i] = s[i - 1]
    BY <1>8, <1>2, <2>2, PushFront DEF s
  <2>4. \A i \in 2..Len(list') : list'[i] = list[i - 1]
    BY <2>2, <2>3, <1>2
  <2>5. now - passed[n + 1 - MaxNum] >= Duration
    BY <1>2, <1>8, <2>1, Numbers
  <2> QED
    BY <1>2, <1>6, <1>8, <2>1, <2>3, <2>4, <2>5, Numbers
<1>9. CASE k >= MaxNum /\ now - list[k] < Duration /\ Limits!Refuse /\ UNCHANGED <<list, passed>>
  <2>1. k > 0 /\ list[k] \in Nat
    BY <1>9, <1>2, Numbers, LimitFacts
  <2>2. now + 1 - Duration \in Int /\ now + 1 - Duration <= list[k]
    BY <1>9, <1>2, <2>1, Numbers
  <2>3. Count(passed, now + 1 - Duration) >= MaxNum
    <3>1. Count(passed, now + 1 - Duration) >= k
      BY <1>1, <2>1, <2>2, ListCounts
    <3> QED
      BY <3>1, <1>2, <1>9, <2>2, LimitFacts, AfterFinite, Numbers
  <2>4. early' = FALSE
    <3>1. Limits!Recent = Count(passed, now + 1 - Duration)
      BY <2>2, WindowCount
    <3>2. Count(passed, now + 1 - Duration) \in Nat
      BY <2>2, LimitFacts, AfterFinite
    <3>3. ~(Limits!Recent < MaxNum)
      BY <3>1, <3>2, <2>3, Numbers
    <3> QED
      BY <3>3, <1>9 DEF LimitInv, Limits!Refuse
  <2>5. Timely' /\ Kept' /\ Spaced'
    BY <1>1, <1>9 DEF LimitInv, Timely, Kept, Spaced
  <2> QED
    BY <1>3, <1>4, <1>5, <2>4, <2>5 DEF LimitInv
<1> QED
  BY <1>7, <1>8, <1>9 DEF Limits!MemoryRequest

LEMMA ClearStep ==
    ASSUME LimitInv, Limits!ClearExpiredItems
    PROVE  LimitInv'
<1> DEFINE n == Len(passed)  k == Len(list)
<1>1. /\ limiter = "memory" /\ list # <<>> /\ now - list[1] > Expiry /\ list' = <<>>
      /\ UNCHANGED <<limiter, now, expires, bucket, at, oldest, passed, early>>
  BY DEF Limits!ClearExpiredItems
<1>2. Limits!TypeOK'
  BY LimitTypes DEF Limits!Next
<1>3. Lasting' /\ Short' /\ Running' /\ Over' /\ Filled' /\ Checks' /\ Timely'
  BY <1>1 DEF LimitInv, Lists, Lasting, Short, Running, Over, Filled, Checks, Timely
<1>4. Spaced'
  BY <1>1, Numbers DEF LimitInv, Spaced
<1>5. Kept'
  <2>1. k \in Nat /\ k > 0 /\ n \in Nat /\ k <= n /\ list[1] = passed[n + 1 - 1]
    BY <1>1, LimitFacts DEF LimitInv, Kept
  <2>2. ASSUME NEW i \in 1..n
        PROVE  now - passed[i] >= Duration
    <3>1. n \in 1..n /\ n + 1 - 1 = n /\ i <= n
      BY <2>1
    <3>2. passed[i] <= passed[n] /\ passed[i] \in Nat /\ passed[n] \in Nat
      BY <3>1, LimitFacts DEF LimitInv, Timely, InOrder
    <3>3. now - passed[n] > Expiry
      BY <1>1, <2>1, <3>1
    <3> QED
      BY <3>2, <3>3, LimitFacts, Numbers
  <2>3. Len(list') = 0 /\ Len(passed') = n /\ DOMAIN passed' = 1..n
    BY <1>1, LimitFacts
  <2>4. \A i \in 1..n : ~(now - passed[i] < Duration)
    BY <2>2, LimitFacts, Numbers
  <2> QED
    BY <1>1, <2>1, <2>3, <2>4 DEF Kept
<1> QED
  BY <1>1, <1>2, <1>3, <1>4, <1>5 DEF LimitInv

LEMMA Times ==
    /\ \A a, b, c \in Int : a <= b /\ c >= 0 => c * a <= c * b
    /\ \A a, b, c \in Int : c * (a + b) = c * a + c * b
    /\ \A a, b, c \in Int : c > 0 /\ c * a < c * b => a < b
    /\ \A a, b \in Int : a * b \in Int /\ a * b = b * a
    /\ \A a \in Int : 1 * a = a /\ a * 1 = a /\ 0 * a = 0 /\ a * 0 = 0
<1>1. \A a, b, c \in Int : c * (a + b) = c * a + c * b
  OBVIOUS
<1>2. \A a, b \in Int : a * b \in Int /\ a * b = b * a
  OBVIOUS
<1>3. \A a \in Int : 1 * a = a /\ a * 1 = a /\ 0 * a = 0 /\ a * 0 = 0
  OBVIOUS
<1>4. ASSUME NEW a \in Int, NEW b \in Int, NEW c \in Int, a <= b, c >= 0
      PROVE  c * a <= c * b
  <2>1. c * b = c * a + c * (b - a)
    BY <1>1
  <2>2. c * (b - a) >= 0
    BY <1>4
  <2> QED
    BY <2>1, <2>2, <1>2
<1>5. ASSUME NEW a \in Int, NEW b \in Int, NEW c \in Int, c > 0, c * a < c * b
      PROVE  a < b
  <2>1. b <= a => c * b <= c * a
    BY <1>4, <1>5
  <2> QED
    BY <2>1, <1>2, <1>5
<1> QED
  BY <1>1, <1>2, <1>3, <1>4, <1>5

LEMMA BucketFacts ==
    ASSUME LimitInv, limiter = "bucket"
    PROVE  /\ bucket.last \in Nat /\ bucket.last <= now
           /\ bucket.tokens \in Nat /\ bucket.tokens <= MaxNum * Duration
           /\ \A t \in Int : t > bucket.last => Count(passed, t) = 0
<1>1. bucket \in [tokens : 0..(MaxNum * Duration), last : Limits!Time]
  BY DEF LimitInv, Limits!TypeOK
<1>2. bucket.last \in Limits!Time /\ bucket.tokens \in 0..(MaxNum * Duration)
  BY <1>1
<1>3. bucket.last <= now /\ \A i \in DOMAIN passed : passed[i] <= bucket.last
  BY DEF LimitInv, Filled
<1>4. bucket.last \in Nat /\ bucket.tokens \in Nat /\ bucket.tokens <= MaxNum * Duration
  BY <1>2, Numbers DEF Limits!Time
<1>5. ASSUME NEW t \in Int, t > bucket.last
      PROVE  Count(passed, t) = 0
  <2>1. After(passed, t) = {}
    BY <1>3, <1>4, <1>5, LimitFacts DEF After
  <2> QED
    BY <2>1, FS_EmptySet DEF Count
<1> QED
  BY <1>3, <1>4, <1>5

(* What the bucket lets through in a window that is not over.              *)
LEMMA BucketCount ==
    ASSUME LimitInv, limiter = "bucket", NEW t \in Limits!Time, now < t + Duration
    PROVE  Count(passed, t) <= 2 * MaxNum - 1
<1> DEFINE c == Count(passed, t)  last == bucket.last
<1>0. t \in Nat /\ passed \in Seq(Nat) /\ now \in Nat
  BY LimitFacts, Numbers DEF Limits!Time
<1>1. t \in Nat /\ c \in Nat /\ now \in Nat /\ MaxNum \in Nat /\ MaxNum > 0 /\ Duration \in Nat
      /\ Duration > 0
  <2>1. c \in Nat
    BY <1>0, AfterFinite
  <2> QED
    BY <2>1, <1>0, Numbers
<1>2. last \in Nat /\ last <= now /\ bucket.tokens \in Nat
  BY BucketFacts
<1>3. CASE t <= last
  <2>1. Duration * c + bucket.tokens <= MaxNum * Duration + MaxNum * (last - t)
    BY <1>3 DEF LimitInv, Filled
  <2>2. MaxNum * (last - t) <= MaxNum * (Duration + (-1))
    <3>1. last - t <= Duration + (-1) /\ last - t \in Int /\ Duration + (-1) \in Int
      BY <1>1, <1>2
    <3>2. MaxNum \in Int /\ MaxNum >= 0
      BY <1>1
    <3> HIDE DEF last
    <3> QED
      BY <3>1, <3>2, Times
  <2>3. MaxNum * (Duration + (-1)) = MaxNum * Duration + MaxNum * (-1)
    BY <1>1, Times
  <2>4. MaxNum * (-1) = -MaxNum
    BY <1>1
  <2>5. Duration * (2 * MaxNum) = MaxNum * Duration + MaxNum * Duration
    <3>1. 2 * MaxNum = MaxNum + MaxNum
      BY <1>1
    <3> QED
      BY <3>1, <1>1, Times
  <2>6. Duration * c \in Int /\ MaxNum * Duration \in Int /\ MaxNum * (last - t) \in Int
    BY <1>1, <1>2, Times
  <2>7. Duration * c < Duration * (2 * MaxNum)
    BY <1>1, <1>2, <2>1, <2>2, <2>3, <2>4, <2>5, <2>6
  <2>8. 2 * MaxNum \in Int /\ c \in Int /\ Duration \in Int
    BY <1>1
  <2> QED
    BY <2>7, <2>8, <1>1, Times
<1>4. CASE ~(t <= last)
  <2>1. c = 0
    BY <1>1, <1>2, <1>4, BucketFacts
  <2> QED
    BY <2>1, <1>1
<1> QED
  BY <1>3, <1>4

LEMMA TickStep ==
    ASSUME LimitInv, Limits!Tick
    PROVE  LimitInv'
<1> DEFINE n == Len(passed)  k == Len(list)
<1>1. /\ \A r \in Request : at[r] \in {"idle", "serve"}
      /\ now' = now + 1
      /\ UNCHANGED <<limiter, expires, bucket, at, oldest, passed, early>>
  BY DEF Limits!Tick
<1>2. \/ list' = list
      \/ list' = <<>> /\ limiter \in Lists /\ expires <= now + 1
  BY DEF Limits!Tick, Lists
<1>3. Limits!TypeOK'
  BY LimitTypes DEF Limits!Next
<1>4. n \in Nat /\ k \in Nat /\ now \in Nat /\ DOMAIN passed = 1..n /\ passed \in Seq(Nat)
      /\ \A i \in 1..n : passed[i] \in Nat /\ passed[i] <= now
  BY LimitFacts DEF LimitInv, Timely
<1>5. Timely'
  BY <1>1, <1>4 DEF LimitInv, Timely
<1>6. Kept'
  <2>1. CASE list' = list
    <3>1. \A i \in 1..n : now + 1 - passed[i] < Duration => now - passed[i] < Duration
      BY <1>4, Numbers
    <3> QED
      BY <2>1, <3>1, <1>1, <1>4 DEF LimitInv, Kept
  <2>2. CASE list' = <<>> /\ limiter \in Lists /\ expires <= now + 1
    <3>1. limiter # "bucket" /\ Len(list') = 0
      BY <2>2 DEF Lists
    <3>2. ASSUME NEW i \in 1..n
          PROVE  ~(now + 1 - passed[i] < Duration)
      <4>1. CASE list = <<>>
        <5>1. k = 0 /\ k < MaxNum
          BY <4>1, Numbers
        <5>2. now - passed[i] < Duration => i > n - 0
          BY <5>1, <3>1, <1>4 DEF LimitInv, Kept
        <5> QED
          BY <5>2, <1>4, Numbers
      <4>2. CASE list # <<>>
        <5>1. At({"trim", "expire"}) = {}
          BY <1>1 DEF At
        <5>2. expires >= list[1] + Expiry
          BY <4>2, <5>1, <2>2 DEF LimitInv, Lasting
        <5>3. k > 0 /\ k <= n /\ list[1] = passed[n + 1 - 1]
          BY <4>2, <3>1, LimitFacts DEF LimitInv, Kept
        <5>4. n + 1 - 1 = n /\ n \in 1..n
          BY <5>3, <1>4
        <5>5. passed[i] <= passed[n]
          BY <5>4, <1>4 DEF LimitInv, Timely, InOrder
        <5>6. expires \in Nat /\ expires <= now + 1
          BY <2>2, LimitFacts
        <5> QED
          BY <5>2, <5>3, <5>4, <5>5, <5>6, <1>4, Numbers
      <4> QED
        BY <4>1, <4>2
    <3> QED
      BY <3>1, <3>2, <1>1, <1>4, <2>2 DEF Kept
  <2> QED
    BY <1>2, <2>1, <2>2
<1>7. Lasting'
  BY <1>1, <1>2 DEF LimitInv, Lasting, At
<1>8. Short'
  <2>1. Len(list') \in Nat /\ Len(list') <= k
    BY <1>2, <1>4
  <2>2. Cardinality(At({"pushOnly"})) \in Nat /\ Cardinality(At({"trim"})) \in Nat
    <3>1. At({"pushOnly"}) \in SUBSET Request /\ At({"trim"}) \in SUBSET Request
      BY DEF At
    <3> QED
      BY <3>1, SomeRequests
  <2>3. At({"pushOnly"})' = At({"pushOnly"}) /\ At({"trim"})' = At({"trim"})
    BY <1>1 DEF At
  <2>4. limiter \in Lists => k + Cardinality(At({"pushOnly"})) <= MaxNum - 1 + Requests + Cardinality(At({"trim"}))
    BY DEF LimitInv, Short
  <2>5. limiter \in Lists => Len(list') + Cardinality(At({"pushOnly"})) <= MaxNum - 1 + Requests + Cardinality(At({"trim"}))
    BY <2>1, <2>2, <2>4, <1>4, Numbers
  <2> QED
    BY <2>5, <2>3, <1>1 DEF Short, Requests
<1>9. Checks'
  BY <1>1 DEF LimitInv, Checks
<1>10. Running'
  <2>1. \A t \in Limits!Time : now + 1 < t + Duration => now < t + Duration
    BY <1>4, Numbers DEF Limits!Time
  <2>2. \A t : Loaded(t)' = Loaded(t)
    BY <1>1 DEF Loaded
  <2>3. Limits!Bound' = Limits!Bound
    BY <1>1 DEF Limits!Bound
  <2> QED
    BY <2>1, <2>2, <2>3, <1>1 DEF LimitInv, Running, Limits!Time
<1>11. Over'
  <2> SUFFICES ASSUME limiter # "memory", NEW t \in Limits!Time, t + Duration <= now + 1
               PROVE  Cardinality(Limits!Within(t, t + Duration - 1)) <= Limits!Bound
    <3>1. Limits!Bound' = Limits!Bound
      BY <1>1 DEF Limits!Bound
    <3>2. \A t, u : Limits!Within(t, u)' = Limits!Within(t, u)
      BY <1>1 DEF Limits!Within
    <3> QED
      BY <3>1, <3>2, <1>1 DEF Over, Limits!Time
  <2>1. t \in Nat /\ Duration \in Nat
    BY Numbers DEF Limits!Time
  <2>2. CASE t + Duration <= now
    BY <2>2 DEF LimitInv, Over
  <2>3. CASE now < t + Duration
    <3>1. Cardinality(Limits!Within(t, t + Duration - 1)) = Count(passed, t)
      BY <2>1, <2>3, WindowCount
    <3>2. CASE limiter = "bucket"
      BY <3>1, <3>2, <2>3, BucketCount DEF Limits!Bound
    <3>3. CASE limiter \in Lists
      <4>1. Count(passed, t) + Cardinality(Loaded(t)) <= Limits!Bound
        BY <2>3, <3>3 DEF LimitInv, Running
      <4>2. Cardinality(Loaded(t)) \in Nat
        <5>1. Loaded(t) \in SUBSET Request
          BY DEF Loaded
        <5> QED
          BY <5>1, SomeRequests
      <4>3. Count(passed, t) \in Nat
        BY <1>4, <2>1, AfterFinite
      <4>4. Limits!Bound \in Int
        BY <3>3, ListBound, Numbers
      <4> QED
        BY <3>1, <4>1, <4>2, <4>3, <4>4
    <3>4. limiter = "bucket" \/ limiter \in Lists
      BY LimitFacts DEF Limits!Limiter, Lists
    <3> QED
      BY <3>2, <3>3, <3>4
  <2> QED
    BY <2>1, <2>2, <2>3, <1>4
<1>12. Spaced'
  BY <1>1, <1>2 DEF LimitInv, Spaced, Lists
<1>13. Filled'
  <2>1. limiter = "bucket" => bucket.last \in Nat /\ bucket.last <= now
    BY BucketFacts
  <2>2. limiter = "bucket" => bucket.last <= now + 1
    BY <2>1, <1>4
  <2> QED
    BY <2>2, <1>1 DEF LimitInv, Filled, Limits!Time
<1> QED
  BY <1>1, <1>3, <1>5, <1>6, <1>7, <1>8, <1>9, <1>10, <1>11, <1>12, <1>13 DEF LimitInv

(* What the script finds in the bucket at now.                             *)
Found ==
    LET filled == bucket.tokens + (now - bucket.last) * MaxNum
    IN  IF filled > MaxNum * Duration THEN MaxNum * Duration ELSE filled

LEMMA FoundTokens ==
    ASSUME LimitInv, limiter = "bucket"
    PROVE  /\ Found \in Nat /\ Found <= MaxNum * Duration
           /\ \A t \in Limits!Time : t <= now =>
                 Duration * Count(passed, t) + Found <= MaxNum * Duration + MaxNum * (now - t)
           /\ \A t \in Int : t <= now + 1 =>
                 \/ MaxNum * Duration <= Found + Duration * Count(passed, t)
                 \/ MaxNum * (now + 1 - t) <= Found + Duration * Count(passed, t)
<1> DEFINE last == bucket.last  hold == bucket.tokens  full == MaxNum * Duration
           come == MaxNum * (now - last)
<1>1. /\ last \in Nat /\ last <= now /\ hold \in Nat /\ hold <= full /\ now \in Nat
      /\ full \in Nat /\ passed \in Seq(Nat)
  BY BucketFacts, LimitFacts, Numbers
<1>2. MaxNum \in Nat /\ Duration \in Nat /\ MaxNum > 0 /\ Duration > 0
  BY Numbers
<1>3. come \in Nat
  BY <1>1, <1>2
<1>4. Found = IF hold + come > full THEN full ELSE hold + come
  <2>1. (now - last) * MaxNum = come
    BY <1>1, <1>2
  <2> QED
    BY <2>1 DEF Found
<1>5. Found \in Nat /\ Found <= full /\ Found <= hold + come
  BY <1>1, <1>3, <1>4
<1>6. ASSUME NEW t \in Limits!Time, t <= now
      PROVE  Duration * Count(passed, t) + Found <= full + MaxNum * (now - t)
  <2> DEFINE c == Count(passed, t)
  <2>1. t \in Nat
    BY Numbers DEF Limits!Time
  <2>2. c \in Nat
    BY <2>1, <1>1, AfterFinite
  <2>3. Duration * c \in Int /\ MaxNum * (now - t) \in Int
    BY <2>1, <2>2, <1>1, <1>2
  <2>4. CASE t <= last
    <3>1. Duration * c + hold <= full + MaxNum * (last - t)
      BY <2>4 DEF LimitInv, Filled
    <3>2. MaxNum * (now - t) = MaxNum * (last - t) + come
      <4>1. now - t = (last - t) + (now - last) /\ last - t \in Int /\ now - last \in Int
            /\ MaxNum \in Int
        BY <1>1, <1>2, <2>1
      <4> HIDE DEF last
      <4> QED
        BY <4>1, Times DEF come
    <3>3. MaxNum * (last - t) \in Int
      BY <1>1, <1>2, <2>1
    <3> QED
      BY <3>1, <3>2, <3>3, <2>3, <1>5, <1>1, <1>3
  <2>5. CASE t > last
    <3>1. c = 0
      BY <2>1, <2>5, BucketFacts
    <3>2. Duration * c = 0
      BY <3>1, <1>2
    <3>3. MaxNum * (now - t) >= 0
      BY <1>6, <1>1, <1>2, <2>1
    <3> QED
      BY <3>2, <3>3, <2>3, <1>1, <1>5
  <2> QED
    BY <2>4, <2>5, <2>1, <1>1
<1>7. ASSUME NEW t \in Int, t <= now + 1, Found # full
      PROVE  \/ full <= Found + Duration * Count(passed, t)
             \/ MaxNum * (now + 1 - t) <= Found + Duration * Count(passed, t)
  <2> DEFINE c == Count(passed, t)
  <2>1. Found = hold + come
    BY <1>7, <1>4
  <2>2. c \in Nat
    BY <1>1, AfterFinite
  <2>3. Duration * c \in Nat /\ MaxNum * (now + 1 - t) \in Int
    BY <2>2, <1>1, <1>2
  <2>4. CASE t <= last + 1
    <3>1. \/ full <= hold + Duration * c
          \/ MaxNum * (last + 1 - t) <= hold + Duration * c
      BY <2>4 DEF LimitInv, Filled
    <3>2. MaxNum * (now + 1 - t) = MaxNum * (last + 1 - t) + come
      <4>1. now + 1 - t = (last + 1 - t) + (now - last) /\ last + 1 - t \in Int
            /\ now - last \in Int /\ MaxNum \in Int
        BY <1>1, <1>2
      <4> HIDE DEF last
      <4> QED
        BY <4>1, Times DEF come
    <3> DEFINE before == MaxNum * (last + 1 - t)  given == Duration * c
    <3>3. before \in Int /\ given \in Nat /\ hold \in Nat /\ full \in Nat /\ come \in Nat
      BY <2>3, <1>1, <1>2, <1>3
    <3>4. full <= hold + given \/ before <= hold + given
      BY <3>1
    <3>5. MaxNum * (now + 1 - t) = before + come
      BY <3>2
    <3> HIDE DEF before, given, come, hold, full
    <3>6. full <= hold + come + given \/ before + come <= hold + come + given
      BY <3>3, <3>4
    <3> QED
      BY <3>5, <3>6, <2>1 DEF given
  <2>5. CASE t > last + 1
    <3>1. MaxNum * (now + 1 - t) <= come
      <4>1. now + 1 - t <= now - last /\ now + 1 - t \in Int /\ now - last \in Int
            /\ MaxNum \in Int /\ MaxNum >= 0
        BY <2>5, <1>1, <1>2
      <4> HIDE DEF last
      <4> QED
        BY <4>1, Times DEF come
    <3> QED
      BY <3>1, <2>1, <2>3, <1>1, <1>3
  <2> QED
    BY <2>4, <2>5, <1>1
<1>8. ASSUME NEW t \in Int, Found = full
      PROVE  full <= Found + Duration * Count(passed, t)
  <2>1. Count(passed, t) \in Nat
    BY <1>1, AfterFinite
  <2>2. Duration * Count(passed, t) >= 0 /\ Duration * Count(passed, t) \in Int
    BY <2>1, <1>2
  <2> QED
    BY <2>2, <1>1, <1>5, <1>8
<1> QED
  BY <1>5, <1>6, <1>7, <1>8

LEMMA AllowStep ==
    ASSUME LimitInv, NEW r \in Request, Limits!Allow(r)
    PROVE  LimitInv'
<1>1. limiter = "bucket" /\ UNCHANGED <<limiter, now, list, expires, at, oldest>>
  BY DEF Limits!Allow
<1>2. \/ /\ Found >= Duration /\ bucket' = [tokens |-> Found - Duration, last |-> now]
         /\ Limits!Admit /\ UNCHANGED early
      \/ /\ ~(Found >= Duration) /\ bucket' = [tokens |-> Found, last |-> now]
         /\ Limits!Refuse /\ UNCHANGED passed
  BY DEF Limits!Allow, Found
<1>3. Limits!TypeOK'
  BY LimitTypes DEF Limits!Next
<1>4. Kept' /\ Lasting' /\ Short' /\ Running' /\ Spaced'
  BY <1>1 DEF Kept, Lasting, Short, Running, Spaced, Lists
<1>5. Checks'
  BY <1>1 DEF LimitInv, Checks, Lists
<1>6. /\ now \in Nat /\ Found \in Nat /\ passed \in Seq(Nat) /\ Found <= MaxNum * Duration
      /\ MaxNum \in Nat /\ Duration \in Nat /\ Duration > 0 /\ MaxNum > 0
      /\ MaxNum * Duration \in Nat
  BY <1>1, LimitFacts, FoundTokens, Numbers
<1>7. Timely' /\ DOMAIN passed' = 1..Len(passed') /\ now' = now
      /\ \A i \in DOMAIN passed' : passed'[i] <= now
  <2>1. CASE Limits!Admit
    <3>1. Timely' /\ DOMAIN passed' = 1..Len(passed')
      BY <2>1, <1>1, Admitted
    <3> QED
      BY <3>1, <1>1 DEF Timely
  <2>2. CASE UNCHANGED passed
    BY <2>2, <1>1, LimitFacts DEF LimitInv, Timely
  <2> QED
    BY <1>2, <2>1, <2>2
<1>8. Over'
  <2> SUFFICES ASSUME NEW t \in Limits!Time, t + Duration <= now
               PROVE  Limits!Within(t, t + Duration - 1)' = Limits!Within(t, t + Duration - 1)
    <3>1. Limits!Bound' = Limits!Bound
      BY <1>1 DEF Limits!Bound
    <3> QED
      BY <3>1, <1>1 DEF LimitInv, Over, Limits!Time
  <2>1. t \in Nat
    BY Numbers DEF Limits!Time
  <2>2. CASE Limits!Admit
    <3>1. /\ DOMAIN passed' = 1..(Len(passed) + 1) /\ passed'[Len(passed) + 1] = now
          /\ \A i \in 1..Len(passed) : passed'[i] = passed[i]
          /\ DOMAIN passed = 1..Len(passed) /\ Len(passed) \in Nat
      BY <2>2, Admitted, LimitFacts
    <3>2. ~(now <= t + Duration - 1)
      BY <2>1, <1>6
    <3> QED
      BY <3>1, <3>2 DEF Limits!Within
  <2>3. CASE UNCHANGED passed
    BY <2>3 DEF Limits!Within
  <2> QED
    BY <1>2, <2>2, <2>3
<1>9. CASE /\ Found >= Duration /\ bucket' = [tokens |-> Found - Duration, last |-> now]
           /\ Limits!Admit /\ UNCHANGED early
  <2>1. bucket'.tokens = Found - Duration /\ bucket'.last = now
    BY <1>9
  <2>2. \A t \in Int : Count(passed', t) = Count(passed, t) + (IF t <= now THEN 1 ELSE 0)
    BY <1>9, Admitted
  <2>3. \A t \in Int : Count(passed, t) \in Nat
    BY <1>6, AfterFinite
  <2>4. ASSUME NEW t \in Int, t <= now
        PROVE  Duration * Count(passed', t) + (Found - Duration) = Duration * Count(passed, t) + Found
    <3>1. Count(passed', t) = Count(passed, t) + 1
      BY <2>2, <2>4
    <3>2. Count(passed, t) \in Int /\ Duration \in Int
      BY <2>3, <1>6
    <3>3. Duration * Count(passed', t) = Duration * Count(passed, t) + Duration
      BY <3>1, <3>2
    <3>4. Duration * Count(passed, t) \in Int
      BY <3>2
    <3> QED
      BY <3>3, <3>4, <1>6
  <2>5. ASSUME NEW t \in Limits!Time, t <= now
        PROVE  Duration * Count(passed', t) + bucket'.tokens
                 <= MaxNum * Duration + MaxNum * (now - t)
    <3>1. t \in Int
      BY Numbers DEF Limits!Time
    <3> QED
      BY <2>1, <2>4, <2>5, <3>1, <1>1, FoundTokens
  <2>6. ASSUME NEW t \in Int, t <= now + 1
        PROVE  \/ MaxNum * Duration <= bucket'.tokens + Duration * Count(passed', t)
               \/ MaxNum * (now + 1 - t) <= bucket'.tokens + Duration * Count(passed', t)
    <3>0. Count(passed', t) \in Nat /\ Count(passed, t) \in Nat
      BY <2>2, <2>3
    <3>1. CASE t <= now
      <4>1. bucket'.tokens + Duration * Count(passed', t) = Found + Duration * Count(passed, t)
        <5>1. Duration * Count(passed', t) \in Int /\ Duration * Count(passed, t) \in Int
          BY <3>0, <1>6
        <5> QED
          BY <5>1, <2>1, <2>4, <3>1, <1>6
      <4> QED
        BY <4>1, <2>6, <1>1, FoundTokens
    <3>2. CASE t = now + 1
      <4>1. MaxNum * (now + 1 - t) = 0
        BY <3>2, <1>6
      <4>2. Duration * Count(passed', t) >= 0 /\ Duration * Count(passed', t) \in Int
        BY <3>0, <1>6
      <4>3. Found - Duration >= 0 /\ Found - Duration \in Int
        BY <1>6, <1>9
      <4> QED
        BY <4>1, <4>2, <4>3, <2>1
    <3> QED
      BY <2>6, <3>1, <3>2, <1>6
  <2>7. Filled'
    BY <2>1, <2>5, <2>6, <1>6, <1>7, <1>1 DEF Filled, Limits!Time
  <2> QED
    BY <1>3, <1>4, <1>5, <1>7, <1>8, <1>9, <2>7 DEF LimitInv
<1>10. CASE /\ ~(Found >= Duration) /\ bucket' = [tokens |-> Found, last |-> now]
            /\ Limits!Refuse /\ UNCHANGED passed
  <2>1. bucket'.tokens = Found /\ bucket'.last = now
    BY <1>10
  <2>2. Filled'
    BY <2>1, <1>6, <1>7, <1>10, <1>1, FoundTokens DEF Filled, Limits!Time
  <2>3. early' = FALSE
    <3> DEFINE t == now + 1 - Duration  c == Count(passed, t)
    <3>1. t \in Int /\ t <= now + 1 /\ now + 1 - t = Duration
      BY <1>6
    <3>2. c \in Nat
      BY <3>1, <1>6, AfterFinite
    <3>3. MaxNum * Duration <= Found + Duration * c
      BY <3>1, <1>1, FoundTokens
    <3>4. Duration * (MaxNum + (-1)) < Duration * c
      <4>1. Duration * (MaxNum + (-1)) = MaxNum * Duration + (-Duration)
        BY <1>6
      <4>2. Duration * c \in Int
        BY <3>2, <1>6
      <4> QED
        BY <4>1, <4>2, <3>3, <1>6, <1>10
    <3>5. MaxNum + (-1) < c
      <4>1. MaxNum + (-1) \in Int /\ c \in Int /\ Duration \in Int /\ Duration > 0
        BY <3>2, <1>6
      <4> HIDE DEF c
      <4> QED
        BY <4>1, <3>4, Times
    <3>6. Limits!Recent = c
      BY <3>1, WindowCount
    <3>7. ~(Limits!Recent < MaxNum)
      BY <3>2, <3>5, <3>6, <1>6
    <3> QED
      BY <3>7, <1>10 DEF LimitInv, Limits!Refuse
  <2> QED
    BY <1>3, <1>4, <1>5, <1>7, <1>8, <2>2, <2>3 DEF LimitInv
<1> QED
  BY <1>2, <1>9, <1>10

LEMMA InLists ==
    ASSUME LimitInv, NEW r \in Request, at[r] # "idle"
    PROVE  limiter \in Lists
BY DEF LimitInv, Checks

(* Who is where after r moved to s.                                        *)
LEMMA Moved ==
    ASSUME LimitInv, NEW r \in Request, NEW s, Limits!Goto(r, s), NEW S
    PROVE  /\ at'[r] = s /\ \A q \in Request : q # r => at'[q] = at[q]
           /\ s \in S => At(S)' = At(S) \cup {r}
           /\ s \notin S => At(S)' = At(S) \ {r}
<1>1. at \in [Request -> {"idle", "index", "compare", "serve", "push", "pushOnly", "trim", "expire"}]
  BY DEF LimitInv, Limits!TypeOK
<1>2. at'[r] = s /\ \A q \in Request : q # r => at'[q] = at[q]
  BY <1>1 DEF Limits!Goto
<1> QED
  BY <1>2 DEF At

(* A list that is short holds the whole running window.                    *)
LEMMA ShortCounts ==
    ASSUME LimitInv, limiter # "bucket", Len(list) < MaxNum, NEW t \in Int, now < t + Duration
    PROVE  Count(passed, t) <= Len(list)
<1> DEFINE n == Len(passed)  k == Len(list)  c == Count(passed, t)
<1>1. n \in Nat /\ k \in Nat /\ passed \in Seq(Nat) /\ now \in Nat
      /\ DOMAIN passed = 1..n /\ \A i \in DOMAIN passed : passed[i] \in Nat
  BY LimitFacts
<1>2. c \in Nat /\ c <= n
  BY <1>1, AfterFinite
<1>3. CASE c = 0
  BY <1>1, <1>3
<1>4. CASE c > 0
  <2>1. n - c + 1 \in 1..n
    BY <1>1, <1>2, <1>4
  <2>2. n - c + 1 > n - c
    BY <1>1, <1>2
  <2>a. \A i \in 1..n : t <= passed[i] <=> i > n - c
    BY <1>1, AfterIsTail DEF LimitInv, Timely
  <2>3. t <= passed[n - c + 1]
    BY <2>1, <2>2, <2>a
  <2>4. now - passed[n - c + 1] < Duration
    BY <2>1, <2>3, <1>1, Numbers
  <2>5. n - c + 1 > n - k
    BY <2>1, <2>4, <1>1 DEF LimitInv, Kept
  <2> QED
    BY <2>5, <1>1, <1>2
<1> QED
  BY <1>2, <1>3, <1>4

(* A list whose last entry is older than t holds the window from t on.     *)
LEMMA LongCounts ==
    ASSUME LimitInv, limiter # "bucket", Len(list) > 0, NEW t \in Int, list[Len(list)] < t
    PROVE  Count(passed, t) <= Len(list) - 1
<1> DEFINE n == Len(passed)  k == Len(list)  c == Count(passed, t)
<1>1. n \in Nat /\ k \in Nat /\ passed \in Seq(Nat) /\ DOMAIN passed = 1..n
  BY LimitFacts
<1>2. c \in Nat /\ c <= n
  BY <1>1, AfterFinite
<1>3. k <= n /\ list[k] = passed[n + 1 - k]
  BY <1>1 DEF LimitInv, Kept
<1>4. n + 1 - k \in 1..n /\ passed[n + 1 - k] \in Nat
  BY <1>1, <1>3
<1>5. ~(n + 1 - k > n - c)
  <2>1. ~(t <= passed[n + 1 - k])
    BY <1>3, <1>4
  <2> QED
    BY <2>1, <1>1, <1>4, AfterIsTail DEF LimitInv, Timely
<1> QED
  BY <1>1, <1>2, <1>5

(* Then those that are let through in addition to the list are not among   *)
(* those that will cut it.                                                 *)
LEMMA LoadedBound ==
    ASSUME NEW P \in SUBSET Request, NEW Q \in SUBSET Request, NEW L \in SUBSET Request,
           P \subseteq L, Q \cap L = {}, NEW k \in Nat, NEW c \in Nat, c <= k - 1,
           k + Cardinality(P) <= MaxNum - 1 + Requests + Cardinality(Q)
    PROVE  c + Cardinality(L) <= MaxNum + 2 * (Requests - 1)
<1>1. Cardinality(Q) + Cardinality(L \ P) <= Requests
  <2>1. L \ P \in SUBSET Request /\ Q \cap (L \ P) = {}
    OBVIOUS
  <2> QED
    BY <2>1, TwoGroups
<1>2. Cardinality(L) = Cardinality(P) + Cardinality(L \ P)
  <2>1. IsFiniteSet(P) /\ IsFiniteSet(L \ P)
    BY SomeRequests
  <2>2. P \cup (L \ P) = L /\ P \cap (L \ P) = {}
    OBVIOUS
  <2>3. Cardinality(P \cup (L \ P)) = Cardinality(P) + Cardinality(L \ P) - Cardinality(P \cap (L \ P))
    BY <2>1, FS_Union
  <2>4. Cardinality(P \cap (L \ P)) = 0
    BY <2>2, FS_EmptySet
  <2>5. Cardinality(P) \in Nat /\ Cardinality(L \ P) \in Nat
    BY SomeRequests
  <2> DEFINE z == P \cap (L \ P)  R == L \ P
  <2>6. Cardinality(L) = Cardinality(P) + Cardinality(R) - Cardinality(z)
    BY <2>2, <2>3
  <2>7. Cardinality(z) = 0 /\ Cardinality(R) \in Nat
    BY <2>4, <2>5
  <2> HIDE DEF z, R
  <2>8. Cardinality(L) = Cardinality(P) + Cardinality(R)
    BY <2>5, <2>6, <2>7
  <2> QED
    BY <2>8 DEF R
<1>3. Cardinality(P) \in Nat /\ Cardinality(Q) \in Nat /\ Cardinality(L) \in Nat
      /\ Cardinality(L \ P) \in Nat
  BY SomeRequests
<1> QED
  BY <1>1, <1>2, <1>3, Numbers

(* A step that only moves requests.                                        *)
LEMMA ListFrame ==
    ASSUME LimitInv, limiter \in Lists, UNCHANGED <<limiter, now, list, passed>>,
           Limits!TypeOK', early' = FALSE, Lasting', Short', Checks', Running'
    PROVE  LimitInv'
<1>1. Timely' /\ Kept' /\ Over'
  BY DEF LimitInv, Timely, Kept, Over, Limits!Bound, Limits!Within, Limits!Time
<1>2. Spaced' /\ Filled'
  BY DEF Lists, Spaced, Filled
<1> QED
  BY <1>1, <1>2 DEF LimitInv

LEMMA LoadedLess ==
    ASSUME LimitInv, limiter \in Lists, UNCHANGED <<limiter, now, passed>>,
           \A t \in Limits!Time : now < t + Duration => Loaded(t)' \subseteq Loaded(t)
    PROVE  Running'
<1> SUFFICES ASSUME NEW t \in Limits!Time, now < t + Duration
             PROVE  Count(passed, t) + Cardinality(Loaded(t)') <= Limits!Bound
  BY DEF Running, Limits!Bound, Limits!Time
<1>1. Loaded(t) \in SUBSET Request /\ Loaded(t)' \subseteq Loaded(t)
  BY DEF Loaded
<1>2. Cardinality(Loaded(t)') <= Cardinality(Loaded(t))
      /\ Cardinality(Loaded(t)') \in Nat /\ Cardinality(Loaded(t)) \in Nat
  <2>1. IsFiniteSet(Loaded(t)) /\ Loaded(t)' \in SUBSET Request
    BY <1>1, SomeRequests
  <2> QED
    BY <1>1, <2>1, FS_Subset, SomeRequests
<1>3. Count(passed, t) + Cardinality(Loaded(t)) <= Limits!Bound
  BY DEF LimitInv, Running
<1>4. Limits!Bound \in Int
  BY ListBound, Numbers
<1>5. Count(passed, t) \in Nat
  <2>1. t \in Int /\ passed \in Seq(Nat)
    BY LimitFacts, Numbers DEF Limits!Time
  <2> QED
    BY <2>1, AfterFinite
<1> QED
  BY <1>2, <1>3, <1>4, <1>5

(* Who counts in Short.                                                    *)
LEMMA ShortSets ==
    /\ At({"pushOnly"}) \in SUBSET Request /\ At({"trim"}) \in SUBSET Request
    /\ Cardinality(At({"pushOnly"})) \in Nat /\ Cardinality(At({"trim"})) \in Nat
    /\ Cardinality(At({"pushOnly"})) <= Requests
<1>1. At({"pushOnly"}) \in SUBSET Request /\ At({"trim"}) \in SUBSET Request
  BY DEF At
<1> QED
  BY <1>1, SomeRequests

LEMMA ReadLengthStep ==
    ASSUME LimitInv, NEW r \in Request, Limits!ReadLength(r)
    PROVE  LimitInv'
<1> DEFINE k == Len(list)
           s == IF k >= MaxNum THEN "index" ELSE IF limiter = "redis" THEN "pushOnly" ELSE "serve"
<1>1. /\ limiter \in Lists /\ at[r] = "idle" /\ Limits!Goto(r, s)
      /\ UNCHANGED <<limiter, now, list, expires, bucket, oldest, passed, early>>
  BY DEF Limits!ReadLength, Lists
<1>2. Limits!TypeOK' /\ early' = FALSE
  BY <1>1, LimitTypes DEF Limits!Next, LimitInv
<1>3. at'[r] = s /\ (\A q \in Request : q # r => at'[q] = at[q])
  BY <1>1, Moved
<1>4. k \in Nat /\ now \in Nat /\ passed \in Seq(Nat)
  BY LimitFacts
<1>5. Lasting'
  <2>1. s \notin {"trim", "expire"} /\ At({"trim", "expire"}) \ {r} = At({"trim", "expire"})
    BY <1>1 DEF At
  <2>2. At({"trim", "expire"})' = At({"trim", "expire"})
    BY <2>1, <1>1, Moved
  <2> QED
    BY <2>2, <1>1 DEF LimitInv, Lasting
<1>6. Checks'
  <2>1. k >= MaxNum \/ s # "index"
    OBVIOUS
  <2>2. s # "compare"
    OBVIOUS
  <2> QED
    BY <2>1, <2>2, <1>1, <1>3 DEF LimitInv, Checks
<1>7. Short'
  <2>1. At({"trim"})' = At({"trim"})
    <3>1. s \notin {"trim"} /\ At({"trim"}) \ {r} = At({"trim"})
      BY <1>1 DEF At
    <3> QED
      BY <3>1, <1>1, Moved
  <2>2. CASE s # "pushOnly"
    <3>1. At({"pushOnly"})' = At({"pushOnly"})
      <4>1. s \notin {"pushOnly"} /\ At({"pushOnly"}) \ {r} = At({"pushOnly"})
        BY <1>1, <2>2 DEF At
      <4> QED
        BY <4>1, <1>1, Moved
    <3> QED
      BY <2>1, <3>1, <1>1 DEF LimitInv, Short, Requests
  <2>3. CASE s = "pushOnly"
    <3>1. k < MaxNum
      BY <2>3, <1>4, Numbers
    <3>2. At({"pushOnly"})' \in SUBSET Request
      BY DEF At
    <3>3. Cardinality(At({"pushOnly"})') \in Nat /\ Cardinality(At({"pushOnly"})') <= Requests
      BY <3>2, SomeRequests
    <3>4. k + Cardinality(At({"pushOnly"})') <= MaxNum - 1 + Requests + Cardinality(At({"trim"}))
      BY <3>1, <3>3, <1>4, ShortSets, Numbers
    <3> QED
      BY <2>1, <3>4, <1>1 DEF Short, Requests
  <2> QED
    BY <2>2, <2>3
<1>8. Running'
  <2>1. CASE k >= MaxNum
    <3>1. \A t : Loaded(t)' \subseteq Loaded(t)
      BY <2>1, <1>1, <1>3 DEF Loaded
    <3> QED
      BY <3>1, <1>1, LoadedLess
  <2>2. CASE ~(k >= MaxNum)
    <3> SUFFICES ASSUME NEW t \in Limits!Time, now < t + Duration
                 PROVE  Count(passed, t) + Cardinality(Loaded(t)') <= Limits!Bound
      BY <1>1 DEF Running, Limits!Bound, Limits!Time
    <3>1. t \in Int
      BY Numbers DEF Limits!Time
    <3>2. k < MaxNum /\ limiter # "bucket"
      BY <2>2, <1>1, <1>4, Numbers DEF Lists
    <3>3. Count(passed, t) <= k /\ Count(passed, t) \in Nat
      BY <3>1, <3>2, <1>4, ShortCounts, AfterFinite
    <3>4. Loaded(t)' \in SUBSET Request
      BY DEF Loaded
    <3>5. Cardinality(Loaded(t)') \in Nat /\ Cardinality(Loaded(t)') <= Requests
      BY <3>4, SomeRequests
    <3>6. Limits!Bound = MaxNum + 2 * (Requests - 1)
      BY <1>1, ListBound
    <3> QED
      BY <3>2, <3>3, <3>5, <3>6, <1>4, Numbers
  <2> QED
    BY <2>1, <2>2
<1> QED
  BY <1>1, <1>2, <1>5, <1>6, <1>7, <1>8, ListFrame

LEMMA ReadOldestStep ==
    ASSUME LimitInv, NEW r \in Request, Limits!ReadOldest(r)
    PROVE  LimitInv'
<1> DEFINE k == Len(list)
<1>1. /\ at[r] = "index" /\ Limits!Goto(r, "compare")
      /\ oldest' = [oldest EXCEPT ![r] = list[k]]
      /\ UNCHANGED <<limiter, now, list, expires, bucket, passed, early>>
  BY DEF Limits!ReadOldest
<1>2. Limits!TypeOK' /\ early' = FALSE
  BY <1>1, LimitTypes DEF Limits!Next, LimitInv
<1>3. limiter \in Lists /\ limiter # "bucket"
  BY <1>1, InLists DEF Lists
<1>4. k \in Nat /\ now \in Nat /\ passed \in Seq(Nat) /\ list \in Seq(Nat)
  BY LimitFacts
<1>5. k >= MaxNum /\ k > 0
  BY <1>1, <1>4, Numbers DEF LimitInv, Checks
<1>6. list[k] \in Nat
  BY <1>4, <1>5
<1>7. /\ at'[r] = "compare" /\ \A q \in Request : q # r => at'[q] = at[q]
      /\ oldest'[r] = list[k] /\ \A q \in Request : q # r => oldest'[q] = oldest[q]
  <2>1. oldest \in [Request -> Limits!Time]
    BY DEF LimitInv, Limits!TypeOK
  <2>2. oldest'[r] = list[k] /\ \A q \in Request : q # r => oldest'[q] = oldest[q]
    BY <2>1, <1>1
  <2> QED
    BY <2>2, <1>1, Moved
<1>8. /\ At({"trim", "expire"})' = At({"trim", "expire"}) /\ At({"trim"})' = At({"trim"})
      /\ At({"pushOnly"})' = At({"pushOnly"})
  BY <1>1, <1>7 DEF At
<1>9. Lasting' /\ Short'
  BY <1>1, <1>8 DEF LimitInv, Lasting, Short, Requests
<1>10. Checks'
  <2>1. Count(passed, list[k]) >= MaxNum
    <3>0. list[k] \in Int /\ list[k] <= list[k]
      BY <1>6
    <3>1. Count(passed, list[k]) >= k
      BY <1>3, <1>5, <3>0, ListCounts
    <3> DEFINE u == list[k]
    <3>a. u \in Int
      BY <3>0
    <3> HIDE DEF u
    <3>b. Count(passed, u) \in Nat
      BY <1>4, <3>a, AfterFinite
    <3>2. Count(passed, list[k]) \in Nat
      BY <3>b DEF u
    <3> QED
      BY <3>1, <3>2, <1>4, <1>5, Numbers
  <2>2. \A q \in Request : at'[q] = "index" => k >= MaxNum
    BY <1>5
  <2>3. ASSUME NEW q \in Request, at'[q] = "compare"
        PROVE  Count(passed, oldest'[q]) >= MaxNum
    <3>1. CASE q = r
      BY <3>1, <2>1, <1>7
    <3>2. CASE q # r
      BY <3>2, <2>3, <1>7 DEF LimitInv, Checks
    <3> QED
      BY <3>1, <3>2
  <2> QED
    BY <2>2, <2>3, <1>1, <1>3 DEF Checks, Lists
<1>11. Running'
  <2> SUFFICES ASSUME NEW t \in Limits!Time, now < t + Duration
               PROVE  Count(passed, t) + Cardinality(Loaded(t)') <= Limits!Bound
    BY <1>1 DEF Running, Limits!Bound, Limits!Time
  <2>1. t \in Nat
    BY Numbers DEF Limits!Time
  <2>2. CASE list[k] < t
    <3> DEFINE P == At({"pushOnly"})  Q == At({"trim"})  L == Loaded(t)'
    <3>1. P \in SUBSET Request /\ Q \in SUBSET Request /\ L \in SUBSET Request
      BY DEF At, Loaded
    <3>2. P \subseteq L /\ Q \cap L = {}
      BY <1>1, <1>7 DEF At, Loaded
    <3>3. Count(passed, t) <= k - 1 /\ Count(passed, t) \in Nat
      <4>1. t \in Int
        BY <2>1
      <4> QED
        BY <4>1, <2>2, <1>3, <1>4, <1>5, LongCounts, AfterFinite
    <3>4. k + Cardinality(P) <= MaxNum - 1 + Requests + Cardinality(Q)
      BY <1>3 DEF LimitInv, Short
    <3>5. Limits!Bound = MaxNum + 2 * (Requests - 1)
      BY <1>3, ListBound
    <3> HIDE DEF P, Q, L
    <3>6. Count(passed, t) + Cardinality(L) <= MaxNum + 2 * (Requests - 1)
      BY <3>1, <3>2, <3>3, <3>4, <1>4, LoadedBound
    <3> QED
      BY <3>5, <3>6 DEF L
  <2>3. CASE ~(list[k] < t)
    <3>1. Loaded(t)' \subseteq Loaded(t)
      BY <2>3, <1>7 DEF Loaded
    <3>2. Loaded(t) \in SUBSET Request
      BY DEF Loaded
    <3>3. Cardinality(Loaded(t)') <= Cardinality(Loaded(t))
          /\ Cardinality(Loaded(t)') \in Nat /\ Cardinality(Loaded(t)) \in Nat
      <4>1. IsFiniteSet(Loaded(t)) /\ Loaded(t)' \in SUBSET Request
        BY <3>1, <3>2, SomeRequests
      <4> QED
        BY <3>1, <3>2, <4>1, FS_Subset, SomeRequests
    <3>4. Count(passed, t) + Cardinality(Loaded(t)) <= Limits!Bound
      BY <1>3 DEF LimitInv, Running
    <3>5. Limits!Bound \in Int
      BY <1>3, ListBound, Numbers
    <3>6. Count(passed, t) \in Nat
      <4>1. t \in Int
        BY <2>1
      <4> QED
        BY <4>1, <1>4, AfterFinite
    <3> QED
      BY <3>3, <3>4, <3>5, <3>6
  <2> QED
    BY <2>2, <2>3
<1> QED
  BY <1>1, <1>2, <1>3, <1>9, <1>10, <1>11, ListFrame

LEMMA CompareStep ==
    ASSUME LimitInv, NEW r \in Request, Limits!Compare(r)
    PROVE  LimitInv'
<1>1. at[r] = "compare" /\ UNCHANGED <<limiter, now, list, expires, bucket, oldest, passed>>
  BY DEF Limits!Compare
<1>2. Limits!TypeOK'
  BY LimitTypes DEF Limits!Next
<1>3. limiter \in Lists
  BY <1>1, InLists
<1>4. now \in Nat /\ passed \in Seq(Nat) /\ oldest[r] \in Nat /\ Count(passed, oldest[r]) >= MaxNum
  BY <1>1, LimitFacts DEF LimitInv, Checks
<1>5. CASE now - oldest[r] < Duration /\ Limits!Refuse /\ Limits!Goto(r, "expire")
  <2>1. at'[r] = "expire" /\ \A q \in Request : q # r => at'[q] = at[q]
    BY <1>5, Moved
  <2>2. early' = FALSE
    <3> DEFINE t == now + 1 - Duration
    <3>1. t \in Int /\ t <= oldest[r] /\ oldest[r] \in Int
      BY <1>4, <1>5, Numbers
    <3>2. Count(passed, oldest[r]) <= Count(passed, t)
      BY <3>1, <1>4, CountMonotone
    <3>3. Count(passed, oldest[r]) \in Nat /\ Count(passed, t) \in Nat
      BY <3>1, <1>4, AfterFinite
    <3>4. Limits!Recent = Count(passed, t)
      BY <3>1, WindowCount
    <3>5. ~(Limits!Recent < MaxNum)
      BY <3>2, <3>3, <3>4, <1>4, Numbers
    <3> QED
      BY <3>5, <1>5 DEF LimitInv, Limits!Refuse
  <2>3. At({"trim"})' = At({"trim"}) /\ At({"pushOnly"})' = At({"pushOnly"})
        /\ r \in At({"trim", "expire"})'
    BY <1>1, <2>1 DEF At
  <2>4. Lasting' /\ Short'
    BY <1>1, <2>3 DEF LimitInv, Lasting, Short, Requests
  <2>5. Checks'
    BY <1>1, <1>3, <2>1 DEF LimitInv, Checks
  <2>6. Running'
    <3>1. \A t : Loaded(t)' \subseteq Loaded(t)
      BY <1>1, <2>1 DEF Loaded
    <3> QED
      BY <3>1, <1>1, <1>3, LoadedLess
  <2> QED
    BY <1>1, <1>2, <1>3, <2>2, <2>4, <2>5, <2>6, ListFrame
<1>6. ASSUME ~(now - oldest[r] < Duration), NEW s \in {"push", "serve"}, Limits!Goto(r, s),
             UNCHANGED early
      PROVE  LimitInv'
  <2>1. at'[r] = s /\ \A q \in Request : q # r => at'[q] = at[q]
    BY <1>6, Moved
  <2>2. At({"trim"})' = At({"trim"}) /\ At({"pushOnly"})' = At({"pushOnly"})
        /\ At({"trim", "expire"})' = At({"trim", "expire"})
    BY <1>1, <2>1 DEF At
  <2>3. Lasting' /\ Short'
    BY <1>1, <2>2 DEF LimitInv, Lasting, Short, Requests
  <2>4. Checks'
    BY <1>1, <1>3, <2>1 DEF LimitInv, Checks
  <2>5. Running'
    <3>1. ASSUME NEW t \in Limits!Time, now < t + Duration
          PROVE  Loaded(t)' \subseteq Loaded(t)
      <4>1. t \in Nat
        BY Numbers DEF Limits!Time
      <4>2. oldest[r] < t
        BY <4>1, <3>1, <1>4, <1>6, Numbers
      <4> QED
        BY <4>2, <1>1, <2>1 DEF Loaded
    <3> QED
      BY <3>1, <1>1, <1>3, LoadedLess
  <2>6. early' = FALSE
    BY <1>6 DEF LimitInv
  <2> QED
    BY <1>1, <1>2, <1>3, <2>3, <2>4, <2>5, <2>6, ListFrame
<1>7. CASE /\ ~(now - oldest[r] < Duration) /\ UNCHANGED early
           /\ Limits!Goto(r, IF limiter = "redis" THEN "push" ELSE "serve")
  BY <1>6, <1>7
<1> QED
  BY <1>5, <1>7 DEF Limits!Compare

LEMMA ServeStep ==
    ASSUME LimitInv, NEW r \in Request, Limits!Serve(r)
    PROVE  LimitInv'
<1>1. at[r] = "serve" /\ UNCHANGED <<limiter, now, list, expires, bucket, oldest, passed, early>>
  BY DEF Limits!Serve
<1>2. Limits!TypeOK' /\ early' = FALSE
  BY <1>1, LimitTypes DEF Limits!Next, LimitInv
<1>3. limiter \in Lists
  BY <1>1, InLists
<1>4. PICK s \in {"push", "idle"} : Limits!Goto(r, s)
  BY DEF Limits!Serve
<1>5. at'[r] = s /\ \A q \in Request : q # r => at'[q] = at[q]
  BY <1>4, Moved
<1>6. At({"trim"})' = At({"trim"}) /\ At({"pushOnly"})' = At({"pushOnly"})
      /\ At({"trim", "expire"})' = At({"trim", "expire"})
  BY <1>1, <1>5 DEF At
<1>7. Lasting' /\ Short'
  BY <1>1, <1>6 DEF LimitInv, Lasting, Short, Requests
<1>8. Checks'
  BY <1>1, <1>3, <1>5 DEF LimitInv, Checks
<1>9. Running'
  <2>1. \A t : Loaded(t)' \subseteq Loaded(t)
    BY <1>1, <1>5 DEF Loaded
  <2> QED
    BY <2>1, <1>1, <1>3, LoadedLess
<1> QED
  BY <1>1, <1>2, <1>3, <1>7, <1>8, <1>9, ListFrame

LEMMA ExpireStep ==
    ASSUME LimitInv, NEW r \in Request, Limits!Expire(r)
    PROVE  LimitInv'
<1>1. /\ at[r] = "expire" /\ Limits!Goto(r, "idle")
      /\ expires' = IF list = <<>> THEN expires ELSE now + Expiry
      /\ UNCHANGED <<limiter, now, list, bucket, oldest, passed, early>>
  BY DEF Limits!Expire
<1>2. Limits!TypeOK' /\ early' = FALSE
  BY <1>1, LimitTypes DEF Limits!Next, LimitInv
<1>3. limiter \in Lists /\ limiter # "bucket"
  BY <1>1, InLists DEF Lists
<1>4. at'[r] = "idle" /\ \A q \in Request : q # r => at'[q] = at[q]
  BY <1>1, Moved
<1>5. Lasting'
  <2> SUFFICES ASSUME list # <<>>
               PROVE  expires' >= list[1] + Expiry
    BY <1>1 DEF Lasting
  <2> DEFINE n == Len(passed)
  <2>1. Len(list) > 0 /\ Len(list) <= n /\ list[1] = passed[n + 1 - 1] /\ n \in Nat /\ Len(list) \in Nat
    BY <1>3, LimitFacts DEF LimitInv, Kept
  <2>2. n \in 1..n /\ n + 1 - 1 = n
    BY <2>1
  <2>3. passed[n] <= now /\ passed[n] \in Nat /\ now \in Nat
    BY <2>2, LimitFacts DEF LimitInv, Timely
  <2> QED
    BY <1>1, <2>1, <2>2, <2>3, Numbers
<1>6. Short'
  <2>1. At({"trim"})' = At({"trim"}) /\ At({"pushOnly"})' = At({"pushOnly"})
    BY <1>1, <1>4 DEF At
  <2> QED
    BY <1>1, <2>1 DEF LimitInv, Short, Requests
<1>7. Checks'
  BY <1>1, <1>3, <1>4 DEF LimitInv, Checks
<1>8. Running'
  <2>1. \A t : Loaded(t)' \subseteq Loaded(t)
    BY <1>1, <1>4 DEF Loaded
  <2> QED
    BY <2>1, <1>1, <1>3, LoadedLess
<1> QED
  BY <1>1, <1>2, <1>3, <1>5, <1>6, <1>7, <1>8, ListFrame

LEMMA PushStep ==
    ASSUME LimitInv, NEW r \in Request, Limits!Push(r)
    PROVE  LimitInv'
<1> DEFINE n == Len(passed)  k == Len(list)
           s == IF at[r] = "push" THEN "trim" ELSE "expire"
<1>1. /\ at[r] \in {"push", "pushOnly"} /\ list' = <<now>> \o list /\ Limits!Admit
      /\ Limits!Goto(r, s) /\ UNCHANGED <<limiter, now, bucket, oldest, early>>
  BY DEF Limits!Push
<1>2. Limits!TypeOK' /\ early' = FALSE
  BY <1>1, LimitTypes DEF Limits!Next, LimitInv
<1>3. limiter \in Lists /\ limiter # "bucket"
  BY <1>1, InLists DEF Lists
<1>4. n \in Nat /\ k \in Nat /\ now \in Nat /\ passed \in Seq(Nat) /\ list \in Seq(Nat)
      /\ DOMAIN passed = 1..n
  BY LimitFacts
<1>5. k <= n /\ \A i \in 1..k : list[i] = passed[n + 1 - i]
  BY <1>3 DEF LimitInv, Kept
<1>6. at'[r] = s /\ \A q \in Request : q # r => at'[q] = at[q]
  BY <1>1, Moved
<1>7. /\ Timely' /\ Len(passed') = n + 1 /\ DOMAIN passed' = 1..(n + 1)
      /\ passed'[n + 1] = now /\ \A i \in 1..n : passed'[i] = passed[i]
      /\ \A t \in Int : Count(passed', t) = Count(passed, t) + (IF t <= now THEN 1 ELSE 0)
  BY <1>1, Admitted
<1>8. /\ Len(list') = k + 1 /\ list'[1] = now
      /\ \A i \in 2..(k + 1) : list'[i] = list[i - 1]
  BY <1>1, <1>4, PushFront
<1>9. Kept'
  <2>1. ASSUME NEW i \in 1..(k + 1)
        PROVE  list'[i] = passed'[n + 2 - i]
    <3>1. CASE i = 1
      BY <3>1, <1>4, <1>7, <1>8
    <3>2. CASE i # 1
      <4>0. n \in Nat /\ k \in Nat /\ k <= n
        BY <1>4, <1>5
      <4>1. i \in 2..(k + 1) /\ i - 1 \in 1..k /\ n + 2 - i \in 1..n
        <5> HIDE DEF n, k
        <5> QED
          BY <3>2, <4>0
      <4>2. list'[i] = list[i - 1] /\ list[i - 1] = passed[n + 1 - (i - 1)]
        BY <4>1, <1>5, <1>8
      <4>3. n + 1 - (i - 1) = n + 2 - i
        BY <1>4, <4>1
      <4>4. passed'[n + 2 - i] = passed[n + 2 - i]
        BY <4>1, <1>7
      <4> QED
        BY <4>2, <4>3, <4>4
    <3> QED
      BY <3>1, <3>2
  <2>2. ASSUME k + 1 < MaxNum, NEW i \in 1..(n + 1), now - passed'[i] < Duration
        PROVE  i > n + 1 - (k + 1)
    <3>1. CASE i \in 1..n
      <4>1. k < MaxNum /\ now - passed[i] < Duration
        BY <3>1, <2>2, <1>4, <1>7, Numbers
      <4>2. i > n - k
        BY <4>1, <3>1, <1>3, <1>4 DEF LimitInv, Kept
      <4> QED
        BY <4>2, <1>4
    <3>2. CASE i = n + 1
      BY <3>2, <1>4
    <3> QED
      BY <3>1, <3>2, <1>4
  <2>3. n + 1 + 1 = n + 2 /\ k + 1 <= n + 1
    BY <1>4, <1>5
  <2> QED
    BY <2>1, <2>2, <2>3, <1>1, <1>7, <1>8 DEF Kept
<1>10. Lasting'
  <2>1. r \in At({"trim", "expire"})'
    BY <1>6 DEF At
  <2> QED
    BY <2>1 DEF Lasting
<1>11. Short'
  <2>1. k + Cardinality(At({"pushOnly"})) <= MaxNum - 1 + Requests + Cardinality(At({"trim"}))
    BY <1>3 DEF LimitInv, Short
  <2>a. Cardinality(At({"pushOnly"})) \in Nat /\ Cardinality(At({"trim"})) \in Nat
    BY ShortSets
  <2>2. k + 1 + Cardinality(At({"pushOnly"})') <= MaxNum - 1 + Requests + Cardinality(At({"trim"})')
    <3>1. CASE at[r] = "push"
      <4>1. At({"pushOnly"})' = At({"pushOnly"}) /\ At({"trim"})' = At({"trim"}) \cup {r}
            /\ r \in Request \ At({"trim"})
        BY <3>1, <1>6 DEF At
      <4>2. Cardinality(At({"trim"}) \cup {r}) = Cardinality(At({"trim"})) + 1
        BY <4>1, ShortSets, SomeRequests
      <4>3. Cardinality(At({"pushOnly"})') = Cardinality(At({"pushOnly"}))
            /\ Cardinality(At({"trim"})') = Cardinality(At({"trim"})) + 1
        BY <4>1, <4>2
      <4> QED
        BY <4>3, <2>1, <2>a, <1>4, Numbers
    <3>2. CASE at[r] = "pushOnly"
      <4>1. At({"pushOnly"})' = At({"pushOnly"}) \ {r} /\ At({"trim"})' = At({"trim"})
            /\ r \in At({"pushOnly"})
        BY <3>2, <1>6 DEF At
      <4>2. Cardinality(At({"pushOnly"}) \ {r}) = Cardinality(At({"pushOnly"})) - 1
        BY <4>1, ShortSets, SomeRequests
      <4>3. Cardinality(At({"pushOnly"})') = Cardinality(At({"pushOnly"})) - 1
            /\ Cardinality(At({"trim"})') = Cardinality(At({"trim"}))
        BY <4>1, <4>2
      <4> QED
        BY <4>3, <2>1, <2>a, <1>4, Numbers
    <3> QED
      BY <3>1, <3>2, <1>1
  <2> QED
    BY <2>2, <1>8 DEF Short, Requests
<1>12. Checks'
  <2>1. k >= MaxNum => k + 1 >= MaxNum
    BY <1>4, Numbers
  <2>2. ASSUME NEW q \in Request, at'[q] = "compare"
        PROVE  Count(passed', oldest'[q]) >= MaxNum
    <3>1. at[q] = "compare" /\ oldest'[q] = oldest[q] /\ oldest[q] \in Int
      <4>1. oldest[q] \in Nat
        BY LimitFacts
      <4> QED
        BY <4>1, <2>2, <1>1, <1>6
    <3>2. Count(passed, oldest[q]) >= MaxNum
      BY <3>1 DEF LimitInv, Checks
    <3>3. Count(passed, oldest[q]) \in Nat
      BY <3>1, <1>4, AfterFinite
    <3>4. Count(passed', oldest[q]) \in Nat /\ Count(passed', oldest[q]) >= Count(passed, oldest[q])
      BY <3>1, <3>3, <1>7
    <3> QED
      BY <3>1, <3>2, <3>3, <3>4, Numbers
  <2>3. \A q \in Request : at'[q] = "index" => Len(list') >= MaxNum
    BY <2>1, <1>1, <1>6, <1>8 DEF LimitInv, Checks
  <2> QED
    BY <2>2, <2>3, <1>1, <1>3 DEF Checks, Lists
<1>13. Running'
  <2> SUFFICES ASSUME NEW t \in Limits!Time, now < t + Duration
               PROVE  Count(passed', t) + Cardinality(Loaded(t)') <= Limits!Bound
    BY <1>1 DEF Running, Limits!Bound, Limits!Time
  <2>1. t \in Int
    BY Numbers DEF Limits!Time
  <2>2. Loaded(t) \in SUBSET Request /\ r \in Loaded(t) /\ Loaded(t)' = Loaded(t) \ {r}
    BY <1>1, <1>6 DEF Loaded
  <2>3. Cardinality(Loaded(t)') = Cardinality(Loaded(t)) - 1 /\ Cardinality(Loaded(t)) \in Nat
    BY <2>2, SomeRequests
  <2>4. Count(passed, t) \in Nat
    BY <2>1, <1>4, AfterFinite
  <2>5. Count(passed', t) <= Count(passed, t) + 1 /\ Count(passed', t) \in Nat
    BY <2>1, <2>4, <1>7
  <2>6. Count(passed, t) + Cardinality(Loaded(t)) <= Limits!Bound
    BY <1>3 DEF LimitInv, Running
  <2>7. Limits!Bound \in Int
    BY <1>3, ListBound, Numbers
  <2> QED
    BY <2>3, <2>4, <2>5, <2>6, <2>7
<1>14. Over'
  <2> SUFFICES ASSUME NEW t \in Limits!Time, t + Duration <= now
               PROVE  Limits!Within(t, t + Duration - 1)' = Limits!Within(t, t + Duration - 1)
    <3>1. Limits!Bound' = Limits!Bound
      BY <1>1 DEF Limits!Bound
    <3> QED
      BY <3>1, <1>1 DEF LimitInv, Over, Limits!Time
  <2>1. t \in Nat
    BY Numbers DEF Limits!Time
  <2>2. ~(now <= t + Duration - 1)
    BY <2>1, <1>4, Numbers
  <2> QED
    BY <2>2, <1>4, <1>7 DEF Limits!Within
<1>15. Spaced' /\ Filled'
  BY <1>1, <1>3 DEF Lists, Spaced, Filled
<1> QED
  BY <1>2, <1>7, <1>9, <1>10, <1>11, <1>12, <1>13, <1>14, <1>15 DEF LimitInv

LEMMA TrimStep ==
    ASSUME LimitInv, NEW r \in Request, Limits!Trim(r)
    PROVE  LimitInv'
<1> DEFINE n == Len(passed)  k == Len(list)
<1>1. /\ at[r] = "trim" /\ Limits!Goto(r, "expire")
      /\ list' = IF k > MaxNum THEN SubSeq(list, 1, MaxNum) ELSE list
      /\ UNCHANGED <<limiter, now, expires, bucket, oldest, passed, early>>
  BY DEF Limits!Trim
<1>2. Limits!TypeOK' /\ early' = FALSE
  BY <1>1, LimitTypes DEF Limits!Next, LimitInv
<1>3. limiter \in Lists /\ limiter # "bucket"
  BY <1>1, InLists DEF Lists
<1>4. n \in Nat /\ k \in Nat /\ list \in Seq(Nat) /\ MaxNum \in Nat
  BY LimitFacts, Numbers
<1>5. at'[r] = "expire" /\ \A q \in Request : q # r => at'[q] = at[q]
  BY <1>1, Moved
<1>6. /\ Len(list') \in Nat /\ Len(list') <= k /\ Len(list') <= MaxNum
      /\ \A i \in 1..Len(list') : list'[i] = list[i]
      /\ k >= MaxNum => Len(list') >= MaxNum
      /\ Len(list') < MaxNum => Len(list') = k
  <2>1. CASE k > MaxNum
    <3>1. MaxNum \in 0..k
      BY <2>1, <1>4
    <3>2. Len(list') = MaxNum /\ \A i \in 1..MaxNum : list'[i] = list[i]
      BY <2>1, <3>1, <1>1, <1>4, KeepFirst
    <3> QED
      BY <3>2, <2>1, <1>4
  <2>2. CASE ~(k > MaxNum)
    <3>1. list' = list
      BY <2>2, <1>1
    <3> QED
      BY <2>2, <3>1, <1>4
  <2> QED
    BY <2>1, <2>2
<1>7. Kept'
  <2>1. k <= n /\ \A i \in 1..k : list[i] = passed[n + 1 - i]
    BY <1>3 DEF LimitInv, Kept
  <2>a. Len(list') <= n /\ \A i \in 1..Len(list') : i \in 1..k
    BY <2>1, <1>4, <1>6
  <2>2. Len(list') <= n /\ \A i \in 1..Len(list') : list'[i] = passed[n + 1 - i]
    BY <2>1, <2>a, <1>6
  <2>3. Len(list') < MaxNum => \A i \in DOMAIN passed : now - passed[i] < Duration => i > n - Len(list')
    BY <1>3, <1>6 DEF LimitInv, Kept
  <2> QED
    BY <2>2, <2>3, <1>1 DEF Kept
<1>8. Lasting'
  <2>1. r \in At({"trim", "expire"})'
    BY <1>5 DEF At
  <2> QED
    BY <2>1 DEF Lasting
<1>9. Short'
  <2>1. At({"pushOnly"})' \in SUBSET Request /\ At({"pushOnly"})' # Request
        /\ At({"trim"})' \in SUBSET Request
    BY <1>5 DEF At
  <2>2. Cardinality(At({"pushOnly"})') < Requests /\ Cardinality(At({"pushOnly"})') \in Nat
        /\ Cardinality(At({"trim"})') \in Nat
    BY <2>1, SomeRequests
  <2>3. Len(list') + Cardinality(At({"pushOnly"})') <= MaxNum - 1 + Requests + Cardinality(At({"trim"})')
    BY <2>2, <1>6, Numbers
  <2> QED
    BY <2>3 DEF Short, Requests
<1>10. Checks'
  <2>1. \A q \in Request : at'[q] = "index" => Len(list') >= MaxNum
    BY <1>5, <1>6 DEF LimitInv, Checks
  <2>2. \A q \in Request : at'[q] = "compare" => Count(passed, oldest[q]) >= MaxNum
    BY <1>5 DEF LimitInv, Checks
  <2> QED
    BY <2>1, <2>2, <1>1, <1>3 DEF Checks
<1>11. Running'
  <2>1. \A t : Loaded(t)' \subseteq Loaded(t)
    BY <1>1, <1>5 DEF Loaded
  <2> QED
    BY <2>1, <1>1, <1>3, LoadedLess
<1>12. Timely' /\ Over' /\ Spaced' /\ Filled'
  BY <1>1, <1>3 DEF LimitInv, Timely, Over, Spaced, Filled, Lists, Limits!Bound, Limits!Within, Limits!Time
<1> QED
  BY <1>2, <1>7, <1>8, <1>9, <1>10, <1>11, <1>12 DEF LimitInv

LEMMA LimitStep == LimitInv /\ [Next]_vars => LimitInv'
<1> SUFFICES ASSUME LimitInv, [Next]_vars PROVE LimitInv'
  OBVIOUS
<1>1. CASE Limits!Next
  BY <1>1, TickStep, ClearStep, MemorySteps, ReadLengthStep, ReadOldestStep, CompareStep, ServeStep,
     PushStep, TrimStep, ExpireStep, AllowStep DEF Limits!Next
<1>2. CASE UNCHANGED limit
  BY <1>2 DEF limit, LimitInv, Limits!TypeOK, Limits!Time, Timely, Kept, Lasting, Short, Checks, Running,
     Over, Spaced, Filled, At, Loaded, Requests, Limits!Bound, Limits!Within
<1> QED
  BY <1>1, <1>2 DEF Next, vars, OfShell, OfTest, OfQr, OfChat, OfStream, OfLimit

(* The memory's windows: as far apart as Spaced says.                      *)
LEMMA MemoryWindow ==
    ASSUME LimitInv, limiter = "memory", NEW t \in Limits!Time
    PROVE  Cardinality(Limits!Within(t, t + Duration - 1)) <= MaxNum
<1> DEFINE n == Len(passed)  a == Count(passed, t)  b == Count(passed, t + Duration)
           W == Limits!Within(t, t + Duration - 1)
<1>1. n \in Nat /\ passed \in Seq(Nat) /\ DOMAIN passed = 1..n /\ \A i \in 1..n : passed[i] \in Nat
  BY LimitFacts
<1>2. t \in Nat /\ Duration \in Nat /\ MaxNum \in Nat /\ t \in Int /\ t + Duration \in Int
  BY Numbers DEF Limits!Time
<1>3. a \in Nat /\ b \in Nat /\ a <= n /\ b <= n
  BY <1>1, <1>2, AfterFinite
<1>4. \A i \in 1..n : t <= passed[i] <=> i > n - a
  BY <1>1, <1>2, AfterIsTail DEF LimitInv, Timely
<1>5. \A i \in 1..n : t + Duration <= passed[i] <=> i > n - b
  BY <1>1, <1>2, AfterIsTail DEF LimitInv, Timely
<1> HIDE DEF a, b
<1>6. W = (n - a + 1)..(n - b)
  <2>1. \A i \in 1..n : passed[i] <= t + Duration - 1 <=> ~(t + Duration <= passed[i])
    BY <1>1, <1>2
  <2>2. \A i \in 1..n : i \in W <=> n - a + 1 <= i /\ i <= n - b
    BY <2>1, <1>1, <1>3, <1>4, <1>5 DEF Limits!Within
  <2>3. W \subseteq 1..n
    BY <1>1 DEF Limits!Within
  <2>4. (n - a + 1)..(n - b) \subseteq 1..n
    BY <1>1, <1>3
  <2> HIDE DEF W
  <2>5. W \subseteq (n - a + 1)..(n - b)
    BY <2>2, <2>3, <1>1, <1>3
  <2>6. ASSUME NEW i \in (n - a + 1)..(n - b)
        PROVE  i \in W
    <3>1. i \in 1..n /\ n - a + 1 <= i /\ i <= n - b
      BY <2>4, <1>1, <1>3
    <3> QED
      BY <3>1, <2>2
  <2> QED
    BY <2>5, <2>6
<1>7. a - b <= MaxNum
  <2> SUFFICES ASSUME a - b > MaxNum PROVE FALSE
    BY <1>2, <1>3
  <2>1. n - b \in 1..n /\ n - b > MaxNum /\ n - b - MaxNum \in 1..n /\ n - b - MaxNum > n - a
        /\ ~(n - b > n - b)
    BY <1>1, <1>2, <1>3, Numbers
  <2>2. passed[n - b] - passed[n - b - MaxNum] >= Duration
    BY <2>1, <1>1 DEF LimitInv, Spaced
  <2>3. ~(t + Duration <= passed[n - b]) /\ t <= passed[n - b - MaxNum]
    BY <2>1, <1>4, <1>5
  <2>4. passed[n - b] \in Nat /\ passed[n - b - MaxNum] \in Nat
    BY <2>1, <1>1
  <2> QED
    BY <2>2, <2>3, <2>4, <1>2
<1> DEFINE from == n - a + 1  to == n - b
<1>8. from \in Int /\ to \in Int /\ to - from + 1 <= MaxNum
  BY <1>1, <1>2, <1>3, <1>7
<1>9. W = from..to
  BY <1>6
<1> HIDE DEF W, from, to
<1>10. Cardinality(W) = IF from > to THEN 0 ELSE to - from + 1
  BY <1>8, <1>9, FS_Interval
<1>11. Cardinality(W) <= MaxNum
  BY <1>2, <1>8, <1>10
<1> QED
  BY <1>11 DEF W

LEMMA LimitWindows == LimitInv => LimitsHold
<1> SUFFICES ASSUME LimitInv PROVE LimitsHold
  OBVIOUS
<1>1. Limits!NoneEarly
  BY DEF LimitInv, Limits!NoneEarly
<1>2. ASSUME NEW t \in Limits!Time
      PROVE  Cardinality(Limits!Within(t, t + Duration - 1)) <= Limits!Bound
  <2>0. t \in Int /\ Duration \in Int /\ now \in Int
    BY Numbers, LimitFacts DEF Limits!Time
  <2>1. CASE limiter = "memory"
    BY <2>1, MemoryWindow DEF Limits!Bound
  <2>2. CASE limiter # "memory" /\ t + Duration <= now
    BY <2>2 DEF LimitInv, Over
  <2>3. CASE limiter = "bucket" /\ now < t + Duration
    <3>1. Cardinality(Limits!Within(t, t + Duration - 1)) = Count(passed, t)
      BY <2>0, <2>3, WindowCount
    <3> QED
      BY <2>3, <3>1, BucketCount DEF Limits!Bound
  <2>4. CASE limiter \in Lists /\ now < t + Duration
    <3>1. Cardinality(Limits!Within(t, t + Duration - 1)) = Count(passed, t)
      BY <2>0, <2>4, WindowCount
    <3>2. Count(passed, t) + Cardinality(Loaded(t)) <= Limits!Bound
      BY <2>4 DEF LimitInv, Running
    <3>3. Cardinality(Loaded(t)) \in Nat
      <4>1. Loaded(t) \in SUBSET Request
        BY DEF Loaded
      <4> QED
        BY <4>1, SomeRequests
    <3>4. Count(passed, t) \in Nat
      <4>1. passed \in Seq(Nat)
        BY LimitFacts
      <4> QED
        BY <4>1, <2>0, AfterFinite
    <3>5. Limits!Bound \in Int
      BY <2>4, ListBound, Numbers
    <3> QED
      BY <3>1, <3>2, <3>3, <3>4, <3>5
  <2>5. limiter = "memory" \/ limiter = "bucket" \/ limiter \in Lists
    BY LimitFacts DEF Limits!Limiter, Lists
  <2> QED
    BY <2>0, <2>1, <2>2, <2>3, <2>4, <2>5
<1> QED
  BY <1>1, <1>2, SameCardinality DEF LimitsHold, Limits!WindowBounded

(* No window of the rate limits lets more through than the bound of its    *)
(* limiter, however many requests check a list at the same time, and none  *)
(* is refused while fewer than the limit have passed.                      *)
THEOREM Bounded == Spec => []LimitsHold
<1>1. Init => LimitInv
  BY LimitInit DEF Init
<1> QED
  BY <1>1, LimitStep, LimitWindows, PTL DEF Spec

(* What the types need besides: a line is in one place at most.            *)
StreamRest ==
    /\ writer \in {"none", "lock", "write"} /\ pong \in {"none", "ok", "err"}
    /\ mutex \in {"free", "handler", "writer"} /\ client \in BOOLEAN
    /\ buffer <= DataCap /\ received <= MaxLines
    /\ handled + buffer + One(scanner \in {"check", "send"}) + One(handler \in {"lock", "handle"})
         <= received

LEMMA RestInit == Stream!Init => StreamRest
<1> SUFFICES ASSUME Stream!Init PROVE StreamRest
  OBVIOUS
<1>1. DataCap \in Nat /\ MaxLines \in Nat
  BY PartsAssumption
<1>2. /\ writer = "none" /\ pong = "none" /\ mutex = "free" /\ client = TRUE /\ buffer = 0
      /\ received = 0 /\ handled = 0 /\ scanner = "scan" /\ handler = "range"
  BY DEF Stream!Init
<1> QED
  BY <1>1, <1>2 DEF StreamRest, One

LEMMA RestStep ==
    ASSUME StreamTypes, StreamRest, Stream!Next
    PROVE  StreamRest'
<1>1. DataCap \in Nat /\ MaxLines \in Nat
  BY PartsAssumption
<1> USE <1>1 DEF StreamTypes, StreamRest, One, Stream!procs, Stream!chans, Stream!world, Stream!counts,
              Stream!history
<1>2. CASE Stream!Main
  BY <1>2 DEF Stream!Main, Stream!Return, Stream!Notify, Stream!Cleanup
<1>3. CASE Stream!ClientLeaves
  BY <1>3 DEF Stream!ClientLeaves
<1>4. CASE Stream!ScanLine
  BY <1>4 DEF Stream!ScanLine
<1>5. CASE Stream!ScanEnds
  BY <1>5 DEF Stream!ScanEnds, Stream!Stop
<1>6. CASE Stream!Check
  BY <1>6 DEF Stream!Check, Stream!Stop
<1>7. CASE Stream!Send
  BY <1>7 DEF Stream!Send, Stream!Stop
<1>8. CASE Stream!ScannerExits
  BY <1>8 DEF Stream!ScannerExits
<1>9. CASE Stream!TakeLine
  BY <1>9 DEF Stream!TakeLine
<1>10. CASE Stream!HandlerLocks
  BY <1>10 DEF Stream!HandlerLocks
<1>11. CASE Stream!DataHandler
  BY <1>11 DEF Stream!DataHandler
<1>12. CASE Stream!HandlerExits
  BY <1>12 DEF Stream!HandlerExits
<1>13. CASE Stream!PingTick
  BY <1>13 DEF Stream!PingTick
<1>14. CASE Stream!WriterLocks
  BY <1>14 DEF Stream!WriterLocks
<1>15. CASE Stream!PingData
  BY <1>15 DEF Stream!PingData
<1>16. CASE Stream!Pinged
  BY <1>16 DEF Stream!Pinged
<1>17. CASE Stream!PingEnds
  BY <1>17 DEF Stream!PingEnds
<1> QED
  BY <1>2, <1>3, <1>4, <1>5, <1>6, <1>7, <1>8, <1>9, <1>10, <1>11, <1>12, <1>13, <1>14, <1>15, <1>16, <1>17
     DEF Stream!Next, Stream!Handler

LEMMA StreamTyped ==
    ASSUME StreamInv, StreamRest
    PROVE  Stream!TypeOK
<1>1. {stopClosed, dataClosed, ctxDone, bodyClosed, client, ended, refused, timedOut, overdue} \subseteq BOOLEAN
  BY Zenon DEF StreamInv, StreamTypes, StreamRest
<1>2. tokens \in 0..3
  BY DEF StreamInv, StreamTypes, Tokens, One
<1>3. DataCap \in Nat /\ MaxLines \in Nat
  BY PartsAssumption
<1>4. buffer \in 0..DataCap /\ received \in 0..MaxLines
  BY <1>3 DEF StreamInv, StreamTypes, StreamRest
<1>5. handled \in 0..MaxLines
  BY <1>3 DEF StreamInv, StreamTypes, StreamRest, One
<1> QED
  BY <1>1, <1>2, <1>4, <1>5, Zenon DEF StreamInv, StreamTypes, StreamRest, Stream!TypeOK

-----------------------------------------------------------------------------
(* The parts together: a step is one of a part, and leaves the others      *)
(* alone.                                                                  *)
PartsInv == ShellInv /\ TestsInv /\ QrInv /\ ChatInv /\ StreamInv /\ StreamRest /\ LimitInv

LEMMA ShellAlone ==
    ASSUME ShellInv, [Next]_vars
    PROVE  ShellInv'
<1>1. CASE OfShell(Shell!Next)
  BY <1>1, ShellStep DEF OfShell
<1>2. CASE UNCHANGED shell
  <2>1. ShellProbes' /\ ShellWindow'
    BY <1>2 DEF shell, ShellInv, ShellProbes, ShellWindow
  <2>2. ShellKinds' /\ ShellFlags'
    BY <1>2 DEF shell, ShellInv, ShellKinds, ShellFlags
  <2> QED
    BY <2>1, <2>2 DEF ShellInv
<1> QED
  BY <1>1, <1>2 DEF Next, vars, OfTest, OfQr, OfChat, OfStream, OfLimit

LEMMA TestsAlone ==
    ASSUME TestsInv, [Next]_vars
    PROVE  TestsInv'
<1>1. CASE OfTest(Tests!Next)
  BY <1>1, TestsStep DEF OfTest
<1>2. CASE UNCHANGED test
  <2>1. /\ open' = open /\ batching' = batching /\ stop' = stop /\ loops' = loops /\ tests' = tests
        /\ testing' = testing /\ results' = results /\ singles' = singles /\ stopped' = stopped
        /\ overlapped' = overlapped
    BY <1>2 DEF test
  <2>2. Tests!TypeOK'
    BY <2>1, Zenon DEF TestsInv, Tests!TypeOK
  <2> QED
    BY <2>1, <2>2 DEF TestsInv, Tests!RowSpinners, Tests!StopOffered, Tests!Live
<1> QED
  BY <1>1, <1>2 DEF Next, vars, OfShell, OfQr, OfChat, OfStream, OfLimit

LEMMA QrAlone ==
    ASSUME QrInv, [Next]_vars
    PROVE  QrInv'
<1>1. CASE OfQr(Qr!Next)
  BY <1>1, QrStep DEF OfQr
<1>2. CASE UNCHANGED qr
  <2>1. /\ visible' = visible /\ step' = step /\ status' = status /\ tradeNo' = tradeNo /\ timer' = timer
        /\ polling' = polling /\ refreshing' = refreshing /\ strayed' = strayed /\ opening' = opening /\ cancelled' = cancelled
        /\ renewing' = renewing /\ polls' = polls /\ orders' = orders /\ next' = next
    BY <1>2 DEF qr
  <2> QED
    BY <2>1, Zenon DEF QrInv, Qr!TypeOK, Qr!PollsOnScreen, Qr!PendingIsPolled, Qr!Shown
<1> QED
  BY <1>1, <1>2 DEF Next, vars, OfShell, OfTest, OfChat, OfStream, OfLimit

LEMMA ChatAlone ==
    ASSUME ChatInv, [Next]_vars
    PROVE  ChatInv'
<1>1. CASE OfChat(Chat!Next)
  BY <1>1, ChatStep DEF OfChat
<1>2. CASE UNCHANGED chat
  <2>1. /\ chatOpen' = chatOpen /\ dot' = dot /\ seen' = seen /\ session' = session /\ messages' = messages
        /\ loading' = loading /\ streaming' = streaming /\ abortRef' = abortRef /\ run' = run /\ wire' = wire
        /\ agents' = agents /\ aborted' = aborted /\ asks' = asks /\ silent' = silent /\ lost' = lost
        /\ crossed' = crossed
    BY <1>2 DEF chat
  <2>2. ChatTypes' /\ ChatRuns' /\ ChatPieces' /\ ChatAgents'
    BY <2>1 DEF ChatInv, ChatTypes, ChatRuns, ChatPieces, ChatAgents
  <2>3. ChatAnswers' /\ ChatSessions' /\ ChatCounts'
    BY <2>1 DEF ChatInv, ChatAnswers, ChatSessions, ChatCounts, Chat!NothingMissed
  <2> QED
    BY <2>2, <2>3 DEF ChatInv
<1> QED
  BY <1>1, <1>2 DEF Next, vars, OfShell, OfTest, OfQr, OfStream, OfLimit

LEMMA RestAlone ==
    ASSUME StreamInv, StreamRest, [Next]_vars
    PROVE  StreamRest'
<1>1. CASE OfStream(Stream!Next)
  BY <1>1, RestStep DEF OfStream, StreamInv
<1>2. CASE UNCHANGED stream
  BY <1>2 DEF stream, StreamRest
<1> QED
  BY <1>1, <1>2 DEF Next, vars, OfShell, OfTest, OfQr, OfChat, OfLimit

LEMMA PartsHold == Spec => []PartsInv
<1>1. Init => PartsInv
  BY ShellInit, TestsInit, QrInit, ChatInit, StreamInit, RestInit, LimitInit DEF Init, PartsInv
<1>2. PartsInv /\ [Next]_vars => PartsInv'
  BY ShellAlone, TestsAlone, QrAlone, ChatAlone, StreamStep, RestAlone, LimitStep DEF PartsInv
<1> QED
  BY <1>1, <1>2, PTL DEF Spec

(* Every variable of the waiting parts keeps its type: no counter, list or *)
(* queue outgrows its bound, though timeouts start two retries each,       *)
(* requests are answered after the dialog has closed and lines are read    *)
(* that nobody takes.                                                      *)
THEOREM Typed == Spec => []TypeOK
<1>1. PartsInv => TypeOK
  BY ShellHolds, ChatHolds, StreamTyped DEF PartsInv, TestsInv, QrInv, LimitInv, TypeOK
<1> QED
  BY <1>1, PartsHold, PTL

(* What is on screen is so, in the shell, the test dialog, the Alipay      *)
(* dialog and the chat: for any number of models, batches, orders,         *)
(* questions, sessions and pieces, answers coming late or not at all.  The *)
(* statement leaves out the stop button once two batches have overlapped,  *)
(* and the polling of a QR code that a refresh answered after a reset put  *)
(* on screen: the code does not poll that one.                             *)
THEOREM Screens == Spec => []ScreensTrue
<1>1. PartsInv => ScreensTrue
  BY ShellHolds, ChatHolds DEF PartsInv, TestsInv, QrInv, ScreensTrue
<1> QED
  BY <1>1, PartsHold, PTL

(* A batch that was told to stop has the flag that it looks at.            *)
StopSeen == stopped \in BOOLEAN /\ stop \in BOOLEAN /\ (stopped => stop)

(* Once the user has stopped the tests, by the button or by closing the    *)
(* dialog, no batch sends another one until a new batch is started.        *)
THEOREM Quiet == Spec => Tests!NoWaveAfterStop
<1> DEFINE Batched(ts) == {x \in ts : x.by # Tests!Nobody}
           Still == stopped /\ stopped' => Batched(tests') \subseteq tests
<1>1. Init => StopSeen
  <2> SUFFICES ASSUME Init PROVE StopSeen
    OBVIOUS
  <2>1. stopped = FALSE /\ stop = FALSE
    BY DEF Init, Tests!Init
  <2> QED
    BY <2>1, Zenon DEF StopSeen
<1>2. StopSeen /\ [Next]_vars => StopSeen' /\ (Still \/ UNCHANGED test)
  <2> SUFFICES ASSUME StopSeen, [Next]_vars PROVE StopSeen' /\ (Still \/ UNCHANGED test)
    OBVIOUS
  <2>1. CASE UNCHANGED test
    BY <2>1 DEF test, StopSeen
  <2>2. CASE Tests!Next
    <3>1. ASSUME UNCHANGED <<stop, stopped>>, tests' \subseteq tests
          PROVE  StopSeen' /\ Still
      BY <3>1 DEF StopSeen
    <3>2. ASSUME NEW m \in Tests!Model, Tests!TestOne(m)
          PROVE  StopSeen' /\ Still
      <4>1. UNCHANGED <<stop, stopped>> /\ Tests!TestChannel({m}, Tests!Nobody, batching)
        BY <3>2 DEF Tests!TestOne
      <4>2. \A x \in tests' : x \in tests \/ x.by = Tests!Nobody
        BY <4>1 DEF Tests!TestChannel
      <4> QED
        BY <4>1, <4>2 DEF StopSeen
    <3>3. ASSUME NEW x \in tests, Tests!TestAnswer(x)
          PROVE  StopSeen' /\ Still
      BY <3>1, <3>3 DEF Tests!TestAnswer
    <3>4. ASSUME NEW l \in Loop, Tests!BatchTestModels(l)
          PROVE  StopSeen' /\ Still
      <4>1. stopped' = FALSE /\ stop' = FALSE
        BY <3>4 DEF Tests!BatchTestModels
      <4> QED
        BY <4>1, Zenon DEF StopSeen
    <3>5. ASSUME NEW l \in Loop, Tests!NextWave(l)
          PROVE  StopSeen' /\ Still
      <4>1. UNCHANGED <<stop, stopped>> /\ (stop => tests' = tests)
        BY <3>5 DEF Tests!NextWave
      <4> QED
        BY <4>1 DEF StopSeen
    <3>6. ASSUME NEW l \in Loop, Tests!WaveSettled(l) \/ Tests!PauseOver(l) \/ Tests!Summary(l)
          PROVE  StopSeen' /\ Still
      BY <3>1, <3>6 DEF Tests!WaveSettled, Tests!PauseOver, Tests!Summary
    <3>7. CASE Tests!StopBatchTesting
      <4>1. stop' = TRUE /\ stopped' = TRUE /\ tests' = tests
        BY <3>7 DEF Tests!StopBatchTesting
      <4>2. StopSeen'
        BY <4>1, Zenon DEF StopSeen
      <4> QED
        BY <4>1, <4>2
    <3>8. CASE Tests!HandleCloseModal
      <4>1. stop' = (stop \/ batching) /\ stopped' = (stopped \/ batching)
        BY <3>8 DEF Tests!HandleCloseModal
      <4>2. tests' = tests
        BY <3>8 DEF Tests!HandleCloseModal
      <4>3. StopSeen'
        BY <4>1, Zenon DEF StopSeen
      <4> QED
        BY <4>2, <4>3
    <3>9. CASE Tests!Reopen \/ Tests!ClearTestResults
      BY <3>1, <3>9 DEF Tests!Reopen, Tests!ClearTestResults
    <3> QED
      BY <2>2, <3>2, <3>3, <3>4, <3>5, <3>6, <3>7, <3>8, <3>9 DEF Tests!Next
  <2> QED
    BY <2>1, <2>2 DEF Next, vars, OfShell, OfTest, OfQr, OfChat, OfStream, OfLimit
<1>3. Still \/ UNCHANGED test
      => [stopped /\ stopped' => {x \in tests' : x.by # Tests!Nobody} \subseteq tests]_(Tests!vars)
  BY DEF test, Tests!vars
<1> QED
  BY <1>1, <1>2, <1>3, PTL DEF Spec, Tests!NoWaveAfterStop
=============================================================================
