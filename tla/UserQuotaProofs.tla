-------------------------- MODULE UserQuotaProofs --------------------------
(***************************************************************************)
(* Proofs about UserQuota for any number of nodes, adjustments, readers,   *)
(* editors and savers: the types, that no adjustment is ever recorded      *)
(* twice, and that the cache never counts a charge or credit twice.        *)
(***************************************************************************)
EXTENDS UserQuota, TLAPS

-----------------------------------------------------------------------------
(* The inductive invariant.                                                *)

Caching == {"incr", "get", "load", "fold", "fill", "incr2"}

(* The control points each kind of goroutine can be at.                    *)
Places(p) ==
    IF p \in Op
    THEN IF Kind[p] = "topup" THEN {"idle", "commit", "done"} \cup Caching
         ELSE IF Kind[p] = "transfer" THEN {"idle", "row", "save", "done"}
         ELSE {"idle", "record", "done"} \cup Caching
    ELSE IF p \in Reader THEN {"idle", "get", "load", "fold", "fill", "done"}
    ELSE {"idle", "row", "save", "reload", "fill", "done"}

PlacesOK == \A p \in Proc : pc[p] \in Places(p)

(* An adjustment that has not reached its recording step.                  *)
Unrecorded(o) ==
    IF Kind[o] = "topup" THEN pc[o] \in {"idle", "commit"} ELSE pc[o] # "done"

UnrecordedOK == \A o \in Op : Unrecorded(o) => o \notin applied

(* What a goroutine has read counts recorded adjustments only, each once.  *)
SnapOK ==
    \A p \in Proc, o \in Op : snap[p][o] <= 1 /\ (o \notin applied => snap[p][o] = 0)

(* A row that will be added to or written back counts no delta that is     *)
(* still to be flushed.                                                    *)
RowOK ==
    \A p \in Proc, o \in Op :
        pc[p] \in {"fold", "save"} /\ o \in pending \cup flight => snap[p][o] = 0

(* The cache does not count an adjustment that has yet to increment it.    *)
AheadOK ==
    \A o \in Op :
        Kind[o] \in {"batch", "direct"} /\ pc[o] \in {"idle"} \cup Caching => cached[o] = 0

CachedOK == \A o \in Op : Kind[o] # "topup" => cached[o] <= 1

IInv ==
    TypeOK /\ PlacesOK /\ UnrecordedOK /\ AppliedOnce /\ SnapOK /\ RowOK /\ AheadOK /\ CachedOK

-----------------------------------------------------------------------------

LEMMA PlusType ==
    ASSUME NEW v \in Value, NEW S
    PROVE  /\ Plus(v, S) \in Value
           /\ \A o \in Op : Plus(v, S)[o] = IF o \in S THEN v[o] + 1 ELSE v[o]
BY DEF Plus, Value

(* Initially nothing is recorded, read or cached.                          *)
LEMMA InitInv == Init => IInv
<1> SUFFICES ASSUME Init PROVE IInv
    OBVIOUS
<1> USE UserQuotaAssumption DEF Init, Nothing, Proc
<1>1. TypeOK
    BY DEF TypeOK, Value
<1>2. PlacesOK
    BY DEF PlacesOK, Places
<1>3. UnrecordedOK /\ AppliedOnce /\ SnapOK /\ RowOK /\ AheadOK /\ CachedOK
    BY DEF UnrecordedOK, AppliedOnce, SnapOK, RowOK, AheadOK, CachedOK
<1> QED BY <1>1, <1>2, <1>3 DEF IInv

(* Every step keeps the types.                                             *)
LEMMA NextType == IInv /\ Next => TypeOK'
<1> SUFFICES ASSUME IInv, Next PROVE TypeOK'
    OBVIOUS
<1> USE UserQuotaAssumption DEF TypeOK, IInv, Goto, storeVars, redisVars
<1>a. \A S : Plus(db, S) \in Value
    BY PlusType
<1>b. \A S : Plus(cached, S) \in Value
    BY PlusType
<1>c. \A p \in Proc : \A S : Plus(snap[p], S) \in Value
    BY PlusType
<1>d. Nothing \in Value
    BY DEF Nothing, Value
<1>e. \A p \in Proc : pc[p] \in {"incr", "incr2", "record", "commit"} => p \in Op
    BY DEF PlacesOK, Places, Caching
<1>1. ASSUME NEW p \in Proc, Start(p) PROVE TypeOK'
    BY <1>1 DEF Start
<1>2. ASSUME NEW p \in Proc, IncrCache(p) PROVE TypeOK'
    BY <1>2, <1>b DEF IncrCache, AfterCache
<1>3. ASSUME NEW p \in Proc, GetCache(p) PROVE TypeOK'
    BY <1>3 DEF GetCache
<1>4. ASSUME NEW p \in Proc, LoadRow(p) PROVE TypeOK'
    BY <1>4 DEF LoadRow
<1>5. ASSUME NEW p \in Proc, FoldPending(p) PROVE TypeOK'
    BY <1>5, <1>c DEF FoldPending
<1>6. ASSUME NEW p \in Proc, FillCache(p) PROVE TypeOK'
    BY <1>6, <1>d DEF FillCache
<1>7. ASSUME NEW p \in Proc, LoadFails(p) PROVE TypeOK'
    BY <1>7 DEF LoadFails, AfterCache
<1>8. ASSUME NEW p \in Proc, ReloadRow(p) PROVE TypeOK'
    BY <1>8 DEF ReloadRow
<1>9. CASE ExpireCache
    BY <1>9, <1>d DEF ExpireCache
<1>10. ASSUME NEW p \in Proc, Record(p) PROVE TypeOK'
    BY <1>10, <1>a, <1>e DEF Record
<1>11. ASSUME NEW p \in Proc, CommitTopUp(p) PROVE TypeOK'
    BY <1>11, <1>a, <1>e DEF CommitTopUp
<1>12. ASSUME NEW p \in Proc, ReadRow(p) PROVE TypeOK'
    BY <1>12 DEF ReadRow
<1>13. ASSUME NEW p \in Proc, SaveRow(p) PROVE TypeOK'
    BY <1>13, <1>c, <1>d DEF SaveRow
<1>14. ASSUME NEW n \in Node, BatchSwap(n) PROVE TypeOK'
    BY <1>14 DEF BatchSwap, OnNode
<1>15. ASSUME NEW n \in Node, BatchExec(n) PROVE TypeOK'
    BY <1>15, <1>a DEF BatchExec, OnNode
<1>16. ASSUME NEW n \in Node, Crash(n) PROVE TypeOK'
    BY <1>16 DEF Crash, OnNode
<1> QED BY <1>1, <1>2, <1>3, <1>4, <1>5, <1>6, <1>7, <1>8, <1>9, <1>10, <1>11, <1>12,
           <1>13, <1>14, <1>15, <1>16 DEF Next, ProcStep

(* The steps of a goroutine keep every goroutine where it may be.          *)
LEMMA NextPlaces == IInv /\ Next => PlacesOK'
<1> SUFFICES ASSUME IInv, Next PROVE PlacesOK'
    OBVIOUS
<1> USE UserQuotaAssumption DEF TypeOK, IInv, PlacesOK, Places, Caching, Proc, OpKind
<1>1. ASSUME NEW p \in Proc, Start(p) PROVE PlacesOK'
    BY <1>1 DEF Start, Goto
<1>2. ASSUME NEW p \in Proc, IncrCache(p) PROVE PlacesOK'
    BY <1>2 DEF IncrCache, Goto, AfterCache
<1>3. ASSUME NEW p \in Proc, GetCache(p) \/ FillCache(p) PROVE PlacesOK'
    BY <1>3 DEF GetCache, FillCache, Goto
<1>4. ASSUME NEW p \in Proc, LoadRow(p) \/ FoldPending(p) \/ ReloadRow(p) PROVE PlacesOK'
    BY <1>4 DEF LoadRow, FoldPending, ReloadRow, Goto
<1>5. ASSUME NEW p \in Proc, LoadFails(p) PROVE PlacesOK'
    BY <1>5 DEF LoadFails, Goto, AfterCache
<1>6. ASSUME NEW p \in Proc, Record(p) \/ CommitTopUp(p) PROVE PlacesOK'
    BY <1>6 DEF Record, CommitTopUp, Goto
<1>7. ASSUME NEW p \in Proc, ReadRow(p) \/ SaveRow(p) PROVE PlacesOK'
    BY <1>7 DEF ReadRow, SaveRow, Goto
<1>8. ASSUME NEW n \in Node, Crash(n) PROVE PlacesOK'
    BY <1>8 DEF Crash
<1>9. ASSUME pc' = pc PROVE PlacesOK'
    BY <1>9
<1> QED BY <1>1, <1>2, <1>3, <1>4, <1>5, <1>6, <1>7, <1>8, <1>9
        DEF Next, ProcStep, ExpireCache, BatchSwap, BatchExec

-----------------------------------------------------------------------------
(* What the invariant says about books and reads, without the places.      *)
Books == UnrecordedOK /\ AppliedOnce /\ SnapOK /\ RowOK /\ AheadOK /\ CachedOK

(* Steps that only read: control moves, and one goroutine reads the row.   *)
LEMMA ReadKeepsBooks ==
    ASSUME IInv, TypeOK', PlacesOK', UNCHANGED <<storeVars, redisVars>>,
           NEW p \in Proc, p \in Op => pc'[p] # "idle",
           \A q \in Proc \ {p} : pc'[q] = pc[q] /\ snap'[q] = snap[q],
           Unrecorded(p)' /\ p \in Op => Unrecorded(p),
           pc'[p] \in {"idle"} \cup Caching /\ p \in Op => pc[p] \in {"idle"} \cup Caching,
           \A o \in Op : /\ snap'[p][o] <= 1
                         /\ o \notin applied => snap'[p][o] = 0
                         /\ pc'[p] \in {"fold", "save"} /\ o \in pending \cup flight
                               => snap'[p][o] = 0
    PROVE  Books'
<1> USE DEF storeVars, redisVars, IInv
<1>1. UnrecordedOK'
    BY DEF UnrecordedOK, Unrecorded, Proc
<1>2. AppliedOnce'
    BY DEF AppliedOnce
<1>3. SnapOK' /\ RowOK'
    BY DEF SnapOK, RowOK
<1>4. AheadOK' /\ CachedOK'
    BY DEF AheadOK, CachedOK, Proc
<1> QED BY <1>1, <1>2, <1>3, <1>4 DEF Books

(* The steps of GetUserCache and the other reads.                          *)
LEMMA ReadSteps ==
    ASSUME IInv, TypeOK', PlacesOK', NEW p \in Proc,
           \/ Start(p) \/ LoadRow(p) \/ FoldPending(p) \/ ReloadRow(p) \/ ReadRow(p)
    PROVE  Books'
<1> USE UserQuotaAssumption DEF Goto, IInv
<1>a. \A o \in Op : db[o] <= 1 /\ (o \notin applied => db[o] = 0)
                    /\ (o \in pending \cup flight => db[o] = 0)
    BY DEF AppliedOnce
<1>b. /\ UNCHANGED <<storeVars, redisVars>>
      /\ \A q \in Proc \ {p} : pc'[q] = pc[q] /\ snap'[q] = snap[q]
    BY DEF Start, LoadRow, FoldPending, ReloadRow, ReadRow, TypeOK
<1>c. p \in Op => pc'[p] # "idle"
    BY DEF Start, LoadRow, FoldPending, ReloadRow, ReadRow, TypeOK
<1>d. Unrecorded(p)' /\ p \in Op => Unrecorded(p)
    BY DEF Start, LoadRow, FoldPending, ReloadRow, ReadRow, TypeOK, Unrecorded, PlacesOK, Places, Caching
<1>e. pc'[p] \in {"idle"} \cup Caching /\ p \in Op => pc[p] \in {"idle"} \cup Caching
    BY DEF Start, LoadRow, FoldPending, ReloadRow, ReadRow, TypeOK, PlacesOK, Places, Caching
<1>f. \A o \in Op : /\ snap'[p][o] <= 1
                    /\ o \notin applied => snap'[p][o] = 0
                    /\ pc'[p] \in {"fold", "save"} /\ o \in pending \cup flight
                          => snap'[p][o] = 0
  <2>1. CASE Start(p)
    BY <2>1 DEF Start, SnapOK, TypeOK
  <2>2. CASE LoadRow(p) \/ ReadRow(p) \/ ReloadRow(p)
    BY <2>2, <1>a DEF LoadRow, ReadRow, ReloadRow, TypeOK
  <2>3. CASE FoldPending(p)
    <3>1. snap'[p] = Plus(snap[p], OnNode(pending, NodeOf[p])) /\ pc'[p] = "fill"
      BY <2>3 DEF FoldPending, TypeOK
    <3>2. \A o \in Op : snap'[p][o] = IF o \in OnNode(pending, NodeOf[p])
                                     THEN snap[p][o] + 1 ELSE snap[p][o]
      BY <3>1, PlusType DEF TypeOK
    <3>3. \A o \in Op : o \in OnNode(pending, NodeOf[p]) => o \in applied /\ snap[p][o] = 0
      BY <2>3 DEF FoldPending, OnNode, RowOK, AppliedOnce
    <3> QED BY <3>1, <3>2, <3>3 DEF SnapOK, TypeOK
  <2> QED BY <2>1, <2>2, <2>3
<1> QED BY <1>b, <1>c, <1>d, <1>e, <1>f, ReadKeepsBooks

(* The steps that touch the Redis hash.                                    *)
LEMMA CacheSteps ==
    ASSUME IInv, TypeOK', PlacesOK', NEW p \in Proc,
           IncrCache(p) \/ GetCache(p) \/ FillCache(p) \/ LoadFails(p)
    PROVE  Books'
<1> USE UserQuotaAssumption DEF Goto, IInv, storeVars, redisVars
<1>a. \A q \in Proc : q # p => pc'[q] = pc[q]
    BY DEF IncrCache, GetCache, FillCache, LoadFails, TypeOK
<1>b. \A q \in Proc : snap'[q] = snap[q] \/ snap'[q] = Nothing
    BY DEF IncrCache, GetCache, FillCache, LoadFails, TypeOK
<1>c. pc'[p] \notin {"fold", "save"}
    BY DEF IncrCache, GetCache, FillCache, LoadFails, TypeOK, AfterCache
<1>1. UnrecordedOK'
  <2>1. UNCHANGED applied
    BY DEF IncrCache, GetCache, FillCache, LoadFails
  <2>2. p \in Op /\ Unrecorded(p)' => Unrecorded(p)
    BY DEF IncrCache, GetCache, FillCache, LoadFails, TypeOK, Unrecorded, AfterCache,
           PlacesOK, Places, Caching
  <2> QED BY <1>a, <2>1, <2>2 DEF UnrecordedOK, Unrecorded, Proc
<1>2. AppliedOnce'
    BY DEF IncrCache, GetCache, FillCache, LoadFails, AppliedOnce
<1>3. SnapOK' /\ RowOK'
  <2>1. UNCHANGED storeVars
    BY DEF IncrCache, GetCache, FillCache, LoadFails
  <2>2. SnapOK'
    BY <1>b, <2>1 DEF SnapOK, Nothing
  <2>3. RowOK'
    BY <1>a, <1>b, <1>c, <2>1 DEF RowOK, Nothing
  <2> QED BY <2>2, <2>3
<1>4. AheadOK' /\ CachedOK'
  <2>1. CASE IncrCache(p)
    <3>1. \A o \in Op : cached'[o] = cached[o] \/ (o = p /\ cached'[o] = cached[o] + 1)
      BY <2>1, PlusType DEF IncrCache, TypeOK
    <3>2. p \in Op /\ Kind[p] # "topup" => Kind[p] \in {"batch", "direct"} /\ cached[p] = 0
      BY <2>1 DEF IncrCache, AheadOK, PlacesOK, Places, Caching, OpKind
    <3>3. p \in Op /\ Kind[p] # "topup" =>
             pc'[p] = "record" \/ (cached' = cached /\ pc[p] = "incr" /\ pc'[p] = "get")
      BY <2>1 DEF IncrCache, AfterCache, TypeOK
    <3> QED BY <1>a, <3>1, <3>2, <3>3 DEF AheadOK, CachedOK, Caching, Proc, TypeOK, Value
  <2>2. CASE FillCache(p)
    <3>1. cached' = cached \/ cached' = snap[p]
      BY <2>2 DEF FillCache
    <3>2. \A o \in Op : pc'[o] \in {"idle"} \cup Caching => pc[o] \in {"idle"} \cup Caching
      BY <2>2 DEF FillCache, TypeOK, Proc, Caching
    <3>3. \A o \in Op : Kind[o] \in {"batch", "direct"} /\ pc[o] \in {"idle"} \cup Caching
                          => snap[p][o] = 0
      BY DEF SnapOK, UnrecordedOK, Unrecorded, Caching
    <3> QED BY <3>1, <3>2, <3>3 DEF AheadOK, CachedOK, SnapOK
  <2>3. CASE GetCache(p) \/ LoadFails(p)
    <3>1. cached' = cached
      BY <2>3 DEF GetCache, LoadFails
    <3>2. \A o \in Op : pc'[o] \in {"idle"} \cup Caching => pc[o] \in {"idle"} \cup Caching
      BY <2>3 DEF GetCache, LoadFails, TypeOK, Proc, Caching
    <3> QED BY <3>1, <3>2 DEF AheadOK, CachedOK
  <2> QED BY <2>1, <2>2, <2>3
<1> QED BY <1>1, <1>2, <1>3, <1>4 DEF Books

(* The steps that record an adjustment, and the row saves.                 *)
LEMMA RecordSteps ==
    ASSUME IInv, TypeOK', PlacesOK', NEW p \in Proc,
           Record(p) \/ CommitTopUp(p)
    PROVE  Books'
<1> USE UserQuotaAssumption DEF Goto, IInv
<1>a. p \in Op /\ Unrecorded(p) /\ p \notin applied
    BY DEF Record, CommitTopUp, PlacesOK, Places, Caching, UnrecordedOK, Unrecorded
<1>b. /\ \A q \in Proc : q # p => pc'[q] = pc[q]
      /\ UNCHANGED <<flight, lost, hash, cached, snap>>
    BY DEF Record, CommitTopUp, TypeOK, redisVars
<1>c. \/ applied' = applied \cup {p} /\ pending' = pending \cup {p} /\ db' = db
      \/ /\ applied' = applied \cup {p} /\ pending' = pending
         /\ \A o \in Op : db'[o] = IF o = p THEN db[o] + 1 ELSE db[o]
      \/ applied' = applied /\ pending' = pending /\ db' = db
    BY PlusType DEF Record, CommitTopUp, TypeOK
<1>1. UnrecordedOK'
  <2>1. ~Unrecorded(p)'
    BY DEF Record, CommitTopUp, TypeOK, Unrecorded, PlacesOK, Places, Caching
  <2> QED BY <1>b, <1>c, <2>1 DEF UnrecordedOK, Unrecorded, Proc
<1>2. AppliedOnce'
    BY <1>a, <1>b, <1>c DEF AppliedOnce, TypeOK, Value
<1>3. SnapOK'
    BY <1>b, <1>c DEF SnapOK
<1>4. RowOK'
  <2>1. pc'[p] \notin {"fold", "save"}
    BY DEF Record, CommitTopUp, TypeOK
  <2>2. \A q \in Proc : snap[q][p] = 0
    BY <1>a DEF SnapOK
  <2> QED BY <1>b, <1>c, <2>1, <2>2 DEF RowOK
<1>5. AheadOK' /\ CachedOK'
  <2>1. \A o \in Op : Kind[o] \in {"batch", "direct"} /\ pc'[o] \in {"idle"} \cup Caching
                        => pc[o] \in {"idle"} \cup Caching
    BY DEF Record, CommitTopUp, TypeOK, PlacesOK, Places, Caching, Proc
  <2> QED BY <1>b, <2>1 DEF AheadOK, CachedOK
<1> QED BY <1>1, <1>2, <1>3, <1>4, <1>5 DEF Books

LEMMA SaveStep ==
    ASSUME IInv, TypeOK', PlacesOK', NEW p \in Proc, SaveRow(p)
    PROVE  Books'
<1> USE UserQuotaAssumption DEF Goto, IInv
<1>a. p \in Op => Kind[p] = "transfer" /\ p \notin applied
    BY DEF SaveRow, PlacesOK, Places, Caching, UnrecordedOK, Unrecorded
<1>b. /\ \A q \in Proc : q # p => pc'[q] = pc[q] /\ snap'[q] = snap[q]
      /\ UNCHANGED <<pending, flight, hash, cached>>
      /\ snap'[p] = Nothing
      /\ applied' = IF p \in Op THEN applied \cup {p} ELSE applied
      /\ pc'[p] \in {"done", "reload"} /\ (p \in Op => pc'[p] = "done")
    BY DEF SaveRow, TypeOK, redisVars
<1>c. \A o \in Op : db'[o] = IF o = p THEN snap[p][o] + 1 ELSE snap[p][o]
  <2>1. CASE p \in Op
    BY <2>1, PlusType DEF SaveRow, TypeOK
  <2>2. CASE p \notin Op
    BY <2>2 DEF SaveRow, TypeOK
  <2> QED BY <2>1, <2>2
<1>d. lost' = {o \in applied' : db'[o] = 0 /\ o \notin pending \cup flight}
    BY DEF SaveRow
<1>e. \A o \in Op : o \in pending \cup flight => snap[p][o] = 0 /\ o \in applied
    BY DEF SaveRow, RowOK, AppliedOnce
<1>1. UnrecordedOK'
    BY <1>b DEF UnrecordedOK, Unrecorded, Proc
<1>2. AppliedOnce'
  <2>1. \A o \in Op : snap[p][o] \in {0, 1} /\ (o \notin applied => snap[p][o] = 0)
    <3>1. snap[p] \in Value
      BY DEF TypeOK
    <3>2. \A o \in Op : snap[p][o] \in Nat
      BY <3>1 DEF Value
    <3> QED BY <3>2 DEF SnapOK
  <2> QED BY <1>a, <1>b, <1>c, <1>d, <1>e, <2>1 DEF AppliedOnce
<1>3. SnapOK' /\ RowOK'
    BY <1>b DEF SnapOK, RowOK, Nothing
<1>4. AheadOK' /\ CachedOK'
    BY <1>a, <1>b DEF AheadOK, CachedOK, Proc, Caching
<1> QED BY <1>1, <1>2, <1>3, <1>4 DEF Books

(* The batch loop and the expiry of the hash.                              *)
LEMMA BackgroundSteps ==
    ASSUME IInv, TypeOK', PlacesOK',
           ExpireCache \/ \E n \in Node : BatchSwap(n) \/ BatchExec(n)
    PROVE  Books'
<1> USE UserQuotaAssumption DEF IInv
<1>1. CASE ExpireCache
    BY <1>1 DEF ExpireCache, Books, UnrecordedOK, Unrecorded, AppliedOnce, SnapOK, RowOK,
                AheadOK, CachedOK, Nothing, storeVars
<1>2. ASSUME NEW n \in Node, BatchSwap(n) PROVE Books'
    BY <1>2 DEF BatchSwap, OnNode, redisVars, Books, UnrecordedOK, Unrecorded, AppliedOnce,
                SnapOK, RowOK, AheadOK, CachedOK
<1>3. ASSUME NEW n \in Node, BatchExec(n) PROVE Books'
  <2>1. \A o \in Op : Plus(db, OnNode(flight, n))[o]
                        = IF o \in OnNode(flight, n) THEN db[o] + 1 ELSE db[o]
    BY PlusType DEF TypeOK
  <2>2. AppliedOnce'
    BY <1>3, <2>1 DEF BatchExec, OnNode, AppliedOnce, TypeOK, Value
  <2>3. RowOK'
    BY <1>3 DEF BatchExec, RowOK
  <2> QED BY <1>3, <2>2, <2>3 DEF BatchExec, redisVars, Books, UnrecordedOK, Unrecorded,
                                  SnapOK, AheadOK, CachedOK
<1> QED BY <1>1, <1>2, <1>3

LEMMA CrashStep ==
    ASSUME IInv, TypeOK', PlacesOK', NEW n \in Node, Crash(n)
    PROVE  Books'
<1> USE UserQuotaAssumption DEF IInv
<1>a. \A p \in Proc : \/ pc'[p] = pc[p]
                      \/ pc[p] \notin {"idle", "done"} /\ p \in Op /\ pc'[p] = "done"
                      \/ p \notin Op /\ pc'[p] = "idle"
    BY DEF Crash
<1>1. UnrecordedOK'
    BY <1>a DEF Crash, UnrecordedOK, Unrecorded, Proc
<1>2. AppliedOnce'
    BY DEF Crash, AppliedOnce, OnNode
<1>3. SnapOK' /\ RowOK'
    BY <1>a DEF Crash, SnapOK, RowOK, OnNode
<1>4. AheadOK' /\ CachedOK'
    BY <1>a DEF Crash, AheadOK, CachedOK, Proc, Caching, redisVars
<1> QED BY <1>1, <1>2, <1>3, <1>4 DEF Books

-----------------------------------------------------------------------------

(* IInv is inductive.                                                      *)
LEMMA NextInv == IInv /\ [Next]_vars => IInv'
<1> SUFFICES ASSUME IInv, [Next]_vars PROVE IInv'
    OBVIOUS
<1>1. CASE Next
  <2>1. TypeOK' /\ PlacesOK'
    BY <1>1, NextType, NextPlaces
  <2>2. Books'
    BY <1>1, <2>1, ReadSteps, CacheSteps, RecordSteps, SaveStep, BackgroundSteps, CrashStep
       DEF Next, ProcStep
  <2> QED BY <2>1, <2>2 DEF IInv, Books
<1>2. CASE UNCHANGED vars
    BY <1>2 DEF vars, IInv, TypeOK, PlacesOK, Places, UnrecordedOK, Unrecorded, AppliedOnce,
                SnapOK, RowOK, AheadOK, CachedOK
<1> QED BY <1>1, <1>2

(* IInv holds throughout.                                                  *)
THEOREM Invariance == Spec => []IInv
BY InitInv, NextInv, PTL DEF Spec

(* Type correctness of database row, batch stores, cache and goroutines.   *)
THEOREM TypeCorrect == Spec => []TypeOK
<1>1. IInv => TypeOK
    BY DEF IInv
<1> QED BY <1>1, Invariance, PTL

(* Flushes, crashes, failed statements and whole-row saves never make an   *)
(* adjustment count twice in database and batch stores together.           *)
THEOREM RecordedOnce == Spec => []AppliedOnce
<1>1. IInv => AppliedOnce
    BY DEF IInv
<1> QED BY <1>1, Invariance, PTL

(* Rebuilds of the Redis hash, however they interleave with increments and *)
(* flushes, never make a charge or a credit count twice.                   *)
THEOREM CachedOnce == Spec => []CacheCountsOnce
<1>1. IInv => CacheCountsOnce
    BY DEF IInv, CachedOK, CacheCountsOnce
<1> QED BY <1>1, Invariance, PTL
=============================================================================
