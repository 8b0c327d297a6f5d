---------------------------- MODULE TopUpProofs ----------------------------
(***************************************************************************)
(* Proofs about TopUp: the reference-counted mutexes of LockOrder and      *)
(* UnlockOrder exclude each other per node and order and leave nothing in  *)
(* the map, for any number of orders, nodes and calls, with crashes; and   *)
(* on one node, orders paid through epay are credited at most once.        *)
(***************************************************************************)
EXTENDS TopUp, FiniteSetTheorems, TLAPS

(* The calls that hold a reference to mutex m.                             *)
Users(m) == {p \in Proc : Uses(p) /\ mine[p] = m}

(* A call with a reference points to the mutex in the map, which was       *)
(* created by a call that is past LockOrder's first half.                  *)
PointsToEntry ==
    \A p \in Proc : Uses(p) => mine[p] = Entry(p) /\ at[mine[p]] \notin {"new", "refer"}

(* The map's mutexes: each is of its node and order, and in use.           *)
EntriesUsed ==
    \A n \in Node, o \in Order : entry[n][o] # None =>
        /\ NodeOf[entry[n][o]] = n /\ OrderOf[entry[n][o]] = o
        /\ Users(entry[n][o]) # {}

CountsUsers == \A m \in Proc : refCount[m] = Cardinality(Users(m))

(* A mutex is held by the one call in its critical section.                *)
OwnerCritical ==
    /\ \A m \in Proc : owner[m] # None => Critical(owner[m]) /\ mine[owner[m]] = m
    /\ \A p \in Proc : Critical(p) => owner[mine[p]] = p

(* Only the handlers that lock come to the steps of LockOrder, and they    *)
(* never ask the gateway.                                                  *)
LockersOnly ==
    \A p \in Proc :
        /\ at[p] \in {"refer", "acquire", "load", "release", "unref"} => Locks(p)
        /\ at[p] = "ask" => ~Locks(p)

LockInv ==
    /\ TypeOK /\ PointsToEntry /\ EntriesUsed /\ CountsUsers
    /\ OwnerCritical /\ LockersOnly

-----------------------------------------------------------------------------
(* There are finitely many calls.                                          *)
LEMMA UsersFinite == \A m : IsFiniteSet(Users(m))
BY TopUpAssumption, FS_Subset DEF Users

(* Init: nothing is locked.                                                *)
LEMMA LockInit == Init => LockInv
<1> SUFFICES ASSUME Init PROVE LockInv
    OBVIOUS
<1>1. TypeOK
    BY TopUpAssumption DEF Init, TypeOK, Places
<1>2. \A p \in Proc : ~Uses(p)
    BY DEF Init, Uses, Critical
<1>3. \A m \in Proc : Users(m) = {}
    BY <1>2 DEF Users
<1>4. CountsUsers
    BY <1>3, FS_EmptySet DEF CountsUsers, Init
<1>5. PointsToEntry /\ EntriesUsed /\ LockersOnly
    BY <1>2 DEF PointsToEntry, EntriesUsed, LockersOnly, Init
<1>6. OwnerCritical
    BY <1>2 DEF OwnerCritical, Init, Uses, Critical
<1> QED
    BY <1>1, <1>4, <1>5, <1>6 DEF LockInv

(* Every call has its order and its node.                                  *)
LEMMA CallsTyped ==
    \A p \in Proc : OrderOf[p] \in Order /\ NodeOf[p] \in Node /\ p # None
BY TopUpAssumption

(* Setting one entry of one node keeps the type of orderLocks.             *)
LEMMA EntryTyped ==
    ASSUME NEW E \in [Node -> [Order -> Proc \cup {None}]],
           NEW n \in Node, NEW o \in Order, NEW m \in Proc \cup {None}
    PROVE  [E EXCEPT ![n][o] = m] \in [Node -> [Order -> Proc \cup {None}]]
<1>1. [E[n] EXCEPT ![o] = m] \in [Order -> Proc \cup {None}]
    OBVIOUS
<1> QED
    BY <1>1

(* Every step keeps the types.                                             *)
LEMMA TypeStep == TypeOK /\ CountsUsers /\ LockersOnly /\ [Next]_vars => TypeOK'
<1> SUFFICES ASSUME TypeOK, CountsUsers, LockersOnly, [Next]_vars PROVE TypeOK'
    OBVIOUS
<1> USE CallsTyped
<1>1. CASE UNCHANGED vars
    BY <1>1 DEF TypeOK, vars, orderVars, payVars, lockVars
<1>2. ASSUME NEW p \in Proc, Handle(p) PROVE TypeOK'
  <2> USE DEF TypeOK, orderVars, payVars, lockVars, Goto, SetStatus, SetEntry, Places
  <2>1. CASE InsertOrder(p) \/ GatewayRefuses(p)
      BY <2>1 DEF InsertOrder, GatewayRefuses
  <2>2. CASE GatewayAccepts(p)
      BY <2>2 DEF GatewayAccepts
  <2>3. CASE SaveOrder(p)
      BY <2>3 DEF SaveOrder
  <2>4. CASE Notify(p) \/ AlipayTopUpStatus(p) \/ AdminCompleteTopUp(p)
      BY <2>4 DEF Notify, AlipayTopUpStatus, AdminCompleteTopUp
  <2>5. CASE GetTopUp(p) \/ AskGateway(p) \/ ReadOrder(p)
      BY <2>5 DEF GetTopUp, AskGateway, ReadOrder, Finish
  <2>6. CASE CommitTopUp(p)
      BY <2>6 DEF CommitTopUp, Finish
  <2>7. CASE ReferMutex(p)
    <3> DEFINE m == IF Entry(p) = None THEN p ELSE Entry(p)
    <3>1. m \in Proc /\ NodeOf[p] \in Node /\ OrderOf[p] \in Order
        BY DEF Entry
    <3> HIDE DEF m
    <3>2. /\ entry' = [entry EXCEPT ![NodeOf[p]][OrderOf[p]] = m]
          /\ mine' = [mine EXCEPT ![p] = m]
          /\ refCount' = [refCount EXCEPT ![m] = @ + 1]
          /\ at' = [at EXCEPT ![p] = "acquire"]
          /\ UNCHANGED <<orderVars, payVars, owner>>
        BY <2>7 DEF ReferMutex, m
    <3> QED
        BY <3>1, <3>2
  <2>0. mine[p] \in Proc /\ NodeOf[p] \in Node /\ OrderOf[p] \in Order
      OBVIOUS
  <2>8. CASE AcquireMutex(p) \/ ReleaseMutex(p)
    <3>1. owner' \in [Proc -> Proc \cup {None}]
        BY <2>0, <2>8 DEF AcquireMutex, ReleaseMutex
    <3>2. at' \in [Proc -> Places]
        BY <2>8 DEF AcquireMutex, ReleaseMutex
    <3> QED
        BY <2>8, <3>1, <3>2 DEF AcquireMutex, ReleaseMutex
  <2>9. CASE LoadMutex(p)
    <3>1. Entry(p) \in Proc \cup {None}
        BY DEF Entry
    <3> QED
        BY <2>9, <3>1 DEF LoadMutex
  <2>10. CASE UnrefMutex(p)
    <3>1. p \in Users(mine[p])
        BY <2>10 DEF UnrefMutex, Users, Uses, LockersOnly
    <3>2. refCount[mine[p]] # 0
        BY <3>1, UsersFinite, FS_EmptySet DEF CountsUsers
    <3>3. refCount' \in [Proc -> Nat]
      <4>1. refCount' = [refCount EXCEPT ![mine[p]] = refCount[mine[p]] - 1]
          BY <2>10 DEF UnrefMutex
      <4>2. refCount[mine[p]] - 1 \in Nat
          BY <2>0, <3>2
      <4> QED
          BY <2>0, <4>1, <4>2
    <3>4. entry' = entry \/ entry' = [entry EXCEPT ![NodeOf[p]][OrderOf[p]] = None]
        BY <2>10 DEF UnrefMutex
    <3>5. entry' \in [Node -> [Order -> Proc \cup {None}]]
      <4>1. entry \in [Node -> [Order -> Proc \cup {None}]]
          OBVIOUS
      <4>2. [entry EXCEPT ![NodeOf[p]][OrderOf[p]] = None]
              \in [Node -> [Order -> Proc \cup {None}]]
          BY <2>0, <4>1, EntryTyped
      <4> QED
          BY <3>4, <4>1, <4>2
    <3> QED
        BY <2>10, <3>3, <3>5 DEF UnrefMutex
  <2> QED
      BY <1>2, <2>1, <2>2, <2>3, <2>4, <2>5, <2>6, <2>7, <2>8, <2>9, <2>10
      DEF Handle
<1>3. ASSUME NEW o \in Order, UserPays(o) PROVE TypeOK'
    BY <1>3 DEF UserPays, TypeOK, orderVars, lockVars
<1>4. ASSUME NEW n \in Node, Crash(n) PROVE TypeOK'
    BY <1>4 DEF Crash, TypeOK, orderVars, payVars, Places
<1> QED
    BY <1>1, <1>2, <1>3, <1>4 DEF Next

-----------------------------------------------------------------------------
(* A step that leaves the locks alone and moves no call into or out of     *)
(* LockOrder ... UnlockOrder keeps the lock invariant.                     *)
LEMMA QuietStep ==
    ASSUME LockInv, TypeOK', LockersOnly', UNCHANGED lockVars,
           \A q \in Proc : (Uses(q)' <=> Uses(q)) /\ (Critical(q)' <=> Critical(q)),
           \A q \in Proc : at[q] \notin {"new", "refer"} => at'[q] \notin {"new", "refer"}
    PROVE  LockInv'
<1> USE DEF LockInv, lockVars
<1>1. \A m : Users(m)' = Users(m)
    BY DEF Users
<1>2. CountsUsers' /\ EntriesUsed'
    BY <1>1 DEF CountsUsers, EntriesUsed
<1>3. PointsToEntry'
    BY DEF PointsToEntry, Entry, TypeOK
<1>4. OwnerCritical'
    BY DEF OwnerCritical, TypeOK
<1> QED
    BY <1>2, <1>3, <1>4

(* LockOrder, first half: a reference to the entry's mutex or a new one.   *)
LEMMA ReferStep ==
    ASSUME LockInv, TypeOK', NEW p \in Proc, ReferMutex(p)
    PROVE  LockInv'
<1> DEFINE m == IF Entry(p) = None THEN p ELSE Entry(p)
<1> USE CallsTyped
<1>0. TypeOK /\ PointsToEntry /\ EntriesUsed /\ CountsUsers /\ OwnerCritical /\ LockersOnly
    BY DEF LockInv
<1>1. /\ at[p] = "refer" /\ Locks(p) /\ ~Uses(p) /\ m \in Proc
      /\ NodeOf[p] \in Node /\ OrderOf[p] \in Order
    BY <1>0 DEF ReferMutex, LockersOnly, Uses, Critical, Entry, TypeOK
<1>2. /\ entry' = [entry EXCEPT ![NodeOf[p]][OrderOf[p]] = m]
      /\ mine' = [mine EXCEPT ![p] = m]
      /\ refCount' = [refCount EXCEPT ![m] = @ + 1]
      /\ at' = [at EXCEPT ![p] = "acquire"]
      /\ owner' = owner
    BY DEF ReferMutex, Goto, SetEntry
<1>3. \A q \in Proc : q # p => /\ Uses(q)' <=> Uses(q)
                               /\ mine'[q] = mine[q] /\ at'[q] = at[q]
    BY <1>0, <1>2 DEF Uses, Critical, Locks, TypeOK
<1>4. Uses(p)' /\ mine'[p] = m /\ at'[p] = "acquire"
    BY <1>0, <1>1, <1>2 DEF Uses, Critical, Locks, TypeOK
<1>5. \A k \in Proc : Users(k)' = IF k = m THEN Users(k) \cup {p} ELSE Users(k)
    BY <1>1, <1>3, <1>4 DEF Users
<1>6. \A k \in Proc : p \notin Users(k)
    BY <1>1 DEF Users
<1>7. CountsUsers'
  <2>1. Cardinality(Users(m) \cup {p}) = Cardinality(Users(m)) + 1
      BY <1>1, <1>6, UsersFinite, FS_AddElement
  <2>2. refCount'[m] = refCount[m] + 1 /\ \A k \in Proc : k # m => refCount'[k] = refCount[k]
      BY <1>0, <1>1, <1>2 DEF TypeOK
  <2>3. \A k \in Proc : refCount'[k] = Cardinality(Users(k)')
      BY <1>0, <1>1, <1>5, <2>1, <2>2 DEF CountsUsers
  <2> QED
      BY <2>3 DEF CountsUsers
<1>8. \A k \in Proc : Users(k) # {} => at[k] \notin {"new", "refer"}
    BY <1>0 DEF Users, PointsToEntry
<1>9. m = p \/ (m = Entry(p) /\ m # None /\ NodeOf[m] = NodeOf[p]
                 /\ OrderOf[m] = OrderOf[p] /\ Users(m) # {})
    BY <1>0, <1>1 DEF EntriesUsed, Entry
<1>10. at'[m] \notin {"new", "refer"}
    BY <1>1, <1>3, <1>4, <1>8, <1>9
<1> HIDE DEF m
<1>11. \A q \in Proc : Uses(q) => Entry(q)' = Entry(q)
  <2> SUFFICES ASSUME NEW q \in Proc, Uses(q) PROVE Entry(q)' = Entry(q)
      OBVIOUS
  <2>1. Entry(q) \in Proc
      BY <1>0 DEF PointsToEntry, TypeOK
  <2>2. CASE NodeOf[q] = NodeOf[p] /\ OrderOf[q] = OrderOf[p]
    <3>1. m = Entry(q)
        BY <2>1, <2>2 DEF m, Entry
    <3> QED
        BY <1>0, <1>1, <1>2, <2>2, <3>1 DEF Entry, TypeOK
  <2>3. CASE ~(NodeOf[q] = NodeOf[p] /\ OrderOf[q] = OrderOf[p])
      BY <1>0, <1>1, <1>2, <2>3 DEF Entry, TypeOK
  <2> QED
      BY <2>2, <2>3
<1>12. Entry(p)' = m
    BY <1>0, <1>1, <1>2 DEF Entry, TypeOK
<1>13. PointsToEntry'
  <2> SUFFICES ASSUME NEW q \in Proc, Uses(q)'
               PROVE  mine'[q] = Entry(q)' /\ at'[mine'[q]] \notin {"new", "refer"}
      BY DEF PointsToEntry
  <2>1. CASE q = p
      BY <1>4, <1>10, <1>12, <2>1
  <2>2. CASE q # p
    <3>1. mine[q] = Entry(q) /\ mine[q] \in Proc /\ at[mine[q]] \notin {"new", "refer"}
        BY <1>0, <1>3, <2>2 DEF PointsToEntry, TypeOK
    <3> QED
        BY <1>1, <1>3, <1>11, <2>2, <3>1
  <2> QED
      BY <2>1, <2>2
<1>14. EntriesUsed'
  <2> SUFFICES ASSUME NEW n \in Node, NEW o \in Order, entry'[n][o] # None
               PROVE  /\ NodeOf[entry'[n][o]] = n /\ OrderOf[entry'[n][o]] = o
                      /\ Users(entry[n][o])' # {}
      BY DEF EntriesUsed
  <2>1. CASE n = NodeOf[p] /\ o = OrderOf[p]
    <3>1. entry'[n][o] = m
        BY <1>12, <2>1 DEF Entry
    <3>2. p \in Users(entry[n][o])'
        BY <1>4, <3>1 DEF Users
    <3> QED
        BY <1>9, <2>1, <3>1, <3>2
  <2>2. CASE ~(n = NodeOf[p] /\ o = OrderOf[p])
    <3>1. entry'[n][o] = entry[n][o] /\ entry[n][o] \in Proc
        BY <1>0, <1>1, <1>2, <2>2 DEF TypeOK
    <3>2. Users(entry[n][o]) # {} /\ NodeOf[entry[n][o]] = n /\ OrderOf[entry[n][o]] = o
        BY <1>0, <3>1 DEF EntriesUsed
    <3>3. PICK q \in Proc : Uses(q) /\ mine[q] = entry[n][o]
        BY <3>2 DEF Users
    <3>4. q \in Users(entry[n][o])'
        BY <1>1, <1>3, <3>1, <3>3 DEF Users
    <3> QED
        BY <3>1, <3>2, <3>4
  <2> QED
      BY <2>1, <2>2
<1>15. \A q \in Proc : Critical(q)' <=> Critical(q)
    BY <1>1, <1>3, <1>4 DEF Critical, Locks
<1>16. OwnerCritical'
  <2>1. \A q \in Proc : Critical(q) => q # p
      BY <1>1 DEF Critical
  <2> QED
      BY <1>0, <1>2, <1>3, <1>15, <2>1 DEF OwnerCritical, TypeOK
<1>17. LockersOnly'
    BY <1>0, <1>1, <1>3, <1>4 DEF LockersOnly, Locks
<1> QED
    BY <1>7, <1>13, <1>14, <1>16, <1>17 DEF LockInv

(* LockOrder, second half, and the first of UnlockOrder: the mutex itself. *)
LEMMA MutexStep ==
    ASSUME LockInv, TypeOK', NEW p \in Proc, AcquireMutex(p) \/ ReleaseMutex(p)
    PROVE  LockInv'
<1> USE CallsTyped
<1>0. TypeOK /\ PointsToEntry /\ EntriesUsed /\ CountsUsers /\ OwnerCritical /\ LockersOnly
    BY DEF LockInv
<1>1. /\ at[p] \in {"acquire", "release"} /\ Locks(p) /\ Uses(p) /\ mine[p] \in Proc
      /\ UNCHANGED <<entry, refCount, mine>>
    BY <1>0 DEF AcquireMutex, ReleaseMutex, LockersOnly, Uses, Critical, TypeOK
<1>2. /\ \A q \in Proc : q # p => at'[q] = at[q]
      /\ at'[p] \in {"read", "get", "unref"}
    BY <1>0 DEF AcquireMutex, ReleaseMutex, Goto, TypeOK
<1>3. \A q \in Proc : Uses(q)' <=> Uses(q)
    BY <1>1, <1>2 DEF Uses, Critical, Locks
<1>4. \A k : Users(k)' = Users(k)
    BY <1>1, <1>3 DEF Users
<1>5. CountsUsers' /\ EntriesUsed'
    BY <1>0, <1>1, <1>4 DEF CountsUsers, EntriesUsed
<1>6. PointsToEntry'
  <2> SUFFICES ASSUME NEW q \in Proc, Uses(q)
               PROVE  mine[q] = Entry(q) /\ at'[mine[q]] \notin {"new", "refer"}
      BY <1>1, <1>3 DEF PointsToEntry, Entry
  <2>1. mine[q] \in Proc /\ mine[q] = Entry(q) /\ at[mine[q]] \notin {"new", "refer"}
      BY <1>0 DEF PointsToEntry, TypeOK
  <2> QED
      BY <1>2, <2>1
<1>7. LockersOnly'
    BY <1>0, <1>1, <1>2 DEF LockersOnly, Locks
<1>8. OwnerCritical'
  <2>1. CASE AcquireMutex(p)
    <3>1. owner[mine[p]] = None /\ owner' = [owner EXCEPT ![mine[p]] = p]
        BY <2>1 DEF AcquireMutex
    <3>2. ~Critical(p)
        BY <2>1 DEF AcquireMutex, Critical
    <3>3. Critical(p)'
        BY <1>0, <1>1, <2>1 DEF AcquireMutex, Goto, Critical, Locks, TypeOK
    <3>4. \A q \in Proc : q # p => (Critical(q)' <=> Critical(q))
        BY <1>2 DEF Critical, Locks
    <3>5. owner'[mine[p]] = p /\ \A k \in Proc : k # mine[p] => owner'[k] = owner[k]
        BY <1>0, <1>1, <3>1 DEF TypeOK
    <3>6. \A k \in Proc : owner'[k] # None => Critical(owner[k])' /\ mine[owner'[k]] = k
      <4> SUFFICES ASSUME NEW k \in Proc, owner'[k] # None
                   PROVE  Critical(owner[k])' /\ mine[owner'[k]] = k
          OBVIOUS
      <4>1. CASE k = mine[p]
          BY <3>3, <3>5, <4>1
      <4>2. CASE k # mine[p]
        <5>1. owner'[k] = owner[k] /\ owner[k] \in Proc
            BY <1>0, <3>5, <4>2 DEF TypeOK
        <5>2. Critical(owner[k]) /\ mine[owner[k]] = k
            BY <1>0, <5>1 DEF OwnerCritical
        <5> QED
            BY <3>2, <3>4, <5>1, <5>2
      <4> QED
          BY <4>1, <4>2
    <3>7. \A q \in Proc : Critical(q)' => owner'[mine[q]] = q
      <4> SUFFICES ASSUME NEW q \in Proc, Critical(q)', q # p
                   PROVE  owner'[mine[q]] = q
          BY <3>5
      <4>1. owner[mine[q]] = q /\ mine[q] \in Proc
          BY <1>0, <3>4 DEF OwnerCritical, TypeOK
      <4> QED
          BY <3>1, <3>5, <4>1
    <3> QED
        BY <1>1, <3>6, <3>7 DEF OwnerCritical
  <2>2. CASE ReleaseMutex(p)
    <3>1. Critical(p) /\ owner' = [owner EXCEPT ![mine[p]] = None]
        BY <1>1, <2>2 DEF ReleaseMutex, Critical
    <3>2. owner[mine[p]] = p
        BY <1>0, <3>1 DEF OwnerCritical
    <3>3. ~Critical(p)'
        BY <1>0, <2>2 DEF ReleaseMutex, Goto, Critical, TypeOK
    <3>4. \A q \in Proc : q # p => (Critical(q)' <=> Critical(q))
        BY <1>2 DEF Critical, Locks
    <3>5. owner'[mine[p]] = None /\ \A k \in Proc : k # mine[p] => owner'[k] = owner[k]
        BY <1>0, <1>1, <3>1 DEF TypeOK
    <3>6. \A k \in Proc : owner'[k] # None => Critical(owner[k])' /\ mine[owner'[k]] = k
      <4> SUFFICES ASSUME NEW k \in Proc, owner'[k] # None
                   PROVE  Critical(owner[k])' /\ mine[owner'[k]] = k
          OBVIOUS
      <4>1. owner'[k] = owner[k] /\ owner[k] \in Proc /\ k # mine[p]
          BY <1>0, <3>5 DEF TypeOK
      <4>2. Critical(owner[k]) /\ mine[owner[k]] = k
          BY <1>0, <4>1 DEF OwnerCritical
      <4> QED
          BY <3>4, <4>1, <4>2
    <3>7. \A q \in Proc : Critical(q)' => owner'[mine[q]] = q
      <4> SUFFICES ASSUME NEW q \in Proc, Critical(q)' PROVE owner'[mine[q]] = q
          OBVIOUS
      <4>1. q # p /\ owner[mine[q]] = q /\ mine[q] \in Proc
          BY <1>0, <3>3, <3>4 DEF OwnerCritical, TypeOK
      <4> QED
          BY <3>2, <3>5, <4>1
    <3> QED
        BY <1>1, <3>6, <3>7 DEF OwnerCritical
  <2> QED
      BY <2>1, <2>2
<1> QED
    BY <1>5, <1>6, <1>7, <1>8 DEF LockInv

(* UnlockOrder, second half: the reference is dropped, and with the last   *)
(* one the entry.                                                          *)
LEMMA UnrefStep ==
    ASSUME LockInv, TypeOK', NEW p \in Proc, UnrefMutex(p)
    PROVE  LockInv'
<1> DEFINE m == mine[p]
<1> USE CallsTyped
<1>0. TypeOK /\ PointsToEntry /\ EntriesUsed /\ CountsUsers /\ OwnerCritical /\ LockersOnly
    BY DEF LockInv
<1>1. at[p] = "unref" /\ Locks(p) /\ Uses(p) /\ m \in Proc /\ ~Critical(p)
    BY <1>0 DEF UnrefMutex, LockersOnly, Uses, Critical, TypeOK
<1>2. m = Entry(p) /\ m # None /\ NodeOf[m] = NodeOf[p] /\ OrderOf[m] = OrderOf[p]
    BY <1>0, <1>1 DEF PointsToEntry, EntriesUsed, Entry
<1>3. /\ refCount' = [refCount EXCEPT ![m] = refCount[m] - 1]
      /\ at' = [at EXCEPT ![p] = "done"]
      /\ owner' = owner /\ mine' = mine
    BY DEF UnrefMutex, Goto
<1>4. \/ refCount[m] = 1 /\ entry' = [entry EXCEPT ![NodeOf[p]][OrderOf[p]] = None]
      \/ refCount[m] # 1 /\ entry' = entry
    BY DEF UnrefMutex, SetEntry
<1>5. ~Uses(p)' /\ \A q \in Proc : q # p => (Uses(q)' <=> Uses(q)) /\ at'[q] = at[q]
    BY <1>0, <1>3 DEF Uses, Critical, Locks, TypeOK
<1>6. \A k \in Proc : Users(k)' = Users(k) \ {p}
    BY <1>3, <1>5 DEF Users
<1>7. p \in Users(m) /\ \A k \in Proc : k # m => p \notin Users(k)
    BY <1>1 DEF Users
<1>8. Cardinality(Users(m) \ {p}) = Cardinality(Users(m)) - 1
    BY <1>7, UsersFinite, FS_RemoveElement
<1>9. CountsUsers'
  <2>1. refCount'[m] = refCount[m] - 1 /\ \A k \in Proc : k # m => refCount'[k] = refCount[k]
      BY <1>0, <1>1, <1>3 DEF TypeOK
  <2>2. \A k \in Proc : k # m => Users(k) \ {p} = Users(k)
      BY <1>7
  <2>3. \A k \in Proc : refCount'[k] = Cardinality(Users(k)')
      BY <1>0, <1>1, <1>6, <1>8, <2>1, <2>2 DEF CountsUsers
  <2> QED
      BY <2>3 DEF CountsUsers
<1>10. refCount[m] = Cardinality(Users(m)) /\ IsFiniteSet(Users(m) \ {p})
    BY <1>0, <1>1, UsersFinite, FS_RemoveElement DEF CountsUsers
<1>11. refCount[m] = 1 => Users(m) \ {p} = {}
    BY <1>8, <1>10, FS_EmptySet
<1>12. refCount[m] # 1 => Users(m) \ {p} # {}
  <2>1. refCount[m] \in Nat
      BY <1>0, <1>1 DEF TypeOK
  <2>2. refCount[m] # 1 => Cardinality(Users(m) \ {p}) # 0
      BY <1>8, <1>10, <2>1
  <2> QED
      BY <2>2, FS_EmptySet
<1>13. \A n \in Node, o \in Order :
          \/ entry'[n][o] = entry[n][o]
          \/ /\ n = NodeOf[p] /\ o = OrderOf[p]
             /\ entry'[n][o] = None /\ Users(m) \ {p} = {}
  <2> SUFFICES ASSUME NEW n \in Node, NEW o \in Order, entry'[n][o] # entry[n][o]
               PROVE  /\ n = NodeOf[p] /\ o = OrderOf[p]
                      /\ entry'[n][o] = None /\ Users(m) \ {p} = {}
      OBVIOUS
  <2>1. refCount[m] = 1 /\ entry' = [entry EXCEPT ![NodeOf[p]][OrderOf[p]] = None]
      BY <1>4
  <2>2. n = NodeOf[p] /\ o = OrderOf[p]
      BY <1>0, <2>1 DEF TypeOK
  <2>3. entry'[n][o] = None
      BY <1>0, <2>1, <2>2 DEF TypeOK
  <2> QED
      BY <1>11, <2>1, <2>2, <2>3
<1>14. PointsToEntry'
  <2> SUFFICES ASSUME NEW q \in Proc, Uses(q), q # p
               PROVE  mine[q] = Entry(q)' /\ at'[mine[q]] \notin {"new", "refer"}
      BY <1>3, <1>5 DEF PointsToEntry
  <2>1. mine[q] = Entry(q) /\ mine[q] \in Proc /\ at[mine[q]] \notin {"new", "refer"}
      BY <1>0 DEF PointsToEntry, TypeOK
  <2>2. Entry(q)' = Entry(q)
    <3>1. mine[q] = m => q \in Users(m) \ {p}
        BY DEF Users
    <3>2. Users(m) \ {p} = {} => ~(NodeOf[q] = NodeOf[p] /\ OrderOf[q] = OrderOf[p])
        BY <1>2, <2>1, <3>1 DEF Entry
    <3> QED
        BY <1>13, <3>2 DEF Entry
  <2>3. at'[mine[q]] \notin {"new", "refer"}
      BY <1>0, <1>3, <2>1 DEF TypeOK
  <2> QED
      BY <2>1, <2>2, <2>3
<1>15. EntriesUsed'
  <2> SUFFICES ASSUME NEW n \in Node, NEW o \in Order, entry'[n][o] # None
               PROVE  /\ NodeOf[entry'[n][o]] = n /\ OrderOf[entry'[n][o]] = o
                      /\ Users(entry[n][o])' # {}
      BY DEF EntriesUsed
  <2>1. entry'[n][o] = entry[n][o] /\ entry[n][o] \in Proc
      BY <1>0, <1>13 DEF TypeOK
  <2>2. /\ NodeOf[entry[n][o]] = n /\ OrderOf[entry[n][o]] = o
        /\ Users(entry[n][o]) # {}
      BY <1>0, <2>1 DEF EntriesUsed
  <2>3. Users(entry[n][o]) \ {p} # {}
    <3>1. CASE entry[n][o] = m
      <4>1. n = NodeOf[p] /\ o = OrderOf[p]
          BY <1>2, <2>2, <3>1
      <4>2. refCount[m] # 1
        <5> SUFFICES ASSUME refCount[m] = 1 PROVE FALSE
            OBVIOUS
        <5>1. entry' = [entry EXCEPT ![NodeOf[p]][OrderOf[p]] = None]
            BY <1>4
        <5>2. entry'[n][o] = None
            BY <1>0, <4>1, <5>1 DEF TypeOK
        <5> QED
            BY <5>2
      <4> QED
          BY <1>12, <3>1, <4>2
    <3>2. CASE entry[n][o] # m
        BY <1>7, <2>1, <2>2, <3>2
    <3> QED
        BY <3>1, <3>2
  <2>4. PICK q \in Proc : Uses(q) /\ q # p /\ mine[q] = entry[n][o]
      BY <2>3 DEF Users
  <2>5. q \in Users(entry[n][o])'
      BY <1>3, <1>5, <2>1, <2>4 DEF Users
  <2> QED
      BY <2>1, <2>2, <2>5
<1>16. \A q \in Proc : Critical(q)' <=> Critical(q)
    BY <1>0, <1>1, <1>3 DEF Critical, Locks, TypeOK
<1>17. OwnerCritical'
    BY <1>0, <1>3, <1>16 DEF OwnerCritical, TypeOK
<1>18. LockersOnly'
    BY <1>0, <1>1, <1>3 DEF LockersOnly, Locks, TypeOK
<1> QED
    BY <1>9, <1>14, <1>15, <1>17, <1>18 DEF LockInv

(* A crash takes a node's calls together with its mutexes.                 *)
LEMMA CrashStep ==
    ASSUME LockInv, TypeOK', NEW n \in Node, Crash(n)
    PROVE  LockInv'
<1> USE CallsTyped
<1>0. TypeOK /\ PointsToEntry /\ EntriesUsed /\ CountsUsers /\ OwnerCritical /\ LockersOnly
    BY DEF LockInv
<1>1. /\ at' = [p \in Proc |-> IF UnderWay(p) /\ NodeOf[p] = n THEN "lost" ELSE at[p]]
      /\ entry' = [entry EXCEPT ![n] = [o \in Order |-> None]]
      /\ owner' = [k \in Proc |-> IF NodeOf[k] = n THEN None ELSE owner[k]]
      /\ refCount' = [k \in Proc |-> IF NodeOf[k] = n THEN 0 ELSE refCount[k]]
      /\ mine' = mine
    BY DEF Crash
<1>2. \A q \in Proc : /\ Uses(q)' <=> Uses(q) /\ NodeOf[q] # n
                      /\ Critical(q)' <=> Critical(q) /\ NodeOf[q] # n
                      /\ NodeOf[q] # n => at'[q] = at[q]
    BY <1>0, <1>1 DEF Uses, Critical, Locks, TypeOK, UnderWay
<1>3. \A q \in Proc : Uses(q) => /\ mine[q] \in Proc /\ mine[q] = Entry(q)
                                 /\ NodeOf[mine[q]] = NodeOf[q]
                                 /\ at[mine[q]] \notin {"new", "refer"}
    BY <1>0 DEF PointsToEntry, EntriesUsed, Entry, TypeOK
<1>4. \A k \in Proc : Users(k)' = IF NodeOf[k] = n THEN {} ELSE Users(k)
    BY <1>1, <1>2, <1>3 DEF Users
<1>5. CountsUsers'
    BY <1>0, <1>1, <1>4, FS_EmptySet DEF CountsUsers
<1>6. PointsToEntry'
    BY <1>0, <1>1, <1>2, <1>3 DEF PointsToEntry, Entry, TypeOK
<1>7. EntriesUsed'
  <2> SUFFICES ASSUME NEW k \in Node, NEW o \in Order, entry'[k][o] # None
               PROVE  /\ NodeOf[entry'[k][o]] = k /\ OrderOf[entry'[k][o]] = o
                      /\ Users(entry[k][o])' # {}
      BY DEF EntriesUsed
  <2>1. k # n /\ entry'[k][o] = entry[k][o] /\ entry[k][o] \in Proc
      BY <1>0, <1>1 DEF TypeOK
  <2>2. /\ NodeOf[entry[k][o]] = k /\ OrderOf[entry[k][o]] = o
        /\ Users(entry[k][o]) # {}
      BY <1>0, <2>1 DEF EntriesUsed
  <2>3. PICK q \in Proc : Uses(q) /\ mine[q] = entry[k][o]
      BY <2>2 DEF Users
  <2>4. q \in Users(entry[k][o])'
      BY <1>1, <1>2, <1>3, <2>1, <2>2, <2>3 DEF Users
  <2> QED
      BY <2>1, <2>2, <2>4
<1>8. OwnerCritical'
  <2>1. \A q \in Proc : Critical(q) => Uses(q)
      BY DEF Critical, Uses
  <2>2. \A k \in Proc : owner'[k] # None => Critical(owner[k])' /\ mine[owner'[k]] = k
    <3> SUFFICES ASSUME NEW k \in Proc, owner'[k] # None
                 PROVE  Critical(owner[k])' /\ mine[owner'[k]] = k
        OBVIOUS
    <3>1. NodeOf[k] # n /\ owner'[k] = owner[k] /\ owner[k] \in Proc
        BY <1>0, <1>1 DEF TypeOK
    <3>2. Critical(owner[k]) /\ mine[owner[k]] = k
        BY <1>0, <3>1 DEF OwnerCritical
    <3>3. NodeOf[owner[k]] # n
        BY <1>3, <2>1, <3>1, <3>2
    <3> QED
        BY <1>2, <3>1, <3>2, <3>3
  <2>3. \A q \in Proc : Critical(q)' => owner'[mine[q]] = q
    <3> SUFFICES ASSUME NEW q \in Proc, Critical(q)' PROVE owner'[mine[q]] = q
        OBVIOUS
    <3>1. Critical(q) /\ NodeOf[q] # n
        BY <1>2
    <3>2. owner[mine[q]] = q /\ mine[q] \in Proc /\ NodeOf[mine[q]] # n
        BY <1>0, <1>3, <2>1, <3>1 DEF OwnerCritical
    <3> QED
        BY <1>1, <3>2
  <2> QED
      BY <1>1, <2>2, <2>3 DEF OwnerCritical
<1>9. LockersOnly'
    BY <1>0, <1>1 DEF LockersOnly, Locks, TypeOK
<1> QED
    BY <1>5, <1>6, <1>7, <1>8, <1>9 DEF LockInv

(* The handlers' steps outside LockOrder and UnlockOrder, and UnlockOrder's *)
(* lookup, which finds the mutex the call already points to.               *)
LEMMA HandlerStep ==
    ASSUME LockInv, TypeOK', NEW p \in Proc,
           \/ InsertOrder(p) \/ GatewayAccepts(p) \/ GatewayRefuses(p) \/ SaveOrder(p)
           \/ Notify(p) \/ AlipayTopUpStatus(p) \/ AdminCompleteTopUp(p)
           \/ GetTopUp(p) \/ AskGateway(p) \/ ReadOrder(p) \/ CommitTopUp(p)
           \/ LoadMutex(p)
    PROVE  LockInv'
<1> DEFINE Moves(l) == at' = [at EXCEPT ![p] = l] /\ UNCHANGED lockVars
<1>0. TypeOK /\ LockersOnly
    BY DEF LockInv
<1>1. p \in Query \/ p \in Buyer => ~Locks(p)
    BY TopUpAssumption DEF Locks, Completer
<1>2. \/ at[p] = "new" /\ ~Locks(p) /\ (Moves("gateway") \/ Moves("get"))
      \/ at[p] = "new" /\ Locks(p) /\ Moves("refer")
      \/ at[p] = "gateway" /\ (Moves("done") \/ Moves("saveQr") \/ Moves("saveFailed"))
      \/ at[p] \in {"saveQr", "saveFailed"} /\ Moves("done")
      \/ at[p] \in {"get", "ask", "read", "commit"} /\ ~Locks(p)
           /\ (Moves("ask") \/ Moves("read") \/ Moves("commit") \/ Moves("done"))
      \/ at[p] \in {"get", "read", "commit"} /\ Locks(p)
           /\ (Moves("read") \/ Moves("commit") \/ Moves("load"))
      \/ at[p] = "load" /\ Locks(p) /\ Moves("release")
  <2> USE DEF Goto, lockVars
  <2>1. CASE InsertOrder(p)
      BY <1>1, <2>1 DEF InsertOrder
  <2>2. CASE GatewayAccepts(p)
      BY <2>2 DEF GatewayAccepts
  <2>3. CASE GatewayRefuses(p)
      BY <2>3 DEF GatewayRefuses
  <2>4. CASE SaveOrder(p)
      BY <2>4 DEF SaveOrder
  <2>5. CASE Notify(p)
      BY <2>5 DEF Notify
  <2>6. CASE AlipayTopUpStatus(p)
      BY <1>1, <2>6 DEF AlipayTopUpStatus
  <2>7. CASE AdminCompleteTopUp(p)
      BY <2>7 DEF AdminCompleteTopUp, Locks
  <2>8. CASE GetTopUp(p)
      BY <1>1, <2>8 DEF GetTopUp, Finish
  <2>9. CASE AskGateway(p)
    <3>1. ~Locks(p) /\ at[p] = "ask"
        BY <1>0, <2>9 DEF AskGateway, LockersOnly
    <3> QED
        BY <2>9, <3>1 DEF AskGateway, Finish
  <2>10. CASE ReadOrder(p)
      BY <2>10 DEF ReadOrder, Finish
  <2>11. CASE CommitTopUp(p)
      BY <2>11 DEF CommitTopUp, Finish
  <2>12. CASE LoadMutex(p)
    <3>1. at[p] = "load" /\ Locks(p) /\ Uses(p)
        BY <1>0, <2>12 DEF LoadMutex, LockersOnly, Uses, Critical
    <3>2. Entry(p) = mine[p] /\ mine[p] # None
        BY <1>0, <3>1, CallsTyped DEF LockInv, PointsToEntry, TypeOK
    <3>3. mine' = [mine EXCEPT ![p] = mine[p]] /\ UNCHANGED <<entry, owner, refCount>>
          /\ at' = [at EXCEPT ![p] = "release"]
        BY <2>12, <3>2 DEF LoadMutex
    <3>4. mine' = mine
        BY <1>0, <3>3 DEF TypeOK
    <3> QED
        BY <3>1, <3>3, <3>4
  <2> QED
      BY <2>1, <2>2, <2>3, <2>4, <2>5, <2>6, <2>7, <2>8, <2>9, <2>10, <2>11, <2>12
<1>3. UNCHANGED lockVars /\ \A q \in Proc : q # p => at'[q] = at[q]
    BY <1>0, <1>2 DEF TypeOK
<1>4. \A q \in Proc : q # p => /\ (Uses(q)' <=> Uses(q)) /\ (Critical(q)' <=> Critical(q))
    BY <1>3 DEF Uses, Critical, Locks
<1>5. /\ Uses(p)' <=> Uses(p)
      /\ Critical(p)' <=> Critical(p)
      /\ at[p] \notin {"new", "refer"} => at'[p] \notin {"new", "refer"}
      /\ at'[p] \in {"refer", "acquire", "load", "release", "unref"} => Locks(p)
      /\ at'[p] = "ask" => ~Locks(p)
    BY <1>0, <1>2 DEF Uses, Critical, Locks, TypeOK
<1>6. LockersOnly'
    BY <1>0, <1>3, <1>5 DEF LockersOnly, Locks
<1> QED
    BY <1>3, <1>4, <1>5, <1>6, QuietStep

LEMMA LockStep == LockInv /\ [Next]_vars => LockInv'
<1> SUFFICES ASSUME LockInv, [Next]_vars PROVE LockInv'
    OBVIOUS
<1>1. TypeOK'
    BY TypeStep DEF LockInv
<1>2. CASE UNCHANGED <<lockVars, at>>
  <2>1. /\ \A q \in Proc : (Uses(q)' <=> Uses(q)) /\ (Critical(q)' <=> Critical(q))
        /\ LockersOnly'
      BY <1>2 DEF Uses, Critical, Locks, LockInv, LockersOnly
  <2> QED
      BY <1>1, <1>2, <2>1, QuietStep
<1>3. CASE UNCHANGED vars
    BY <1>2, <1>3 DEF vars
<1>4. ASSUME NEW p \in Proc, Handle(p) PROVE LockInv'
    BY <1>1, <1>4, HandlerStep, ReferStep, MutexStep, UnrefStep DEF Handle
<1>5. ASSUME NEW o \in Order, UserPays(o) PROVE LockInv'
    BY <1>2, <1>5 DEF UserPays
<1>6. ASSUME NEW n \in Node, Crash(n) PROVE LockInv'
    BY <1>1, <1>6, CrashStep
<1> QED
    BY <1>3, <1>4, <1>5, <1>6 DEF Next

(* The lock invariant holds in every reachable state, whatever the number  *)
(* of orders, calls and nodes, and with crashes.                           *)
THEOREM LockInvariance == Spec => []LockInv
BY LockInit, LockStep, PTL DEF Spec

(* TopUp's type invariant; refCount never goes below zero.                 *)
THEOREM TypeCorrect == Spec => []TypeOK
<1>1. LockInv => TypeOK
    BY DEF LockInv
<1> QED
    BY <1>1, LockInvariance, PTL

(* The mutual exclusion of LockOrder.                                      *)
LEMMA LockExcludes == LockInv => MutualExclusion
<1> SUFFICES ASSUME LockInv, NEW p \in Proc, NEW q \in Proc, Critical(p), Critical(q),
                    NodeOf[p] = NodeOf[q], OrderOf[p] = OrderOf[q]
             PROVE  p = q
    BY DEF MutualExclusion
<1>1. Uses(p) /\ Uses(q)
    BY DEF Uses, Critical
<1>2. mine[p] = mine[q]
    BY <1>1 DEF LockInv, PointsToEntry, Entry
<1> QED
    BY <1>2 DEF LockInv, OwnerCritical

(* LockOrder / UnlockOrder: per node and order, at most one call is        *)
(* between them.                                                           *)
THEOREM Exclusion == Spec => []MutualExclusion
BY LockExcludes, LockInvariance, PTL

(* refCountedMutex: the map holds exactly the mutexes in use.              *)
THEOREM NothingLeft == Spec => []EntryInUse
<1>1. ASSUME LockInv PROVE EntryInUse
  <2> SUFFICES ASSUME NEW n \in Node, NEW o \in Order
               PROVE  entry[n][o] # None <=>
                        \E p \in Proc : Uses(p) /\ NodeOf[p] = n /\ OrderOf[p] = o
      BY DEF EntryInUse
  <2>0. TypeOK /\ PointsToEntry /\ EntriesUsed
      BY <1>1 DEF LockInv
  <2>1. ASSUME NEW p \in Proc, Uses(p) PROVE
          Entry(p) = mine[p] /\ mine[p] \in Proc /\ mine[p] # None
      BY <2>0, <2>1, CallsTyped DEF PointsToEntry, TypeOK
  <2>2. ASSUME entry[n][o] # None
        PROVE  \E p \in Proc : Uses(p) /\ NodeOf[p] = n /\ OrderOf[p] = o
    <3>1. /\ NodeOf[entry[n][o]] = n /\ OrderOf[entry[n][o]] = o
          /\ Users(entry[n][o]) # {}
        BY <2>0, <2>2 DEF EntriesUsed
    <3>2. PICK p \in Proc : Uses(p) /\ mine[p] = entry[n][o]
        BY <3>1 DEF Users
    <3>3. entry[NodeOf[p]][OrderOf[p]] = entry[n][o]
        BY <2>1, <3>2 DEF Entry
    <3>4. NodeOf[p] = n /\ OrderOf[p] = o
        BY <2>0, <2>2, <3>1, <3>3, CallsTyped DEF EntriesUsed
    <3> QED
        BY <3>2, <3>4
  <2> QED
      BY <2>1, <2>2 DEF Entry
<1> QED
    BY <1>1, LockInvariance, PTL

-----------------------------------------------------------------------------
(* The refinement of OrderMutex.                                           *)

(* Where a call that locks stands, as the abstract mutex sees it.          *)
Waiting == {"refer", "acquire"}
Inside == {"get", "read", "commit", "load", "release"}
Gone == {"unref", "done", "lost", "gateway", "saveQr", "saveFailed", "ask"}

(* Its steps: it comes, it takes a mutex that is free, it unlocks, or      *)
(* nothing the abstract mutex can tell.                                    *)
Visible(p, l) ==
    \/ at[p] = "new" /\ l = "refer"
    \/ at[p] \in Waiting /\ l \in Waiting
    \/ at[p] = "acquire" /\ owner[mine[p]] = None /\ l \in Inside
    \/ at[p] \in Inside /\ l \in Inside
    \/ at[p] \in Inside /\ l \in Gone
    \/ at[p] \in Gone /\ l \in Gone

(* Every step of a handler moves that call only, and a call that locks     *)
(* moves in one of these ways.                                             *)
LEMMA HandlerMoves ==
    ASSUME LockInv, NEW p \in Proc, Handle(p)
    PROVE  \E l \in Places : at' = [at EXCEPT ![p] = l] /\ (Locks(p) => Visible(p, l))
<1> DEFINE Moves(l) == at' = [at EXCEPT ![p] = l] /\ (Locks(p) => Visible(p, l))
<1>0. LockersOnly
    BY DEF LockInv
<1>1. p \in Query \/ p \in Buyer => ~Locks(p)
    BY TopUpAssumption DEF Locks, Completer
<1>2. \/ Moves("gateway") \/ Moves("done") \/ Moves("saveQr") \/ Moves("saveFailed")
      \/ Moves("refer") \/ Moves("acquire") \/ Moves("get") \/ Moves("ask") \/ Moves("read")
      \/ Moves("commit") \/ Moves("load") \/ Moves("release") \/ Moves("unref")
  <2> USE DEF Goto, Visible, Waiting, Inside, Gone
  <2>1. CASE InsertOrder(p)
      BY <1>1, <2>1 DEF InsertOrder
  <2>2. CASE GatewayAccepts(p) \/ GatewayRefuses(p) \/ SaveOrder(p)
      BY <2>2 DEF GatewayAccepts, GatewayRefuses, SaveOrder
  <2>3. CASE Notify(p) \/ AdminCompleteTopUp(p)
      BY <2>3 DEF Notify, AdminCompleteTopUp
  <2>4. CASE AlipayTopUpStatus(p)
      BY <1>1, <2>4 DEF AlipayTopUpStatus
  <2>5. CASE GetTopUp(p)
      BY <1>1, <2>5 DEF GetTopUp, Finish
  <2>6. CASE AskGateway(p)
    <3>1. ~Locks(p)
        BY <1>0, <2>6 DEF AskGateway, LockersOnly
    <3> QED
        BY <2>6, <3>1 DEF AskGateway, Finish
  <2>7. CASE ReadOrder(p) \/ CommitTopUp(p)
      BY <2>7 DEF ReadOrder, CommitTopUp, Finish
  <2>8. CASE ReferMutex(p) \/ AcquireMutex(p)
      BY <2>8 DEF ReferMutex, AcquireMutex
  <2>9. CASE LoadMutex(p)
      BY <2>9 DEF LoadMutex
  <2>10. CASE ReleaseMutex(p) \/ UnrefMutex(p)
      BY <2>10 DEF ReleaseMutex, UnrefMutex
  <2> QED
      BY <2>1, <2>2, <2>3, <2>4, <2>5, <2>6, <2>7, <2>8, <2>9, <2>10 DEF Handle
<1> QED
    BY <1>2 DEF Places

(* The mapping, place by place.                                            *)
LEMMA PhaseOf ==
    ASSUME NEW p \in Locker
    PROVE  /\ at[p] = "new" => phaseOf[p] = "idle"
           /\ at[p] \in Waiting => phaseOf[p] = "waiting"
           /\ at[p] \in Inside => phaseOf[p] = "inside"
           /\ at[p] \in Gone => phaseOf[p] = "left"
BY DEF phaseOf, Locker, Critical, Waiting, Inside, Gone

LEMMA PhaseOfNext ==
    ASSUME NEW p \in Locker
    PROVE  /\ at'[p] = "new" => phaseOf'[p] = "idle"
           /\ at'[p] \in Waiting => phaseOf'[p] = "waiting"
           /\ at'[p] \in Inside => phaseOf'[p] = "inside"
           /\ at'[p] \in Gone => phaseOf'[p] = "left"
BY DEF phaseOf, Locker, Locks, Critical, Waiting, Inside, Gone

(* A step of one handler is a step of the abstract mutex or none.          *)
LEMMA HandlerRefines ==
    ASSUME LockInv, TypeOK', NEW p \in Proc, Handle(p)
    PROVE  Mutex!Next \/ UNCHANGED phaseOf
<1>0. TypeOK
    BY DEF LockInv
<1>1. PICK l \in Places : at' = [at EXCEPT ![p] = l] /\ (Locks(p) => Visible(p, l))
    BY HandlerMoves
<1>2. \A q \in Locker : q # p => phaseOf'[q] = phaseOf[q]
    BY <1>0, <1>1 DEF phaseOf, Locker, Locks, Critical, TypeOK
<1>3. /\ phaseOf = [q \in Locker |-> phaseOf[q]]
      /\ phaseOf' = [q \in Locker |-> phaseOf'[q]]
    BY DEF phaseOf, Locker, Locks
<1>4. at'[p] = l
    BY <1>0, <1>1 DEF TypeOK
<1>5. CASE ~Locks(p)
  <2>1. \A q \in Locker : phaseOf'[q] = phaseOf[q]
      BY <1>2, <1>5 DEF Locker
  <2> QED
      BY <1>3, <2>1
<1>6. CASE Locks(p)
  <2>0. p \in Locker
      BY <1>6 DEF Locker
  <2>1. ASSUME phaseOf'[p] = phaseOf[p] PROVE UNCHANGED phaseOf
      BY <1>2, <1>3, <2>1
  <2>2. ASSUME NEW v, phaseOf'[p] = v PROVE phaseOf' = [phaseOf EXCEPT ![p] = v]
      BY <1>2, <1>3, <2>0, <2>2
  <2>3. CASE at[p] = "new" /\ l = "refer"
    <3>1. phaseOf[p] = "idle" /\ phaseOf'[p] = "waiting"
        BY <1>4, <2>0, <2>3, PhaseOf, PhaseOfNext DEF Waiting
    <3>2. Mutex!Ask(p)
        BY <2>2, <3>1 DEF Mutex!Ask
    <3> QED
        BY <2>0, <3>2 DEF Mutex!Next
  <2>4. CASE at[p] \in Waiting /\ l \in Waiting
      BY <1>4, <2>0, <2>1, <2>4, PhaseOf, PhaseOfNext
  <2>5. CASE at[p] = "acquire" /\ owner[mine[p]] = None /\ l \in Inside
    <3>1. phaseOf[p] = "waiting" /\ phaseOf'[p] = "inside"
        BY <1>4, <2>0, <2>5, PhaseOf, PhaseOfNext DEF Waiting
    <3>2. ASSUME NEW q \in Mutex!Rivals(p) PROVE phaseOf[q] # "inside"
      <4>1. q \in Locker /\ NodeOf[q] = NodeOf[p] /\ OrderOf[q] = OrderOf[p]
          BY <3>2 DEF Mutex!Rivals
      <4>2. q \in Proc /\ Locks(q)
          BY <4>1 DEF Locker
      <4>3. SUFFICES ASSUME Critical(q) PROVE FALSE
          BY <4>1 DEF phaseOf
      <4>4. Uses(p) /\ Uses(q)
          BY <1>6, <2>5, <4>2, <4>3 DEF Uses
      <4>5. mine[q] = mine[p]
          BY <4>1, <4>2, <4>4 DEF LockInv, PointsToEntry, Entry
      <4>6. owner[mine[q]] = q /\ q # None
          BY <4>2, <4>3, CallsTyped DEF LockInv, OwnerCritical
      <4> QED
          BY <2>5, <4>5, <4>6
    <3>3. Mutex!Enter(p)
        BY <2>2, <3>1, <3>2 DEF Mutex!Enter
    <3> QED
        BY <2>0, <3>3 DEF Mutex!Next
  <2>6. CASE at[p] \in Inside /\ l \in Inside
      BY <1>4, <2>0, <2>1, <2>6, PhaseOf, PhaseOfNext
  <2>7. CASE at[p] \in Inside /\ l \in Gone
    <3>1. phaseOf[p] = "inside" /\ phaseOf'[p] = "left"
        BY <1>4, <2>0, <2>7, PhaseOf, PhaseOfNext
    <3>2. Mutex!Leave(p)
        BY <2>2, <3>1 DEF Mutex!Leave
    <3> QED
        BY <2>0, <3>2 DEF Mutex!Next
  <2>8. CASE at[p] \in Gone /\ l \in Gone
      BY <1>4, <2>0, <2>1, <2>8, PhaseOf, PhaseOfNext
  <2> QED
      BY <1>1, <1>6, <2>3, <2>4, <2>5, <2>6, <2>7, <2>8 DEF Visible
<1> QED
    BY <1>5, <1>6

(* A crash throws the calls of its node out.                               *)
LEMMA CrashRefines ==
    ASSUME TypeOK, NEW n \in Node, Crash(n)
    PROVE  Mutex!Next
<1>1. \A p \in Locker : at[p] \in {"new"} \cup Waiting \cup Inside \cup Gone
    BY DEF TypeOK, Places, Locker, Waiting, Inside, Gone
<1>2. ASSUME NEW p \in Locker
      PROVE  phaseOf'[p] = IF NodeOf[p] = n /\ phaseOf[p] \in {"waiting", "inside"}
                           THEN "left" ELSE phaseOf[p]
  <2>1. at'[p] = IF UnderWay(p) /\ NodeOf[p] = n THEN "lost" ELSE at[p]
      BY DEF Crash, Locker
  <2> QED
      BY <1>1, <2>1, PhaseOf, PhaseOfNext DEF UnderWay, Waiting, Inside, Gone
<1>3. phaseOf' = [q \in Locker |-> phaseOf'[q]]
    BY DEF phaseOf, Locker, Locks
<1>4. Mutex!NodeDies(n)
    BY <1>2, <1>3 DEF Mutex!NodeDies
<1> QED
    BY <1>4 DEF Mutex!Next

(* LockOrder and UnlockOrder implement a plain mutex per node and order,   *)
(* for any number of calls, orders and nodes, with crashes: the safety     *)
(* part of ImplementsMutex.                                                *)
THEOREM MutexImplemented == Spec => Mutex!Spec
<1>1. Init => Mutex!Init
  <2> SUFFICES ASSUME Init PROVE Mutex!Init
      OBVIOUS
  <2>1. \A p \in Locker : phaseOf[p] = "idle"
      BY PhaseOf DEF Init, Locker
  <2> QED
      BY <2>1 DEF Mutex!Init, phaseOf
<1>2. LockInv /\ TypeOK' /\ [Next]_vars => [Mutex!Next]_phaseOf
  <2> SUFFICES ASSUME LockInv, TypeOK', [Next]_vars PROVE Mutex!Next \/ UNCHANGED phaseOf
      OBVIOUS
  <2>1. CASE UNCHANGED at
      BY <2>1 DEF phaseOf, Locker, Locks, Critical
  <2>2. CASE \E o \in Order : UserPays(o)
      BY <2>1, <2>2 DEF UserPays
  <2>3. CASE \E p \in Proc : Handle(p)
      BY <2>3, HandlerRefines
  <2>4. CASE \E n \in Node : Crash(n)
      BY <2>4, CrashRefines DEF LockInv
  <2>5. CASE UNCHANGED vars
      BY <2>1, <2>5 DEF vars
  <2> QED
      BY <2>2, <2>3, <2>4, <2>5 DEF Next
<1> QED
    BY <1>1, <1>2, LockInvariance, TypeCorrect, PTL DEF Spec, Mutex!Spec

-----------------------------------------------------------------------------
(* Where the calls can be, and the orders' history: an order is credited   *)
(* only once its row has left "pending" for good.                          *)
CreditInv ==
    /\ \A p \in Proc : at[p] \in {"get", "ask", "read", "commit"} => p \in Completer
    /\ \A p \in Proc : at[p] \in {"gateway", "saveFailed"} => p \in Buyer
    /\ \A b \in Buyer : at[b] = "new" => status[OrderOf[b]] = "absent"
    /\ \A b \in Proc : at[b] # "saveQr"
    /\ \A o \in Order : status[o] \in {"absent", "pending"} => credits[o] = 0
    /\ \A p \in Proc : at[p] = "commit" =>
          credits[OrderOf[p]] = 0 /\ status[OrderOf[p]] # "absent"
    /\ CreditedOnce

(* One node, all orders through epay: every completion is under the lock,  *)
(* and the one that commits knows the order was not credited.              *)
LEMMA CreditStep ==
    ASSUME Epay = Order, \A p, q \in Proc : NodeOf[p] = NodeOf[q],
           LockInv, CreditInv, [Next]_vars
    PROVE  CreditInv'
<1> USE CallsTyped
<1>0. TypeOK /\ MutualExclusion /\ LockersOnly
    BY LockExcludes DEF LockInv
<1>1. \A p \in Completer : Locks(p) /\ p \notin Query
    BY TopUpAssumption DEF Completer, Locks, Proc
<1>2. \A p \in Proc : Locks(p) => p \in Completer
    BY DEF Locks, Completer
<1>3. Completer \subseteq Proc /\ Buyer \subseteq Proc /\ Buyer \cap Completer = {}
    BY TopUpAssumption DEF Proc
<1>4. CASE UNCHANGED <<status, credits, at>>
    BY <1>4 DEF CreditInv, CreditedOnce
<1>5. ASSUME NEW p \in Proc, UNCHANGED orderVars,
             \A q \in Proc : q # p => at'[q] = at[q],
             at'[p] \notin {"new", "saveQr"},
             at'[p] \in {"get", "ask", "read", "commit"} => p \in Completer,
             at'[p] \in {"gateway", "saveFailed"} => p \in Buyer,
             at'[p] = "commit" => status[OrderOf[p]] = "pending"
      PROVE  CreditInv'
    BY <1>3, <1>5 DEF CreditInv, CreditedOnce, orderVars
<1>6. ASSUME NEW p \in Proc, Handle(p) PROVE CreditInv'
  <2> USE DEF Goto, SetStatus
  <2>1. CASE InsertOrder(p)
    <3>1. /\ p \in Buyer /\ status[OrderOf[p]] = "absent" /\ credits[OrderOf[p]] = 0
          /\ status' = [status EXCEPT ![OrderOf[p]] = "pending"]
          /\ at' = [at EXCEPT ![p] = "gateway"] /\ credits' = credits
        BY <2>1 DEF InsertOrder, CreditInv
    <3>2. \A b \in Buyer : b # p => OrderOf[b] # OrderOf[p]
        BY <3>1, TopUpAssumption
    <3> QED
        BY <1>0, <1>3, <3>1, <3>2 DEF CreditInv, CreditedOnce, TypeOK
  <2>2. CASE GatewayAccepts(p) \/ GatewayRefuses(p)
    <3>1. at' = [at EXCEPT ![p] = "done"] \/ at' = [at EXCEPT ![p] = "saveFailed"]
        BY <2>2 DEF GatewayAccepts, GatewayRefuses
    <3>2. p \in Buyer /\ UNCHANGED orderVars
        BY <2>2 DEF GatewayAccepts, GatewayRefuses, CreditInv
    <3> QED
        BY <1>0, <1>5, <3>1, <3>2 DEF TypeOK
  <2>3. CASE SaveOrder(p)
    <3>1. /\ at[p] = "saveFailed" /\ at' = [at EXCEPT ![p] = "done"]
          /\ credits' = credits
          /\ status' = status \/ status' = [status EXCEPT ![OrderOf[p]] = "failed"]
        BY <2>3 DEF SaveOrder, CreditInv
    <3>0. p \in Buyer
        BY <3>1 DEF CreditInv
    <3>2. \A q \in Proc : at'[q] = IF q = p THEN "done" ELSE at[q]
        BY <1>0, <3>1 DEF TypeOK
    <3>3. CASE status' = status
        BY <1>0, <1>3, <3>1, <3>2, <3>3 DEF CreditInv, CreditedOnce, TypeOK
    <3>4. CASE status' = [status EXCEPT ![OrderOf[p]] = "failed"]
      <4>1. \A b \in Buyer : at[b] = "new" => OrderOf[b] # OrderOf[p]
          BY <1>3, <3>0, <3>1, TopUpAssumption DEF CreditInv
      <4> QED
          BY <1>0, <1>3, <3>1, <3>2, <3>4, <4>1 DEF CreditInv, CreditedOnce, TypeOK
    <3> QED
        BY <3>1, <3>3, <3>4
  <2>4. CASE Notify(p) \/ AlipayTopUpStatus(p) \/ AdminCompleteTopUp(p)
    <3>1. /\ at' = [at EXCEPT ![p] = "refer"] \/ at' = [at EXCEPT ![p] = "get"]
          /\ p \in Completer /\ UNCHANGED orderVars
        BY <2>4 DEF Notify, AlipayTopUpStatus, AdminCompleteTopUp, Completer
    <3> QED
        BY <1>0, <1>5, <3>1 DEF TypeOK
  <2>5. CASE GetTopUp(p) \/ AskGateway(p) \/ ReadOrder(p)
    <3>1. /\ at[p] \in {"get", "ask", "read"} /\ UNCHANGED orderVars
          /\ \/ at' = [at EXCEPT ![p] = "ask"]
             \/ at' = [at EXCEPT ![p] = "read"]
             \/ at' = [at EXCEPT ![p] = "commit"] /\ status[OrderOf[p]] = "pending"
             \/ at' = [at EXCEPT ![p] = "load"]
             \/ at' = [at EXCEPT ![p] = "done"]
        BY <2>5 DEF GetTopUp, AskGateway, ReadOrder, Finish
    <3>2. p \in Completer
        BY <3>1 DEF CreditInv
    <3> QED
        BY <1>0, <1>5, <3>1, <3>2 DEF TypeOK
  <2>6. CASE CommitTopUp(p)
    <3>1. /\ at[p] = "commit" /\ p \in Completer /\ Locks(p)
          /\ credits[OrderOf[p]] = 0 /\ status[OrderOf[p]] # "absent"
        BY <1>1, <2>6 DEF CommitTopUp, CreditInv
    <3>2. at' = [at EXCEPT ![p] = "load"]
        BY <2>6, <3>1 DEF CommitTopUp, Finish
    <3>3. \A q \in Proc : q # p /\ OrderOf[q] = OrderOf[p] => at[q] # "commit"
        BY <1>0, <1>1, <3>1 DEF MutualExclusion, Critical, CreditInv
    <3>4. CASE UNCHANGED orderVars
        BY <1>0, <1>5, <3>2, <3>4 DEF TypeOK
    <3>5. CASE /\ status' = [status EXCEPT ![OrderOf[p]] = "success"]
               /\ credits' = [credits EXCEPT ![OrderOf[p]] = @ + 1]
      <4>1. credits'[OrderOf[p]] = 1 /\ status'[OrderOf[p]] = "success"
          BY <1>0, <3>1, <3>5 DEF TypeOK
      <4>2. \A o \in Order : o # OrderOf[p] =>
                credits'[o] = credits[o] /\ status'[o] = status[o]
          BY <1>0, <3>5 DEF TypeOK
      <4>3. \A q \in Proc : at'[q] = IF q = p THEN "load" ELSE at[q]
          BY <1>0, <3>2 DEF TypeOK
      <4>4. CreditedOnce'
          BY <4>1, <4>2 DEF CreditedOnce, CreditInv
      <4>5. \A o \in Order : status'[o] \in {"absent", "pending"} => credits'[o] = 0
          BY <4>1, <4>2 DEF CreditInv
      <4>6. \A q \in Proc : at'[q] = "commit" =>
                credits'[OrderOf[q]] = 0 /\ status'[OrderOf[q]] # "absent"
          BY <3>3, <4>2, <4>3 DEF CreditInv
      <4>7. \A b \in Buyer : at'[b] = "new" => status'[OrderOf[b]] = "absent"
          BY <1>3, <3>1, <4>2, <4>3 DEF CreditInv
      <4> QED
          BY <4>3, <4>4, <4>5, <4>6, <4>7 DEF CreditInv
    <3> QED
        BY <2>6, <3>4, <3>5 DEF CommitTopUp
  <2>7. CASE ReferMutex(p) \/ AcquireMutex(p) \/ LoadMutex(p) \/ ReleaseMutex(p)
              \/ UnrefMutex(p)
    <3>1. /\ at[p] \in {"refer", "acquire", "load", "release", "unref"}
          /\ UNCHANGED orderVars
          /\ \E l \in {"acquire", "read", "get", "release", "unref", "done"} :
                at' = [at EXCEPT ![p] = l]
        BY <2>7 DEF ReferMutex, AcquireMutex, LoadMutex, ReleaseMutex, UnrefMutex
    <3>2. p \in Completer
        BY <1>0, <1>2, <3>1 DEF LockersOnly
    <3> QED
        BY <1>0, <1>5, <3>1, <3>2 DEF TypeOK
  <2> QED
      BY <1>6, <2>1, <2>2, <2>3, <2>4, <2>5, <2>6, <2>7 DEF Handle
<1>7. ASSUME NEW n \in Node, Crash(n) PROVE CreditInv'
  <2>1. \A q \in Proc : at'[q] = at[q] \/ at'[q] = "lost"
      BY <1>7 DEF Crash
  <2> QED
      BY <1>3, <1>7, <2>1 DEF Crash, orderVars, CreditInv, CreditedOnce
<1>8. ASSUME NEW o \in Order, UserPays(o) PROVE CreditInv'
    BY <1>4, <1>8 DEF UserPays, orderVars
<1>9. CASE UNCHANGED vars
    BY <1>4, <1>9 DEF vars, orderVars
<1> QED
    BY <1>6, <1>7, <1>8, <1>9 DEF Next

(* CompleteTopUp under LockOrder: on a single node, an order paid through  *)
(* epay is credited at most once, however many notifications and           *)
(* administrators complete it and whatever fails or crashes in between.    *)
(* For Alipay it is not: run TopUp_alipay.                                 *)
THEOREM SingleCredit ==
    ASSUME Epay = Order, \A p, q \in Proc : NodeOf[p] = NodeOf[q]
    PROVE  Spec => []CreditedOnce
<1>1. Init => CreditInv
    BY CallsTyped DEF Init, CreditInv, CreditedOnce, Proc
<1>2. LockInv /\ CreditInv /\ [Next]_vars => CreditInv'
    BY CreditStep
<1>3. CreditInv => CreditedOnce
    BY DEF CreditInv
<1> QED
    BY <1>1, <1>2, <1>3, LockInvariance, PTL DEF Spec
=============================================================================
