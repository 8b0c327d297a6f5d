----------------------------- MODULE UserQuota -----------------------------
(***************************************************************************)
(* How the quota of one user is kept: the users row in the database, the   *)
(* Redis hash user:<id> shared by all nodes, and on each node a batch      *)
(* store of deltas that a background loop flushes to the database.         *)
(*                                                                         *)
(* A quota value is represented by the adjustments it contains: a function *)
(* from adjustments to how often each is counted.  The number the program  *)
(* stores is the initial quota plus the sum of the counted deltas, so two  *)
(* values are equal for every choice of deltas exactly when they count the *)
(* same adjustments equally often.                                         *)
(*                                                                         *)
(* Everything done to Redis by one Lua script or command, to the database  *)
(* by one statement, and to the batch store under its mutex is one step.   *)
(***************************************************************************)
EXTENDS Integers

CONSTANTS
    Node,      \* processes of the gateway; each has its own batch store
    Op,        \* adjustments of the quota, each carried out once
    Kind,      \* Kind[o]: which function carries o out, see OpKind
    Reader,    \* goroutines that call GetUserQuota, again and again
    Editor,    \* goroutines that edit the account without touching quota
    Saver,     \* goroutines that save the whole row (User.Update)
    NodeOf,    \* the node each of these runs on
    Workload,  \* which of them are there together: one of these sets
    MayFail,   \* TRUE: Redis calls and database statements may fail
    MayCrash   \* TRUE: nodes may die and restart

(* "batch": Increase/DecreaseUserQuota with batch updates on.              *)
(* "direct": the same with batch updates off, or with db = true.           *)
(* "topup": CompleteTopUp, ManualCompleteTopUp: database, then cache.      *)
(* "transfer": TransferAffQuotaToQuota: read the row, add, save the row.   *)
OpKind == {"batch", "direct", "topup", "transfer"}

Proc == Op \cup Reader \cup Editor \cup Saver

ASSUME UserQuotaAssumption ==
    /\ Kind \in [Op -> OpKind]
    /\ NodeOf \in [Proc -> Node]
    /\ Workload \subseteq SUBSET Proc
    /\ Op \cap (Reader \cup Editor \cup Saver) = {}
    /\ Reader \cap (Editor \cup Saver) = {}
    /\ Editor \cap Saver = {}
    /\ MayFail \in BOOLEAN
    /\ MayCrash \in BOOLEAN

Value == [Op -> Nat]
Nothing == [o \in Op |-> 0]

VARIABLES
    db,        \* users.quota
    pending,   \* deltas in the batch stores (those of node n: OnNode(pending, n))
    flight,    \* deltas swapped out of a store and not yet executed
    hash,      \* the Redis hash: "none", "partial" (no Id field), "complete"
    cached,    \* its Quota field, meaningful when complete
    pc,        \* where each goroutine stands
    snap,      \* the row or the quota it has read
    applied,   \* history: adjustments recorded in a store or in the database
    lost       \* history: applied adjustments that are in no store any more

vars == <<db, pending, flight, hash, cached, pc, snap, applied, lost>>
storeVars == <<db, pending, flight, applied, lost>>
redisVars == <<hash, cached>>

Init ==
    /\ db = Nothing
    /\ pending = {} /\ flight = {}
    /\ hash = "none" /\ cached = Nothing
    /\ \E W \in Workload : pc = [p \in Proc |-> IF p \in W THEN "idle" ELSE "done"]
    /\ snap = [p \in Proc |-> Nothing]
    /\ applied = {} /\ lost = {}

OnNode(S, n) == {o \in S : NodeOf[o] = n}
Goto(p, l) == pc' = [pc EXCEPT ![p] = l]
Plus(v, S) == [o \in Op |-> IF o \in S THEN v[o] + 1 ELSE v[o]]

(* Where the cache part of an adjustment leads: a top-up has already       *)
(* written the database, the others do so now.                             *)
AfterCache(p) == IF Kind[p] = "topup" THEN "done" ELSE "record"

-----------------------------------------------------------------------------
(* cacheIncrUserQuota and GetUserCache.                                    *)

Start(p) ==
    /\ pc[p] = "idle"
    /\ \/ p \in Op /\ Kind[p] = "topup" /\ Goto(p, "commit")
       \/ p \in Op /\ Kind[p] = "transfer" /\ Goto(p, "row")
       \/ p \in Op /\ Kind[p] \in {"batch", "direct"} /\ Goto(p, "incr")
       \/ p \in Reader /\ Goto(p, "get")
       \/ p \in Editor /\ Goto(p, "reload")
       \/ p \in Saver /\ Goto(p, "row")
    /\ UNCHANGED <<storeVars, redisVars, snap>>

(* Variant: an increment whose reply is lost is tried again.               *)
IncrCache_Retried(p) ==
    /\ pc[p] \in {"incr", "incr2"}
    /\ \/ /\ hash = "complete"
          /\ cached' = Plus(cached, {p})
          /\ Goto(p, AfterCache(p)) \/ (MayFail /\ pc[p] = "incr" /\ Goto(p, "get"))
       \/ /\ hash # "complete"
          /\ Goto(p, IF pc[p] = "incr" THEN "get" ELSE AfterCache(p))
          /\ UNCHANGED cached
    /\ UNCHANGED <<storeVars, hash, snap>>

(* RedisHIncrByIfComplete: first try, and second try after the rebuild.    *)
IncrCache(p) ==
    /\ pc[p] \in {"incr", "incr2"}
    /\ \/ /\ hash = "complete"
          /\ cached' = Plus(cached, {p})
          /\ Goto(p, AfterCache(p))
       \/ /\ hash # "complete" /\ pc[p] = "incr"
          /\ Goto(p, "get")
          /\ UNCHANGED cached
       \/ /\ (hash # "complete" /\ pc[p] = "incr2") \/ MayFail
          /\ Goto(p, AfterCache(p))
          /\ UNCHANGED cached
    /\ UNCHANGED <<storeVars, hash, snap>>

(* cacheGetUserBase; a hash without Id is deleted and read as a miss.      *)
GetCache(p) ==
    /\ pc[p] = "get"
    /\ \/ /\ hash = "complete"
          /\ Goto(p, IF p \in Op THEN "incr2" ELSE "idle")
          /\ UNCHANGED hash
       \/ /\ hash # "complete" \/ MayFail
          /\ \/ hash' = IF hash = "partial" THEN "none" ELSE hash
             \/ MayFail /\ UNCHANGED hash
          /\ Goto(p, "load")
    /\ UNCHANGED <<storeVars, cached, snap>>

(* GetUserById.                                                            *)
LoadRow(p) ==
    /\ pc[p] = "load"
    /\ snap' = [snap EXCEPT ![p] = db]
    /\ Goto(p, "fold")
    /\ UNCHANGED <<storeVars, redisVars>>

(* pendingBatchDelta of this node's store.                                 *)
FoldPending(p) ==
    /\ pc[p] = "fold"
    /\ snap' = [snap EXCEPT ![p] = Plus(@, OnNode(pending, NodeOf[p]))]
    /\ Goto(p, "fill")
    /\ UNCHANGED <<storeVars, redisVars>>

(* updateUserCache: the script keeps the Quota of a complete hash.         *)
FillCache(p) ==
    /\ pc[p] = "fill"
    /\ \/ hash' = "complete" /\ cached' = IF hash = "complete" THEN cached ELSE snap[p]
       \/ MayFail /\ UNCHANGED redisVars
    /\ snap' = [snap EXCEPT ![p] = Nothing]
    /\ Goto(p, IF p \in Op THEN "incr2" ELSE "idle")
    /\ UNCHANGED storeVars

(* GetUserById fails: an adjustment gives up on the cache; GetUserQuota    *)
(* answers from the database and sets the Quota field if absent, which     *)
(* leaves a hash without Id when there was none.                           *)
LoadFails(p) ==
    /\ MayFail
    /\ pc[p] = "load"
    /\ hash' = IF p \in Reader /\ hash = "none" THEN "partial" ELSE hash
    /\ Goto(p, IF p \in Op THEN AfterCache(p) ELSE "idle")
    /\ UNCHANGED <<storeVars, cached, snap>>

(* The end of User.Edit, ClearBinding and User.Update: the row is read     *)
(* again, without the pending deltas, and the cache refreshed from it.     *)
ReloadRow(p) ==
    /\ pc[p] = "reload"
    /\ snap' = [snap EXCEPT ![p] = db]
    /\ Goto(p, "fill")
    /\ UNCHANGED <<storeVars, redisVars>>

(* Variant: the key is stored without a TTL.                               *)
ExpireCache_Never ==
    /\ FALSE
    /\ UNCHANGED vars

(* The key's TTL runs out, or User.Delete and its like drop it.            *)
ExpireCache ==
    /\ hash = "complete"
    /\ hash' = "none"
    /\ cached' = Nothing
    /\ UNCHANGED <<storeVars, pc, snap>>

-----------------------------------------------------------------------------
(* The database side of an adjustment.                                     *)

(* addNewRecord, or the UPDATE quota = quota + n of a direct adjustment,   *)
(* whose error goes back to the caller after the cache was changed.        *)
Record(p) ==
    /\ pc[p] = "record"
    /\ \/ /\ Kind[p] = "batch"
          /\ pending' = pending \cup {p}
          /\ applied' = applied \cup {p}
          /\ UNCHANGED db
       \/ /\ Kind[p] = "direct"
          /\ db' = Plus(db, {p})
          /\ applied' = applied \cup {p}
          /\ UNCHANGED pending
       \/ /\ Kind[p] = "direct" /\ MayFail
          /\ UNCHANGED <<db, pending, applied>>
    /\ Goto(p, "done")
    /\ UNCHANGED <<flight, lost, redisVars, snap>>

(* The transaction of a top-up; syncUserQuotaCacheIncr follows it.         *)
CommitTopUp(p) ==
    /\ pc[p] = "commit"
    /\ \/ /\ db' = Plus(db, {p})
          /\ applied' = applied \cup {p}
          /\ Goto(p, "incr")
       \/ /\ MayFail
          /\ Goto(p, "done")
          /\ UNCHANGED <<db, applied>>
    /\ UNCHANGED <<pending, flight, lost, redisVars, snap>>

(* Reading the row that will be saved as a whole.  The lock the transfer   *)
(* asks for ("gorm:query_option") is one GORM v2 does not know.            *)
ReadRow(p) ==
    /\ pc[p] = "row"
    /\ snap' = [snap EXCEPT ![p] = db]
    /\ Goto(p, "save")
    /\ UNCHANGED <<storeVars, redisVars>>

(* Save / Updates with the row as it was read, the transfer's own amount   *)
(* added.  A transfer does not touch the cache.                            *)
SaveRow(p) ==
    /\ pc[p] = "save"
    /\ db' = IF p \in Op THEN Plus(snap[p], {p}) ELSE snap[p]
    /\ applied' = IF p \in Op THEN applied \cup {p} ELSE applied
    /\ lost' = {o \in applied' : db'[o] = 0 /\ o \notin pending \cup flight}
    /\ snap' = [snap EXCEPT ![p] = Nothing]
    /\ Goto(p, IF p \in Op THEN "done" ELSE "reload")
    /\ UNCHANGED <<pending, flight, redisVars>>

-----------------------------------------------------------------------------
(* batchUpdate, one loop per node.                                         *)

(* Variant: the store is not replaced by an empty one.                     *)
BatchSwap_KeepsStore(n) ==
    /\ OnNode(flight, n) = {} /\ OnNode(pending, n) # {}
    /\ flight' = flight \cup OnNode(pending, n)
    /\ UNCHANGED <<db, pending, applied, lost, redisVars, pc, snap>>

BatchSwap(n) ==
    /\ OnNode(flight, n) = {} /\ OnNode(pending, n) # {}
    /\ flight' = flight \cup OnNode(pending, n)
    /\ pending' = pending \ OnNode(pending, n)
    /\ UNCHANGED <<db, applied, lost, redisVars, pc, snap>>

(* Variant: the sign of the deltas is lost.                                *)
BatchExec_Negated(n) ==
    /\ OnNode(flight, n) # {}
    /\ flight' = flight \ OnNode(flight, n)
    /\ db' = [o \in Op |-> IF o \in OnNode(flight, n) THEN db[o] - 1 ELSE db[o]]
    /\ UNCHANGED <<pending, applied, lost, redisVars, pc, snap>>

(* DB.Exec; an error is logged and the swapped deltas are gone.            *)
BatchExec(n) ==
    /\ OnNode(flight, n) # {}
    /\ flight' = flight \ OnNode(flight, n)
    /\ \/ db' = Plus(db, OnNode(flight, n)) /\ UNCHANGED lost
       \/ MayFail /\ lost' = lost \cup OnNode(flight, n) /\ UNCHANGED db
    /\ UNCHANGED <<pending, applied, redisVars, pc, snap>>

(* A node dies.  Its goroutines and its batch store are gone; a statement  *)
(* in flight may or may not have reached the database (BatchExec before    *)
(* or not).  Adjustments under way are never finished.                     *)
Crash(n) ==
    /\ MayCrash
    /\ lost' = lost \cup OnNode(pending \cup flight, n)
    /\ pending' = pending \ OnNode(pending, n)
    /\ flight' = flight \ OnNode(flight, n)
    /\ pc' = [p \in Proc |->
                IF NodeOf[p] # n \/ pc[p] \in {"idle", "done"} THEN pc[p]
                ELSE IF p \in Op THEN "done" ELSE "idle"]
    /\ UNCHANGED <<db, applied, redisVars, snap>>

-----------------------------------------------------------------------------

ProcStep(p) ==
    \/ IncrCache(p) \/ GetCache(p) \/ LoadRow(p) \/ FoldPending(p) \/ FillCache(p)
    \/ LoadFails(p) \/ ReloadRow(p) \/ Record(p) \/ CommitTopUp(p)
    \/ ReadRow(p) \/ SaveRow(p)

Next ==
    \/ \E p \in Proc : Start(p) \/ ProcStep(p)
    \/ ExpireCache
    \/ \E n \in Node : BatchSwap(n) \/ BatchExec(n) \/ Crash(n)

Spec == Init /\ [][Next]_vars

(* Goroutines run, the batch loop ticks, and the TTL of the hash runs out: *)
(* HINCRBY does not prolong it.  Nobody has to start anything.             *)
FairSpec ==
    /\ Spec
    /\ \A p \in Proc : WF_vars(ProcStep(p))
    /\ \A n \in Node : WF_vars(BatchSwap(n)) /\ WF_vars(BatchExec(n))
    /\ WF_vars(ExpireCache)

-----------------------------------------------------------------------------
(* Properties.                                                             *)

(* Every variable has its type.                                            *)
TypeOK ==
    /\ db \in Value
    /\ pending \subseteq Op /\ flight \subseteq Op
    /\ hash \in {"none", "partial", "complete"}
    /\ cached \in Value
    /\ pc \in [Proc -> {"idle", "incr", "get", "load", "fold", "fill", "incr2", "record",
                        "commit", "row", "save", "reload", "done"}]
    /\ snap \in [Proc -> Value]
    /\ applied \subseteq Op /\ lost \subseteq Op

(* An adjustment that was recorded is in exactly one place: counted once   *)
(* in the database, waiting in a batch store, swapped out for execution,   *)
(* or lost; one that was not recorded is nowhere.  No flush, crash,        *)
(* failure or row save counts an adjustment twice.                         *)
AppliedOnce ==
    \A o \in Op :
        \/ o \notin applied /\ db[o] = 0 /\ o \notin pending \cup flight \cup lost
        \/ o \in applied /\ db[o] = 1 /\ o \notin pending \cup flight \cup lost
        \/ o \in applied /\ db[o] = 0 /\ o \in pending /\ o \notin flight \cup lost
        \/ o \in applied /\ db[o] = 0 /\ o \in flight /\ o \notin pending \cup lost
        \/ o \in applied /\ db[o] = 0 /\ o \in lost /\ o \notin pending \cup flight

(* The cached quota never counts a charge or credit twice: not when two    *)
(* goroutines rebuild the hash at once, not when the rebuild folds in      *)
(* deltas another goroutine is flushing.  Top-ups are excepted: they write *)
(* the database before the cache, and a rebuild in between counts them     *)
(* until the TTL runs out.                                                 *)
CacheCountsOnce ==
    hash = "complete" => \A o \in Op : Kind[o] # "topup" => cached[o] <= 1

(* GetUserCache folds unflushed deltas into a rebuilt hash "so a cache     *)
(* miss does not resurrect a stale DB snapshot (or drop an in-flight pre-  *)
(* consume)": a complete hash counts every recorded adjustment.            *)
RebuildDropsNothing ==
    hash = "complete" => \A o \in applied : cached[o] >= 1

(* However stale the hash becomes, the TTL heals it: from some time on a   *)
(* complete hash agrees with the database.                                 *)
CacheConverges == <>[](hash = "complete" => cached = db)
=============================================================================
