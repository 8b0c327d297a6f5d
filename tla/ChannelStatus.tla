--------------------------- MODULE ChannelStatus ---------------------------
(***************************************************************************)
(* Whether an upstream channel is in use.  Its status lives in three       *)
(* places: the row of the channels table, the `enabled' column of its      *)
(* abilities, and the memory cache of the node (channelsIDM, and           *)
(* group2model2channels for routing).  UpdateChannelStatus moves all       *)
(* three when a relayed request fails or a test passes; administrators     *)
(* write the tables themselves; InitChannelCache copies the tables into    *)
(* the cache, from a ticker and after every administrative change.         *)
(*                                                                         *)
(* A mutex per channel (GetChannelPollingLock) is held by                  *)
(* UpdateChannelStatus and ManageMultiKeys and taken by every request that *)
(* picks a key of a multi-key channel.  One node, and the table rows as    *)
(* far as they concern the status; each statement of the database and each *)
(* critical section of channelSyncLock is one step.                        *)
(***************************************************************************)
EXTENDS Integers, FiniteSets

CONSTANTS
    Channel,
    Key,           \* the keys of a multi-key channel
    Failure,       \* goroutines of processChannelError: DisableChannel
    Tester,        \* turns of the loop of testAllChannels
    Manager,       \* administrators that disable or enable a key
    Tagger,        \* administrators that disable or enable a tag
    Tagged,        \* the channels with that tag
    Editor,        \* administrators that edit a channel's status
    Request,       \* relayed requests that pick a channel and a key
    Ticker,        \* SyncChannelCache
    Flaky,         \* the processes whose database statements may fail
    Site           \* the deployments looked at, one of which is picked

Admin == Manager \cup Tagger \cup Editor
Proc == Failure \cup Tester \cup Admin \cup Request \cup Ticker
Nobody == "nobody"

ASSUME ChannelStatusAssumption ==
    /\ Tagged \subseteq Channel
    /\ IsFiniteSet(Key) /\ Key # {} /\ Channel # {}
    /\ Flaky \subseteq Proc
    /\ \A s \in Site : /\ s.procs \subseteq Proc
                      /\ s.memory \in BOOLEAN
                      /\ s.multi \subseteq Channel /\ s.polling \subseteq s.multi
    /\ Nobody \notin Proc
    /\ (Failure \cup Tester) \cap (Admin \cup Request \cup Ticker) = {}
    /\ Failure \cap Tester = {}
    /\ Admin \cap (Request \cup Ticker) = {} /\ Request \cap Ticker = {}
    /\ Manager \cap (Tagger \cup Editor) = {} /\ Tagger \cap Editor = {}

Status == {"enabled", "manual", "auto"}

(* A row, and the cached object built from it: the channel's status and    *)
(* the keys in MultiKeyStatusList.                                         *)
Row == [status : Status, bad : SUBSET Key]
Gone == [status |-> "gone", bad |-> {}]
NewRow == [status |-> "enabled", bad |-> {}]

VARIABLES
    site,       \* the deployment: its configuration and the processes there
    row,        \* the channels table
    ability,    \* abilities.enabled
    cache,      \* channelsIDM; Gone: no entry
    routable,   \* the channels in group2model2channels
    lock,       \* owner of each channelPollingLocks mutex
    at,         \* what each process does next
    ch, key,    \* the channel and the key it works on
    want,       \* the status it is to set
    read,       \* the row it has read
    alter,      \* shouldUpdateAbilities
    snap        \* what InitChannelCache has read

dbVars == <<row, ability>>
cacheVars == <<cache, routable>>
jobVars == <<ch, key, want, read, alter, snap>>
vars == <<site, dbVars, cacheVars, lock, at, jobVars>>

MemoryCache == site.memory  \* common.MemoryCacheEnabled, on by default
MultiKey == site.multi      \* channels with several keys (ChannelInfo.IsMultiKey)
Polling == site.polling     \* those of them whose keys are used in turn
KeysOf(c) == IF c \in MultiKey THEN Key ELSE {CHOOSE k \in Key : TRUE}

Places == {"absent", "new", "tested", "lock", "check", "mark", "load", "relock", "save",
           "ability", "edit", "reread", "find", "swap", "key", "done"}

(* Every variable has its type; no row ever holds a status that is none.   *)
TypeOK ==
    /\ site \in Site
    /\ row \in [Channel -> Row]
    /\ ability \in [Channel -> BOOLEAN]
    /\ cache \in [Channel -> Row \cup {Gone}]
    /\ routable \subseteq Channel
    /\ lock \in [Channel -> Proc \cup {Nobody}]
    /\ at \in [Proc -> Places]
    /\ ch \in [Proc -> Channel]
    /\ key \in [Proc -> Key]
    /\ want \in [Proc -> Status]
    /\ read \in [Proc -> Row]
    /\ alter \in [Proc -> BOOLEAN]
    /\ snap \in [Proc -> [Channel -> Row \cup {Gone}]]

Init ==
    /\ site \in Site
    /\ row = [c \in Channel |-> NewRow]
    /\ ability = [c \in Channel |-> TRUE]
    /\ cache = row
    /\ routable = Channel
    /\ lock = [c \in Channel |-> Nobody]
    /\ at = [p \in Proc |-> IF p \in site.procs THEN "new" ELSE "absent"]
    /\ ch = [p \in Proc |-> CHOOSE c \in Channel : TRUE]
    /\ key = [p \in Proc |-> CHOOSE k \in Key : TRUE]
    /\ want = [p \in Proc |-> "enabled"]
    /\ read = [p \in Proc |-> NewRow]
    /\ alter = [p \in Proc |-> FALSE]
    /\ snap = [p \in Proc |-> row]

Goto(p, l) == at' = [at EXCEPT ![p] = l]
SetWant(p, s) == want' = [want EXCEPT ![p] = s]
SetRead(p, r) == read' = [read EXCEPT ![p] = r]
IsMulti(p) == ch[p] \in MultiKey
Enabled(rows) == {c \in Channel : rows[c].status = "enabled"}

Acquire(p) == lock[ch[p]] = Nobody /\ lock' = [lock EXCEPT ![ch[p]] = p]
Release(p) == lock' = [c \in Channel |-> IF lock[c] = p THEN Nobody ELSE lock[c]]

(* The end of a handler: its deferred Unlock.                              *)
Return(p) == Goto(p, "done") /\ Release(p)

-----------------------------------------------------------------------------
(* Who wants a channel's status changed.                                   *)

(* processChannelError: the request that failed on c with key k may have   *)
(* been under way for long.                                                *)
RequestFailed(p, c, k) ==
    /\ p \in Failure /\ at[p] = "new"
    /\ ch' = [ch EXCEPT ![p] = c]
    /\ key' = [key EXCEPT ![p] = k]
    /\ SetWant(p, "auto")
    /\ Goto(p, IF MemoryCache THEN "lock" ELSE "load")
    /\ UNCHANGED <<dbVars, cacheVars, lock, read, alter, snap>>

(* testAllChannels: all rows are read before the first test.               *)
ListChannel(p, c) ==
    /\ p \in Tester /\ at[p] = "new"
    /\ ch' = [ch EXCEPT ![p] = c]
    /\ SetRead(p, row[c])
    /\ Goto(p, IF row[c].status = "manual" THEN "done" ELSE "tested")
    /\ UNCHANGED <<dbVars, cacheVars, lock, key, want, alter, snap>>

(* The test's outcome, judged against the status that was read.            *)
TestChannel(p) ==
    /\ at[p] = "tested"
    /\ \/ /\ read[p].status = "enabled"
          /\ SetWant(p, "auto")
          /\ Goto(p, IF MemoryCache THEN "lock" ELSE "load")
       \/ /\ read[p].status = "auto"
          /\ SetWant(p, "enabled")
          /\ Goto(p, IF MemoryCache THEN "lock" ELSE "load")
       \/ Goto(p, "done") /\ UNCHANGED want
    /\ \E k \in KeysOf(ch[p]) : key' = [key EXCEPT ![p] = k]
    /\ UNCHANGED <<dbVars, cacheVars, lock, ch, read, alter, snap>>

-----------------------------------------------------------------------------
(* UpdateChannelStatus.                                                    *)

LockChannel(p) ==
    /\ p \in Failure \cup Tester /\ at[p] = "lock"
    /\ Acquire(p)
    /\ Goto(p, "check")
    /\ UNCHANGED <<dbVars, cacheVars, jobVars>>

(* handlerMultiKeyUpdate: only the key is disabled, until no key is left.  *)
(* Enabling a key leaves the channel's status alone.                       *)
KeyUpdated(r, k, s) ==
    LET bad == IF s = "enabled" THEN r.bad \ {k} ELSE r.bad \cup {k} IN
    [status |-> IF Cardinality(bad) >= Cardinality(Key) THEN "auto" ELSE r.status,
     bad |-> bad]

(* Same as CheckCache, with a plain `return' before the deferred Unlock is *)
(* registered.                                                             *)
CheckCache_KeepsLock(p) ==
    LET c == ch[p] IN
    /\ at[p] = "check"
    /\ \/ /\ cache[c] = Gone
          /\ Goto(p, "done") /\ UNCHANGED <<cache, lock>>
       \/ /\ cache[c] # Gone /\ IsMulti(p)
          /\ cache' = [cache EXCEPT ![c] = KeyUpdated(@, key[p], want[p])]
          /\ Goto(p, "load")
          /\ UNCHANGED lock
       \/ /\ cache[c] # Gone /\ ~IsMulti(p)
          /\ Goto(p, IF cache[c].status = want[p] THEN "done" ELSE "mark")
          /\ UNCHANGED <<cache, lock>>
    /\ UNCHANGED <<dbVars, routable, jobVars>>

CheckCache(p) ==
    LET c == ch[p] IN
    /\ at[p] = "check"
    /\ \/ /\ cache[c] = Gone
          /\ Return(p) /\ UNCHANGED cache
       \/ /\ cache[c] # Gone /\ IsMulti(p)
          /\ cache' = [cache EXCEPT ![c] = KeyUpdated(@, key[p], want[p])]
          /\ Goto(p, "load")
          /\ UNCHANGED lock
       \/ /\ cache[c] # Gone /\ ~IsMulti(p) /\ cache[c].status = want[p]
          /\ Return(p) /\ UNCHANGED cache
       \/ /\ cache[c] # Gone /\ ~IsMulti(p) /\ cache[c].status # want[p]
          /\ Goto(p, "mark")
          /\ UNCHANGED <<cache, lock>>
    /\ UNCHANGED <<dbVars, routable, jobVars>>

(* Same as MarkCache, but routing is left to the next InitChannelCache.    *)
MarkCache_LeavesRoute(p) ==
    LET c == ch[p] IN
    /\ at[p] = "mark"
    /\ cache' = IF cache[c] = Gone THEN cache
                ELSE [cache EXCEPT ![c].status = want[p]]
    /\ Goto(p, "load")
    /\ UNCHANGED <<dbVars, routable, lock, jobVars>>

(* CacheUpdateChannelStatus, on whatever object the cache holds by now.    *)
(* An enabled channel is not routed to before the next InitChannelCache.   *)
MarkCache(p) ==
    LET c == ch[p] IN
    /\ at[p] = "mark"
    /\ cache' = IF cache[c] = Gone THEN cache
                ELSE [cache EXCEPT ![c].status = want[p]]
    /\ routable' = IF want[p] = "enabled" THEN routable ELSE routable \ {c}
    /\ Goto(p, "load")
    /\ UNCHANGED <<dbVars, lock, jobVars>>

(* GetChannelById.                                                         *)
LoadRow(p) ==
    LET r == row[ch[p]] IN
    /\ p \in Failure \cup Tester /\ at[p] = "load"
    /\ \/ /\ p \in Flaky \/ r.status = want[p]
          /\ Return(p)
          /\ UNCHANGED <<read, alter>>
       \/ /\ r.status # want[p] /\ IsMulti(p)
          /\ SetRead(p, r)
          /\ Goto(p, "relock")
          /\ UNCHANGED <<lock, alter>>
       \/ /\ r.status # want[p] /\ ~IsMulti(p)
          /\ SetRead(p, [r EXCEPT !.status = want[p]])
          /\ alter' = [alter EXCEPT ![p] = TRUE]
          /\ Goto(p, "save")
          /\ UNCHANGED lock
    /\ UNCHANGED <<dbVars, cacheVars, ch, key, want, snap>>

(* The second pollingLock.Lock() of UpdateChannelStatus.  The mutex is not *)
(* reentrant: its owner waits like everyone else.                          *)
RelockChannel(p) ==
    LET r == KeyUpdated(read[p], key[p], want[p]) IN
    /\ at[p] = "relock"
    /\ lock[ch[p]] = Nobody
    /\ SetRead(p, r)
    /\ alter' = [alter EXCEPT ![p] = r.status # read[p].status]
    /\ Goto(p, "save")
    /\ UNCHANGED <<dbVars, cacheVars, lock, ch, key, want, snap>>

(* Same as SaveRow, with the two deferred calls of UpdateChannelStatus in  *)
(* the other order: the lock is released before the abilities change.      *)
SaveRow_UnlocksFirst(p) ==
    /\ p \in Failure \cup Tester /\ at[p] = "save"
    /\ \/ row' = [row EXCEPT ![ch[p]] = read[p]]
       \/ p \in Flaky /\ UNCHANGED row
    /\ Goto(p, IF alter[p] THEN "ability" ELSE "done")
    /\ Release(p)
    /\ UNCHANGED <<ability, cacheVars, jobVars>>

(* SaveWithoutKey writes the whole row.  The deferred UpdateAbilityStatus  *)
(* runs whether or not it succeeds.                                        *)
SaveRow(p) ==
    /\ p \in Failure \cup Tester /\ at[p] = "save"
    /\ \/ row' = [row EXCEPT ![ch[p]] = read[p]]
       \/ p \in Flaky /\ UNCHANGED row
    /\ IF alter[p] THEN Goto(p, "ability") /\ UNCHANGED lock ELSE Return(p)
    /\ UNCHANGED <<ability, cacheVars, jobVars>>

(* UpdateAbilityStatus, whose error is only logged.                        *)
UpdateAbility(p) ==
    /\ p \in Failure \cup Tester /\ at[p] = "ability"
    /\ \/ ability' = [ability EXCEPT ![ch[p]] = (want[p] = "enabled")]
       \/ p \in Flaky /\ UNCHANGED ability
    /\ Return(p)
    /\ UNCHANGED <<row, cacheVars, jobVars>>

UpdateChannelStatus(p) ==
    \/ LockChannel(p) \/ CheckCache(p) \/ MarkCache(p) \/ LoadRow(p)
    \/ RelockChannel(p) \/ SaveRow(p) \/ UpdateAbility(p)

-----------------------------------------------------------------------------
(* Administrators.                                                         *)

(* ManageMultiKeys, disable_key and enable_key: the row is read before the *)
(* lock is taken.                                                          *)
ManageKey(p, c, k, s) ==
    /\ p \in Manager /\ at[p] = "new"
    /\ ch' = [ch EXCEPT ![p] = c]
    /\ key' = [key EXCEPT ![p] = k]
    /\ SetWant(p, s)
    /\ SetRead(p, row[c])
    /\ Goto(p, "lock")
    /\ UNCHANGED <<dbVars, cacheVars, lock, alter, snap>>

ManagerLock(p) ==
    /\ p \in Manager /\ at[p] = "lock"
    /\ Acquire(p)
    /\ Goto(p, "edit")
    /\ UNCHANGED <<dbVars, cacheVars, jobVars>>

(* The one key of a single-key channel stands for the channel.  For the    *)
(* others Channel.Update writes the row as it was read, with the key's     *)
(* entry changed.                                                          *)
ManagerSave(p) ==
    LET c == ch[p]
        r == read[p]
        bad == IF want[p] = "enabled" THEN r.bad \ {key[p]} ELSE r.bad \cup {key[p]}
    IN
    /\ p \in Manager /\ at[p] = "edit"
    /\ \/ /\ p \in Flaky \/ (~IsMulti(p) /\ r.status = want[p])
          /\ Return(p)
          /\ UNCHANGED row
       \/ /\ ~IsMulti(p) /\ r.status # want[p]
          /\ row' = [row EXCEPT ![c] = [r EXCEPT !.status = want[p]]]
          /\ Goto(p, "ability")
          /\ UNCHANGED lock
       \/ /\ IsMulti(p)
          /\ row' = [row EXCEPT ![c] = [r EXCEPT !.bad = bad]]
          /\ Goto(p, "reread")
          /\ UNCHANGED lock
    /\ UNCHANGED <<ability, cacheVars, jobVars>>

(* EnableChannelByTag and DisableChannelByTag.                             *)
TagRows(p, s) ==
    /\ p \in Tagger /\ at[p] = "new"
    /\ SetWant(p, s)
    /\ \/ /\ row' = [c \in Channel |->
                        IF c \in Tagged THEN [row[c] EXCEPT !.status = s] ELSE row[c]]
          /\ Goto(p, "ability")
       \/ /\ p \in Flaky
          /\ Goto(p, "done")
          /\ UNCHANGED row
    /\ UNCHANGED <<ability, cacheVars, lock, ch, key, read, alter, snap>>

(* UpdateChannel: ChannelInfo is copied from the row, the status comes     *)
(* from the request; no lock.                                              *)
EditChannel(p, c, s) ==
    /\ p \in Editor /\ at[p] = "new"
    /\ ch' = [ch EXCEPT ![p] = c]
    /\ SetWant(p, s)
    /\ SetRead(p, [row[c] EXCEPT !.status = s])
    /\ Goto(p, "edit")
    /\ UNCHANGED <<dbVars, cacheVars, lock, key, alter, snap>>

EditorSave(p) ==
    /\ p \in Editor /\ at[p] = "edit"
    /\ \/ row' = [row EXCEPT ![ch[p]] = read[p]] /\ Goto(p, "reread")
       \/ p \in Flaky /\ Goto(p, "done") /\ UNCHANGED row
    /\ UNCHANGED <<ability, cacheVars, lock, jobVars>>

(* Channel.Update reads the row back and rebuilds the abilities from it.   *)
RereadRow(p) ==
    /\ at[p] = "reread"
    /\ SetRead(p, row[ch[p]])
    /\ Goto(p, "ability")
    /\ UNCHANGED <<dbVars, cacheVars, lock, ch, key, want, alter, snap>>

(* UpdateAbilities, UpdateAbilityStatus or UpdateAbilityStatusByTag.  Only *)
(* ManageMultiKeys on a single-key channel goes on after an error.         *)
AdminAbility(p) ==
    LET single == p \in Manager /\ ~IsMulti(p)
        on == IF p \in Tagger \/ single THEN want[p] = "enabled"
              ELSE read[p].status = "enabled"
        scope == IF p \in Tagger THEN Tagged ELSE {ch[p]}
    IN
    /\ p \in Admin /\ at[p] = "ability"
    /\ \/ /\ ability' = [c \in Channel |-> IF c \in scope THEN on ELSE ability[c]]
          /\ Goto(p, "find")
          /\ UNCHANGED lock
       \/ /\ p \in Flaky
          /\ IF single THEN Goto(p, "find") /\ UNCHANGED lock ELSE Return(p)
          /\ UNCHANGED ability
    /\ UNCHANGED <<row, cacheVars, jobVars>>

-----------------------------------------------------------------------------
(* InitChannelCache, and requests.                                         *)

(* The error of DB.Find is not looked at: no rows is what has been read.   *)
FindRows(p) ==
    /\ at[p] = IF p \in Ticker THEN "new" ELSE "find"
    /\ \/ snap' = [snap EXCEPT ![p] = row]
       \/ p \in Flaky /\ snap' = [snap EXCEPT ![p] = [c \in Channel |-> Gone]]
    /\ Goto(p, "swap")
    /\ UNCHANGED <<dbVars, cacheVars, lock, ch, key, want, read, alter>>

(* Same as SwapCache, but channels the cache knows already are kept.       *)
SwapCache_Fills(p) ==
    LET filled == [c \in Channel |-> IF cache[c] = Gone THEN snap[p][c] ELSE cache[c]] IN
    /\ at[p] = "swap"
    /\ IF MemoryCache
       THEN cache' = filled /\ routable' = Enabled(filled)
       ELSE UNCHANGED cacheVars
    /\ IF p \in Ticker THEN Goto(p, "new") /\ UNCHANGED lock ELSE Return(p)
    /\ UNCHANGED <<dbVars, jobVars>>

SwapCache(p) ==
    /\ at[p] = "swap"
    /\ IF MemoryCache
       THEN cache' = snap[p] /\ routable' = Enabled(snap[p])
       ELSE UNCHANGED cacheVars
    /\ IF p \in Ticker THEN Goto(p, "new") /\ UNCHANGED lock ELSE Return(p)
    /\ UNCHANGED <<dbVars, jobVars>>

Selectable == IF MemoryCache THEN routable ELSE {c \in Channel : ability[c]}

(* GetRandomSatisfiedChannel and the start of GetNextEnabledKey; with no   *)
(* channel the request is refused.                                         *)
PickChannel(p) ==
    /\ p \in Request /\ at[p] = "new"
    /\ \/ \E c \in Selectable :
             /\ ch' = [ch EXCEPT ![p] = c]
             /\ SetRead(p, IF MemoryCache THEN cache[c] ELSE row[c])
             /\ Goto(p, IF c \in MultiKey THEN "key" ELSE "done")
       \/ Selectable = {} /\ Goto(p, "done") /\ UNCHANGED <<ch, read>>
    /\ UNCHANGED <<dbVars, cacheVars, lock, key, want, alter, snap>>

(* GetNextEnabledKey reads the key list under the lock and lets it go.     *)
(* Without the memory cache a channel whose keys take turns is saved with  *)
(* its next index, and with the key list as it was when it was picked.     *)
TakeKey(p) ==
    LET c == ch[p]
        saves == c \in Polling /\ ~MemoryCache /\ read[p].bad # Key
    IN
    /\ at[p] = "key"
    /\ lock[c] = Nobody
    /\ \/ saves /\ row' = [row EXCEPT ![c].bad = read[p].bad]
       \/ (~saves \/ p \in Flaky) /\ UNCHANGED row
    /\ Goto(p, "done")
    /\ UNCHANGED <<ability, cacheVars, lock, jobVars>>

-----------------------------------------------------------------------------
Arrive(p) ==
    /\ UNCHANGED site
    /\ \/ \E c \in Channel : \E k \in KeysOf(c) :
             \/ RequestFailed(p, c, k)
             \/ \E s \in {"enabled", "manual"} : ManageKey(p, c, k, s)
       \/ \E c \in Channel : ListChannel(p, c)
       \/ \E s \in {"enabled", "manual"} :
             \/ TagRows(p, s)
             \/ \E c \in Channel : EditChannel(p, c, s)
       \/ PickChannel(p)

Advance(p) ==
    /\ UNCHANGED site
    /\ \/ TestChannel(p) \/ UpdateChannelStatus(p)
       \/ ManagerLock(p) \/ ManagerSave(p) \/ EditorSave(p)
       \/ RereadRow(p) \/ AdminAbility(p)
       \/ FindRows(p) \/ SwapCache(p) \/ TakeKey(p)

Next == \E p \in Proc : Arrive(p) \/ Advance(p)

Spec == Init /\ [][Next]_vars

(* A process that has arrived goes on, and a mutex that is free again and  *)
(* again is obtained: Go's mutexes hand over to a waiter that starves.     *)
FairSpec ==
    /\ Spec
    /\ \A p \in Proc \ Ticker : SF_vars(Advance(p))
    /\ \A p \in Ticker : WF_vars(Advance(p))

-----------------------------------------------------------------------------
Waiting == {p \in Proc : at[p] \in {"absent", "new"}}
Resting == \A p \in Proc \ Ticker : p \in Waiting \/ at[p] = "done"

(* Once nobody is at work, the abilities, which administrators see and     *)
(* channels are selected by, agree with the rows: two calls of             *)
(* UpdateChannelStatus that want opposite things never leave one's status  *)
(* with the other's abilities.  It takes the channel's lock only with the  *)
(* memory cache on; writers that never take it (tags, edits) and failing   *)
(* statements are excepted.                                                *)
AbilitiesMatch ==
    MemoryCache /\ Resting /\ Tagger \cup Editor \cup Flaky \subseteq Waiting =>
        \A c \in Channel : ability[c] <=> row[c].status = "enabled"

(* A single-key channel that requests are routed to is enabled as far as   *)
(* the node knows, whatever InitChannelCache and CacheUpdateChannelStatus  *)
(* do at the same time.                                                    *)
RoutableEnabled ==
    \A c \in routable \ MultiKey : cache[c].status = "enabled"

(* Every call returns and every request gets its key or an error.  Each    *)
(* process makes one call, so they all return if and only if nobody is at  *)
(* work again and again.                                                   *)
CallsReturn == []<>Resting

(* The node's view follows the tables: from some point on a node with a    *)
(* memory cache routes to exactly the enabled channels and knows every     *)
(* row.                                                                    *)
CacheFollows ==
    <>[](MemoryCache => cache = row /\ routable = Enabled(row))
=============================================================================
