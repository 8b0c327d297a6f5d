------------------------ MODULE ChannelStatusProofs ------------------------
(***************************************************************************)
(* For any number of channels, keys and processes: no row or cached object *)
(* holds a status that is none, requests are routed only to channels that  *)
(* the node knows as enabled, and the mutex that UpdateChannelStatus holds *)
(* keeps the abilities in step with the rows.                              *)
(***************************************************************************)
EXTENDS ChannelStatus, TLAPS

(* What is routed to is in the cache.                                      *)
RoutableKnown == \A c \in routable : cache[c] # Gone

TypeInv == TypeOK /\ RoutableKnown

-----------------------------------------------------------------------------
LEMMA GoneIsNoRow == Gone \notin Row
BY DEF Gone, Row, Status

LEMMA KeyUpdatedType ==
    ASSUME NEW r \in Row, NEW k \in Key, NEW s \in Status
    PROVE  KeyUpdated(r, k, s) \in Row
<1> DEFINE bad == IF s = "enabled" THEN r.bad \ {k} ELSE r.bad \cup {k}
           st == IF Cardinality(bad) >= Cardinality(Key) THEN "auto" ELSE r.status
<1>1. bad \in SUBSET Key
  BY DEF Row
<1>2. st \in Status
  BY DEF Row, Status
<1>3. KeyUpdated(r, k, s) = [status |-> st, bad |-> bad]
  BY DEF KeyUpdated
<1> HIDE DEF bad, st
<1> QED
  BY <1>1, <1>2, <1>3 DEF Row

LEMMA RowWithStatus ==
    ASSUME NEW r \in Row, NEW s \in Status
    PROVE  /\ [r EXCEPT !.status = s] \in Row
           /\ [r EXCEPT !.status = s].status = s
BY DEF Row

LEMMA RowWithBad ==
    ASSUME NEW r \in Row, NEW b \in SUBSET Key
    PROVE  /\ [r EXCEPT !.bad = b] \in Row
           /\ [r EXCEPT !.bad = b].status = r.status
BY DEF Row

LEMMA InitType == Init => TypeInv
<1> SUFFICES ASSUME Init PROVE TypeInv
  OBVIOUS
<1> USE ChannelStatusAssumption
<1>1. NewRow \in Row /\ NewRow # Gone
  BY DEF NewRow, Row, Status, Gone
<1>2. (CHOOSE c \in Channel : TRUE) \in Channel /\ (CHOOSE k \in Key : TRUE) \in Key
  OBVIOUS
<1>3. TypeOK
  <2>1. row \in [Channel -> Row] /\ cache \in [Channel -> Row \cup {Gone}]
    BY <1>1 DEF Init
  <2>2. snap \in [Proc -> [Channel -> Row \cup {Gone}]] /\ read \in [Proc -> Row]
    BY <1>1, <2>1 DEF Init
  <2>3. at \in [Proc -> Places] /\ lock \in [Channel -> Proc \cup {Nobody}]
    BY DEF Init, Places
  <2>4. /\ ch \in [Proc -> Channel] /\ key \in [Proc -> Key]
        /\ want \in [Proc -> Status] /\ alter \in [Proc -> BOOLEAN]
    BY <1>2 DEF Init, Status
  <2> QED
    BY <2>1, <2>2, <2>3, <2>4 DEF Init, TypeOK
<1>4. RoutableKnown
  BY <1>1 DEF Init, RoutableKnown
<1> QED
  BY <1>3, <1>4 DEF TypeInv

-----------------------------------------------------------------------------
(* A step of p, whatever it does: what all steps have in common.           *)
LEMMA PlacesType ==
    ASSUME TypeOK, NEW p \in Proc, NEW l \in Places, Goto(p, l)
    PROVE  at' \in [Proc -> Places] /\ at'[p] = l
BY DEF TypeOK, Goto

LEMMA ReleaseType ==
    ASSUME TypeOK, NEW p \in Proc, Release(p)
    PROVE  lock' \in [Channel -> Proc \cup {Nobody}]
BY DEF TypeOK, Release

(* The administrators and requests that arrive.                            *)
LEMMA ArriveType == ASSUME TypeInv, NEW p \in Proc, Arrive(p) PROVE TypeInv'
<1> USE ChannelStatusAssumption DEF TypeInv, TypeOK
<1> SUFFICES TypeOK' /\ RoutableKnown'
  OBVIOUS
<1>0. site' = site
  BY DEF Arrive
<1>k. \A c \in Channel : KeysOf(c) \subseteq Key
  BY DEF KeysOf
<1>1. ASSUME NEW c \in Channel, NEW k \in Key, RequestFailed(p, c, k)
      PROVE  TypeOK' /\ RoutableKnown'
  BY <1>0, <1>1 DEF RequestFailed, SetWant, Goto, Places, Status, RoutableKnown,
                   dbVars, cacheVars
<1>2. ASSUME NEW c \in Channel, NEW k \in Key, NEW s \in {"enabled", "manual"},
             ManageKey(p, c, k, s)
      PROVE  TypeOK' /\ RoutableKnown'
  BY <1>0, <1>2 DEF ManageKey, SetWant, SetRead, Goto, Places, Status, RoutableKnown,
                   dbVars, cacheVars
<1>3. ASSUME NEW c \in Channel, ListChannel(p, c)
      PROVE  TypeOK' /\ RoutableKnown'
  BY <1>0, <1>3 DEF ListChannel, SetRead, Goto, Places, RoutableKnown, dbVars, cacheVars
<1>4. ASSUME NEW s \in {"enabled", "manual"}, TagRows(p, s)
      PROVE  TypeOK' /\ RoutableKnown'
  <2>1. s \in Status
    BY DEF Status
  <2>2. \A c \in Channel : [row[c] EXCEPT !.status = s] \in Row
    BY <2>1, RowWithStatus
  <2>3. row' \in [Channel -> Row]
    BY <1>4, <2>2 DEF TagRows
  <2> QED
    BY <1>0, <1>4, <2>1, <2>3 DEF TagRows, SetWant, Goto, Places, RoutableKnown, cacheVars
<1>5. ASSUME NEW s \in {"enabled", "manual"}, NEW c \in Channel, EditChannel(p, c, s)
      PROVE  TypeOK' /\ RoutableKnown'
  <2>1. s \in Status
    BY DEF Status
  <2>2. [row[c] EXCEPT !.status = s] \in Row
    BY <2>1, RowWithStatus
  <2> QED
    BY <1>0, <1>5, <2>1, <2>2 DEF EditChannel, SetWant, SetRead, Goto, Places,
                                 RoutableKnown, dbVars, cacheVars
<1>6. CASE PickChannel(p)
  <2>1. \A c \in Selectable : c \in Channel
    BY DEF Selectable
  <2>2. \A c \in Selectable : (IF MemoryCache THEN cache[c] ELSE row[c]) \in Row
    BY <2>1 DEF Selectable, RoutableKnown
  <2>3. /\ read' = read \/ \E r \in Row : read' = [read EXCEPT ![p] = r]
        /\ ch' = ch \/ \E c \in Channel : ch' = [ch EXCEPT ![p] = c]
    BY <1>6, <2>1, <2>2 DEF PickChannel, SetRead
  <2>4. at' \in [Proc -> Places]
    BY <1>6 DEF PickChannel, Goto, Places
  <2>5. read' \in [Proc -> Row] /\ ch' \in [Proc -> Channel]
    <3>1. ASSUME NEW r \in Row, read' = [read EXCEPT ![p] = r] PROVE read' \in [Proc -> Row]
      BY <3>1
    <3>2. ASSUME NEW c \in Channel, ch' = [ch EXCEPT ![p] = c]
          PROVE  ch' \in [Proc -> Channel]
      BY <3>2
    <3> QED
      BY <2>3, <3>1, <3>2
  <2> QED
    BY <1>0, <1>6, <2>4, <2>5 DEF PickChannel, RoutableKnown, dbVars, cacheVars
<1> QED
  BY <1>1, <1>2, <1>3, <1>4, <1>5, <1>6, <1>k DEF Arrive

(* UpdateChannelStatus.                                                    *)
LEMMA UpdateType ==
    ASSUME TypeInv, NEW p \in Proc, UNCHANGED site, UpdateChannelStatus(p)
    PROVE  TypeInv'
<1> USE ChannelStatusAssumption DEF TypeInv, TypeOK
<1> SUFFICES TypeOK' /\ RoutableKnown'
  OBVIOUS
<1>1. CASE LockChannel(p)
  BY <1>1 DEF LockChannel, Acquire, Goto, Places, RoutableKnown, dbVars, cacheVars, jobVars
<1>2. CASE CheckCache(p)
  <2>1. CASE Return(p) /\ UNCHANGED cache
    BY <1>2, <2>1, ReleaseType, PlacesType
       DEF CheckCache, Return, Places, RoutableKnown, dbVars, jobVars
  <2>2. CASE /\ cache[ch[p]] # Gone /\ Goto(p, "load") /\ UNCHANGED lock
             /\ cache' = [cache EXCEPT ![ch[p]] = KeyUpdated(@, key[p], want[p])]
    <3>1. KeyUpdated(cache[ch[p]], key[p], want[p]) \in Row
      BY <2>2, KeyUpdatedType
    <3> HIDE DEF KeyUpdated
    <3>2. cache' \in [Channel -> Row \cup {Gone}] /\ RoutableKnown'
      BY <1>2, <2>2, <3>1, GoneIsNoRow DEF CheckCache, RoutableKnown
    <3> QED
      BY <1>2, <2>2, <3>2 DEF CheckCache, Goto, Places, dbVars, jobVars
  <2>3. CASE Goto(p, "mark") /\ UNCHANGED <<cache, lock>>
    BY <1>2, <2>3 DEF CheckCache, Goto, Places, RoutableKnown, dbVars, jobVars
  <2> QED
    BY <1>2, <2>1, <2>2, <2>3, Zenon DEF CheckCache
<1>3. CASE MarkCache(p)
  <2>1. cache[ch[p]] # Gone => [cache[ch[p]] EXCEPT !.status = want[p]] \in Row
    BY RowWithStatus
  <2>2. cache' = IF cache[ch[p]] = Gone THEN cache
                 ELSE [cache EXCEPT ![ch[p]] = [cache[ch[p]] EXCEPT !.status = want[p]]]
    BY <1>3 DEF MarkCache
  <2>3. cache' \in [Channel -> Row \cup {Gone}]
    BY <2>1, <2>2
  <2>4. routable' \subseteq routable
    BY <1>3 DEF MarkCache
  <2>5. RoutableKnown'
    BY <2>1, <2>2, <2>4, GoneIsNoRow DEF RoutableKnown
  <2> QED
    BY <1>3, <2>3, <2>4, <2>5 DEF MarkCache, Goto, Places, dbVars, jobVars
<1>4. CASE LoadRow(p)
  <2>1. [row[ch[p]] EXCEPT !.status = want[p]] \in Row
    BY RowWithStatus
  <2>2. /\ read' = read \/ \E r \in Row : read' = [read EXCEPT ![p] = r]
        /\ alter' = alter \/ alter' = [alter EXCEPT ![p] = TRUE]
    <3>1. row[ch[p]] \in Row
      OBVIOUS
    <3> QED
      BY <1>4, <2>1, <3>1, Zenon DEF LoadRow, SetRead
  <2>4. read' \in [Proc -> Row] /\ alter' \in [Proc -> BOOLEAN]
    <3>1. ASSUME NEW r \in Row, read' = [read EXCEPT ![p] = r] PROVE read' \in [Proc -> Row]
      BY <3>1
    <3> QED
      BY <2>2, <3>1
  <2>3. at' \in [Proc -> Places] /\ lock' \in [Channel -> Proc \cup {Nobody}]
    BY <1>4 DEF LoadRow, Return, Release, Goto, Places
  <2> QED
    BY <1>4, <2>3, <2>4 DEF LoadRow, RoutableKnown, dbVars, cacheVars
<1>5. CASE RelockChannel(p)
  <2>1. KeyUpdated(read[p], key[p], want[p]) \in Row
    BY KeyUpdatedType
  <2> HIDE DEF KeyUpdated
  <2> QED
    BY <1>5, <2>1 DEF RelockChannel, SetRead, Goto, Places, RoutableKnown, dbVars, cacheVars
<1>6. CASE SaveRow(p)
  <2>1. row' \in [Channel -> Row]
    BY <1>6 DEF SaveRow
  <2>2. at' \in [Proc -> Places] /\ lock' \in [Channel -> Proc \cup {Nobody}]
    BY <1>6 DEF SaveRow, Return, Release, Goto, Places
  <2> QED
    BY <1>6, <2>1, <2>2 DEF SaveRow, RoutableKnown, cacheVars, jobVars
<1>7. CASE UpdateAbility(p)
  <2>1. ability' \in [Channel -> BOOLEAN]
    BY <1>7 DEF UpdateAbility
  <2>2. at' \in [Proc -> Places] /\ lock' \in [Channel -> Proc \cup {Nobody}]
    BY <1>7 DEF UpdateAbility, Return, Release, Goto, Places
  <2> QED
    BY <1>7, <2>1, <2>2 DEF UpdateAbility, RoutableKnown, cacheVars, jobVars
<1> QED
  BY <1>1, <1>2, <1>3, <1>4, <1>5, <1>6, <1>7 DEF UpdateChannelStatus

(* A test's outcome, the administrators' further steps, InitChannelCache   *)
(* and the choice of a key.                                                *)
LEMMA AdvanceType == ASSUME TypeInv, NEW p \in Proc, Advance(p) PROVE TypeInv'
<1> USE ChannelStatusAssumption DEF TypeInv, TypeOK
<1> SUFFICES TypeOK' /\ RoutableKnown'
  OBVIOUS
<1>0. site' = site
  BY DEF Advance
<1>1. CASE TestChannel(p)
  <2>1. key' \in [Proc -> Key]
    BY <1>1 DEF TestChannel, KeysOf
  <2>2. want' \in [Proc -> Status] /\ at' \in [Proc -> Places]
    BY <1>1 DEF TestChannel, SetWant, Goto, Status, Places
  <2> QED
    BY <1>0, <1>1, <2>1, <2>2 DEF TestChannel, RoutableKnown, dbVars, cacheVars
<1>2. CASE UpdateChannelStatus(p)
  BY <1>0, <1>2, UpdateType
<1>3. CASE ManagerLock(p)
  BY <1>0, <1>3 DEF ManagerLock, Acquire, Goto, Places, RoutableKnown, dbVars, cacheVars,
                   jobVars
<1>4. CASE ManagerSave(p)
  <2> DEFINE bad == IF want[p] = "enabled" THEN read[p].bad \ {key[p]}
                    ELSE read[p].bad \cup {key[p]}
  <2>0. ch[p] \in Channel /\ read[p] \in Row /\ want[p] \in Status
    OBVIOUS
  <2>1. bad \in SUBSET Key
    BY <2>0 DEF Row
  <2>2. /\ [read[p] EXCEPT !.status = want[p]] \in Row
        /\ [read[p] EXCEPT !.bad = bad] \in Row
    BY <2>0, <2>1, RowWithStatus, RowWithBad
  <2>3. row' = row \/ \E r \in Row : row' = [row EXCEPT ![ch[p]] = r]
    BY <1>4, <2>2, Zenon DEF ManagerSave
  <2>4. row' \in [Channel -> Row]
    <3>1. ASSUME NEW r \in Row, row' = [row EXCEPT ![ch[p]] = r] PROVE row' \in [Channel -> Row]
      BY <3>1
    <3> QED
      BY <2>3, <3>1
  <2>5. at' \in [Proc -> Places] /\ lock' \in [Channel -> Proc \cup {Nobody}]
    BY <1>4 DEF ManagerSave, Return, Release, Goto, Places
  <2> QED
    BY <1>0, <1>4, <2>4, <2>5 DEF ManagerSave, RoutableKnown, cacheVars, jobVars
<1>5. CASE EditorSave(p)
  <2>1. row' \in [Channel -> Row]
    BY <1>5 DEF EditorSave
  <2> QED
    BY <1>0, <1>5, <2>1 DEF EditorSave, Goto, Places, RoutableKnown, cacheVars, jobVars
<1>6. CASE RereadRow(p)
  BY <1>0, <1>6 DEF RereadRow, SetRead, Goto, Places, RoutableKnown, dbVars, cacheVars
<1>7. CASE AdminAbility(p)
  <2>1. ability' \in [Channel -> BOOLEAN]
    BY <1>7 DEF AdminAbility
  <2>2. at' \in [Proc -> Places] /\ lock' \in [Channel -> Proc \cup {Nobody}]
    <3>1. CASE Return(p)
      BY <3>1, ReleaseType, PlacesType DEF Return, Places
    <3>2. CASE Goto(p, "find") /\ UNCHANGED lock
      BY <3>2, PlacesType DEF Places
    <3> QED
      BY <1>7, <3>1, <3>2, Zenon DEF AdminAbility
  <2> QED
    BY <1>0, <1>7, <2>1, <2>2 DEF AdminAbility, RoutableKnown, cacheVars, jobVars
<1>8. CASE FindRows(p)
  <2>1. snap' \in [Proc -> [Channel -> Row \cup {Gone}]]
    BY <1>8 DEF FindRows
  <2> QED
    BY <1>0, <1>8, <2>1 DEF FindRows, Goto, Places, RoutableKnown, dbVars, cacheVars
<1>9. CASE SwapCache(p)
  <2>1. /\ cache' \in [Channel -> Row \cup {Gone}]
        /\ routable' \subseteq Channel /\ RoutableKnown'
    BY <1>9 DEF SwapCache, Enabled, RoutableKnown, cacheVars, Gone
  <2>2. at' \in [Proc -> Places] /\ lock' \in [Channel -> Proc \cup {Nobody}]
    <3>1. CASE Return(p)
      BY <3>1, ReleaseType, PlacesType DEF Return, Places
    <3>2. CASE Goto(p, "new") /\ UNCHANGED lock
      BY <3>2, PlacesType DEF Places
    <3> QED
      BY <1>9, <3>1, <3>2, Zenon DEF SwapCache
  <2> QED
    BY <1>0, <1>9, <2>1, <2>2 DEF SwapCache, dbVars, jobVars
<1>10. CASE TakeKey(p)
  <2>0. ch[p] \in Channel /\ read[p] \in Row
    OBVIOUS
  <2>1. [row[ch[p]] EXCEPT !.bad = read[p].bad] \in Row
    <3>1. read[p].bad \in SUBSET Key /\ row[ch[p]] \in Row
      BY <2>0 DEF Row
    <3> QED
      BY <3>1, RowWithBad
  <2>2. row' = row \/ \E r \in Row : row' = [row EXCEPT ![ch[p]] = r]
    BY <1>10, <2>1, Zenon DEF TakeKey
  <2>3. row' \in [Channel -> Row]
    <3>1. ASSUME NEW r \in Row, row' = [row EXCEPT ![ch[p]] = r] PROVE row' \in [Channel -> Row]
      BY <3>1
    <3> QED
      BY <2>2, <3>1
  <2> QED
    BY <1>0, <1>10, <2>3 DEF TakeKey, Goto, Places, RoutableKnown, cacheVars, jobVars
<1> QED
  BY <1>1, <1>2, <1>3, <1>4, <1>5, <1>6, <1>7, <1>8, <1>9, <1>10 DEF Advance

LEMMA TypeNext == TypeInv /\ [Next]_vars => TypeInv'
<1> SUFFICES ASSUME TypeInv, [Next]_vars PROVE TypeInv'
  OBVIOUS
<1>1. CASE Next
  BY <1>1, ArriveType, AdvanceType DEF Next
<1>2. CASE UNCHANGED vars
  BY <1>2 DEF vars, dbVars, cacheVars, jobVars, TypeInv, TypeOK, RoutableKnown
<1> QED
  BY <1>1, <1>2

LEMMA AlwaysTyped == Spec => []TypeInv
BY InitType, TypeNext, PTL DEF Spec
-----------------------------------------------------------------------------
(* Where a failure or a test, and a manager of keys, can be.  Only the row *)
(* of a multi-key channel is read back.                                    *)
InRole(p) ==
    /\ p \in Failure \cup Tester =>
          at[p] \in {"absent", "new", "tested", "lock", "check", "mark", "load", "relock",
                    "save", "ability", "done"}
    /\ p \in Manager =>
          /\ at[p] \in {"absent", "new", "lock", "edit", "reread", "ability", "find",
                       "swap", "done"}
          /\ at[p] = "reread" => IsMulti(p)

(* Who is inside UpdateChannelStatus or ManageMultiKeys owns the mutex of  *)
(* its channel.                                                            *)
OwnsLock(p) ==
    \/ /\ p \in Failure \cup Tester
       /\ at[p] \in {"check", "mark", "load", "relock", "save", "ability"}
    \/ /\ p \in Manager
       /\ at[p] \in {"edit", "reread", "ability", "find", "swap"}
    => lock[ch[p]] = p

(* UpdateChannelStatus gets as far as the save only for single-key         *)
(* channels: for the others it waits for its own mutex.                    *)
SavesSingle(p) ==
    p \in Failure \cup Tester /\ at[p] \in {"save", "ability"} =>
        ch[p] \notin MultiKey /\ alter[p] /\ read[p].status = want[p]

LockInv ==
    \A p \in Proc : InRole(p) /\ (MemoryCache => OwnsLock(p) /\ SavesSingle(p))

(* Nobody that writes without the mutex, or whose statements fail, is at   *)
(* work.  The ticker only reads the tables.                                *)
Calm == (Tagger \cup Editor \cup Flaky) \ Ticker \subseteq Waiting

(* Who is about to write the abilities has written the row accordingly.    *)
RowWritten(p) ==
    /\ p \in Failure \cup Tester /\ at[p] = "ability" => row[ch[p]].status = want[p]
    /\ p \in Manager /\ at[p] = "ability" =>
          row[ch[p]].status = IF IsMulti(p) THEN read[p].status ELSE want[p]

(* The row of c has been written and its abilities have not.               *)
Between(c) ==
    \E p \in Failure \cup Tester \cup Manager :
        ch[p] = c /\ at[p] \in {"reread", "ability"}

MatchOf(c) == ability[c] <=> row[c].status = "enabled"

MatchInv ==
    MemoryCache /\ Calm =>
        /\ \A p \in Proc : RowWritten(p)
        /\ \A c \in Channel : Between(c) \/ MatchOf(c)

-----------------------------------------------------------------------------
(* A step of p is a step of nobody else, and takes no mutex from anybody.  *)
Frame(p) ==
    /\ site' = site
    /\ \A q \in Proc \ {p} :
          /\ at'[q] = at[q] /\ ch'[q] = ch[q] /\ want'[q] = want[q]
          /\ read'[q] = read[q] /\ alter'[q] = alter[q]
          /\ \A c \in Channel : lock[c] = q => lock'[c] = q

LEMMA ArriveFrame == ASSUME TypeInv, NEW p \in Proc, Arrive(p) PROVE Frame(p)
<1> USE DEF TypeInv, TypeOK, Frame, Goto, SetWant, SetRead
<1>0. site' = site
  BY DEF Arrive
<1>1. ASSUME NEW c \in Channel, NEW k, RequestFailed(p, c, k) PROVE Frame(p)
  BY <1>0, <1>1 DEF RequestFailed
<1>2. ASSUME NEW c \in Channel, NEW k, NEW s, ManageKey(p, c, k, s) PROVE Frame(p)
  BY <1>0, <1>2 DEF ManageKey
<1>3. ASSUME NEW c \in Channel, ListChannel(p, c) PROVE Frame(p)
  BY <1>0, <1>3 DEF ListChannel
<1>4. ASSUME NEW s, TagRows(p, s) PROVE Frame(p)
  BY <1>0, <1>4 DEF TagRows
<1>5. ASSUME NEW s, NEW c \in Channel, EditChannel(p, c, s) PROVE Frame(p)
  BY <1>0, <1>5 DEF EditChannel
<1>6. CASE PickChannel(p)
  BY <1>0, <1>6 DEF PickChannel
<1> QED
  BY <1>1, <1>2, <1>3, <1>4, <1>5, <1>6 DEF Arrive

LEMMA AdvanceFrame == ASSUME TypeInv, NEW p \in Proc, Advance(p) PROVE Frame(p)
<1> USE ChannelStatusAssumption
        DEF TypeInv, TypeOK, Frame, Goto, SetWant, SetRead, Return, Release, Acquire, jobVars
<1>0. site' = site
  BY DEF Advance
<1>1. CASE TestChannel(p)
  BY <1>0, <1>1 DEF TestChannel
<1>2. CASE LockChannel(p) \/ ManagerLock(p)
  BY <1>0, <1>2 DEF LockChannel, ManagerLock
<1>3. CASE CheckCache(p)
  BY <1>0, <1>3 DEF CheckCache
<1>4. CASE MarkCache(p)
  BY <1>0, <1>4 DEF MarkCache
<1>5. CASE LoadRow(p)
  BY <1>0, <1>5 DEF LoadRow
<1>6. CASE RelockChannel(p)
  BY <1>0, <1>6 DEF RelockChannel
<1>7. CASE SaveRow(p)
  BY <1>0, <1>7 DEF SaveRow
<1>8. CASE UpdateAbility(p)
  BY <1>0, <1>8 DEF UpdateAbility
<1>9. CASE ManagerSave(p)
  BY <1>0, <1>9 DEF ManagerSave
<1>10. CASE EditorSave(p) \/ RereadRow(p)
  BY <1>0, <1>10 DEF EditorSave, RereadRow
<1>11. CASE AdminAbility(p)
  BY <1>0, <1>11 DEF AdminAbility
<1>12. CASE FindRows(p) \/ TakeKey(p)
  BY <1>0, <1>12 DEF FindRows, TakeKey
<1>13. CASE SwapCache(p)
  BY <1>0, <1>13 DEF SwapCache
<1> QED
  BY <1>1, <1>2, <1>3, <1>4, <1>5, <1>6, <1>7, <1>8, <1>9, <1>10, <1>11, <1>12, <1>13
     DEF Advance, UpdateChannelStatus
-----------------------------------------------------------------------------
LEMMA InitLock == Init => LockInv
<1> SUFFICES ASSUME Init, NEW p \in Proc
             PROVE  InRole(p) /\ OwnsLock(p) /\ SavesSingle(p)
  BY DEF LockInv
<1>1. at[p] \in {"absent", "new"}
  BY DEF Init
<1> QED
  BY <1>1 DEF InRole, IsMulti, OwnsLock, SavesSingle

(* Everybody but the process that steps is where it was.                   *)
LEMMA LockOthers ==
    ASSUME TypeInv, LockInv, NEW p \in Proc, Frame(p), NEW q \in Proc \ {p}
    PROVE  InRole(q)' /\ (MemoryCache' => OwnsLock(q)' /\ SavesSingle(q)')
BY DEF LockInv, Frame, InRole, IsMulti, OwnsLock, SavesSingle, MemoryCache, MultiKey, TypeInv, TypeOK

LEMMA ArriveLock ==
    ASSUME TypeInv, NEW p \in Proc, Arrive(p)
    PROVE  InRole(p)' /\ (MemoryCache' => OwnsLock(p)' /\ SavesSingle(p)')
<1> USE ChannelStatusAssumption DEF TypeInv, TypeOK, Goto, InRole, IsMulti, OwnsLock, SavesSingle, Admin
<1>0. MemoryCache' <=> MemoryCache
  BY DEF Arrive, MemoryCache
<1>1. ASSUME NEW c \in Channel, NEW k, NEW s, RequestFailed(p, c, k) \/ ManageKey(p, c, k, s)
      PROVE  InRole(p)' /\ (MemoryCache' => OwnsLock(p)' /\ SavesSingle(p)')
  BY <1>0, <1>1 DEF RequestFailed, ManageKey
<1>2. ASSUME NEW c \in Channel, ListChannel(p, c)
      PROVE  InRole(p)' /\ (MemoryCache' => OwnsLock(p)' /\ SavesSingle(p)')
  BY <1>2 DEF ListChannel
<1>3. ASSUME NEW s, NEW c \in Channel, TagRows(p, s) \/ EditChannel(p, c, s)
      PROVE  InRole(p)' /\ (MemoryCache' => OwnsLock(p)' /\ SavesSingle(p)')
  BY <1>3 DEF TagRows, EditChannel
<1>4. CASE PickChannel(p)
  BY <1>4 DEF PickChannel
<1>5. Channel # {}
  OBVIOUS
<1> QED
  BY <1>1, <1>2, <1>3, <1>4, <1>5 DEF Arrive

LEMMA AdvanceLock ==
    ASSUME TypeInv, LockInv, NEW p \in Proc, Advance(p)
    PROVE  InRole(p)' /\ (MemoryCache' => OwnsLock(p)' /\ SavesSingle(p)')
<1> USE ChannelStatusAssumption
        DEF TypeInv, TypeOK, Goto, Return, InRole, IsMulti, OwnsLock, SavesSingle, Admin, jobVars
<1>0. site' = site /\ (MemoryCache' <=> MemoryCache) /\ MultiKey' = MultiKey
  BY DEF Advance, MemoryCache, MultiKey
<1>i. InRole(p) /\ (MemoryCache => OwnsLock(p) /\ SavesSingle(p))
  BY DEF LockInv
<1>1. CASE TestChannel(p)
  BY <1>0, <1>i, <1>1 DEF TestChannel
<1>2. CASE LockChannel(p) \/ ManagerLock(p)
  BY <1>0, <1>i, <1>2 DEF LockChannel, ManagerLock, Acquire
<1>3. CASE CheckCache(p)
  BY <1>0, <1>i, <1>3 DEF CheckCache
<1>4. CASE MarkCache(p)
  BY <1>0, <1>i, <1>4 DEF MarkCache
<1>5. CASE LoadRow(p)
  <2>1. [row[ch[p]] EXCEPT !.status = want[p]].status = want[p]
    BY RowWithStatus
  <2>2. CASE Return(p)
    BY <1>0, <1>i, <1>5, <2>2 DEF LoadRow
  <2>3. CASE Goto(p, "relock") /\ UNCHANGED lock
    BY <1>0, <1>i, <1>5, <2>3 DEF LoadRow
  <2>4. CASE /\ ~IsMulti(p) /\ UNCHANGED lock /\ Goto(p, "save")
             /\ SetRead(p, [row[ch[p]] EXCEPT !.status = want[p]])
             /\ alter' = [alter EXCEPT ![p] = TRUE]
    <3>1. ch' = ch /\ want' = want
      BY <1>5 DEF LoadRow
    <3>2. at'[p] = "save" /\ alter'[p] /\ read'[p].status = want'[p]
      BY <2>1, <2>4, <3>1 DEF SetRead
    <3> QED
      BY <1>0, <1>i, <1>5, <2>4, <3>1, <3>2 DEF LoadRow, IsMulti
  <2> QED
    BY <1>5, <2>2, <2>3, <2>4, Zenon DEF LoadRow
<1>6. CASE RelockChannel(p)
  BY <1>0, <1>i, <1>6 DEF RelockChannel
<1>7. CASE SaveRow(p)
  BY <1>0, <1>i, <1>7 DEF SaveRow
<1>8. CASE UpdateAbility(p)
  BY <1>0, <1>i, <1>8 DEF UpdateAbility
<1>9. CASE ManagerSave(p)
  BY <1>0, <1>i, <1>9 DEF ManagerSave
<1>10. CASE EditorSave(p) \/ RereadRow(p)
  BY <1>0, <1>i, <1>10 DEF EditorSave, RereadRow
<1>11. CASE AdminAbility(p)
  BY <1>0, <1>i, <1>11 DEF AdminAbility
<1>12. CASE FindRows(p) \/ TakeKey(p)
  BY <1>0, <1>i, <1>12 DEF FindRows, TakeKey
<1>13. CASE SwapCache(p)
  BY <1>0, <1>i, <1>13 DEF SwapCache
<1> QED
  BY <1>1, <1>2, <1>3, <1>4, <1>5, <1>6, <1>7, <1>8, <1>9, <1>10, <1>11, <1>12, <1>13
     DEF Advance, UpdateChannelStatus

LEMMA LockNext == TypeInv /\ LockInv /\ [Next]_vars => LockInv'
<1> SUFFICES ASSUME TypeInv, LockInv, [Next]_vars, NEW q \in Proc
             PROVE  (InRole(q) /\ (MemoryCache => OwnsLock(q) /\ SavesSingle(q)))'
  BY DEF LockInv
<1>1. ASSUME NEW p \in Proc, Arrive(p) \/ Advance(p)
      PROVE  (InRole(q) /\ (MemoryCache => OwnsLock(q) /\ SavesSingle(q)))'
  BY <1>1, ArriveFrame, AdvanceFrame, LockOthers, ArriveLock, AdvanceLock
<1>2. CASE UNCHANGED vars
  BY <1>2 DEF vars, jobVars, LockInv, InRole, IsMulti, OwnsLock, SavesSingle, MemoryCache, MultiKey
<1> QED
  BY <1>1, <1>2 DEF Next
-----------------------------------------------------------------------------
(* A step leads away from the start of a call, but for the ticker's turns. *)
LEMMA StepsAway ==
    ASSUME TypeInv, NEW p \in Proc, Arrive(p) \/ Advance(p), p \notin Ticker
    PROVE  at'[p] \notin {"absent", "new"}
<1> USE DEF TypeInv, TypeOK, Goto, Return
<1>1. CASE Arrive(p)
  BY <1>1 DEF Arrive, RequestFailed, ManageKey, ListChannel, TagRows, EditChannel, PickChannel
<1>2. CASE TestChannel(p) \/ UpdateChannelStatus(p)
  BY <1>2 DEF TestChannel, UpdateChannelStatus, LockChannel, CheckCache, MarkCache, LoadRow,
              RelockChannel, SaveRow, UpdateAbility
<1>3. CASE ManagerLock(p) \/ ManagerSave(p) \/ EditorSave(p) \/ RereadRow(p)
  BY <1>3 DEF ManagerLock, ManagerSave, EditorSave, RereadRow
<1>4. CASE AdminAbility(p) \/ FindRows(p) \/ SwapCache(p) \/ TakeKey(p)
  BY <1>4 DEF AdminAbility, FindRows, SwapCache, TakeKey
<1> QED
  BY <1>1, <1>2, <1>3, <1>4 DEF Advance

LEMMA CalmBefore ==
    ASSUME TypeInv, NEW p \in Proc, Arrive(p) \/ Advance(p), Frame(p), Calm'
    PROVE  Calm /\ p \notin (Tagger \cup Editor \cup Flaky) \ Ticker
<1>1. p \notin (Tagger \cup Editor \cup Flaky) \ Ticker
  BY StepsAway DEF Calm, Waiting
<1>2. \A q \in Proc \ {p} : at'[q] = at[q]
  BY DEF Frame
<1> QED
  BY <1>1, <1>2 DEF Calm, Waiting

(* A step that leaves statuses and abilities alone, by a process that is   *)
(* not between the two.                                                    *)
Quiet(p) ==
    /\ ability' = ability
    /\ \A c \in Channel : row'[c].status = row[c].status
    /\ p \in Failure \cup Tester \cup Manager =>
          at[p] \notin {"reread", "ability"} /\ at'[p] # "ability"

LEMMA QuietMatch ==
    ASSUME TypeInv, NEW p \in Proc, Frame(p), Quiet(p),
           \A q \in Proc : RowWritten(q),
           \A c \in Channel : Between(c) \/ MatchOf(c)
    PROVE  /\ \A q \in Proc : RowWritten(q)'
           /\ \A c \in Channel : Between(c)' \/ MatchOf(c)'
<1>1. ASSUME NEW q \in Proc PROVE RowWritten(q)'
  <2>1. CASE q = p
    BY <2>1 DEF Quiet, RowWritten
  <2>2. CASE q # p
    <3>1. /\ at'[q] = at[q] /\ ch'[q] = ch[q] /\ want'[q] = want[q] /\ read'[q] = read[q]
          /\ ch[q] \in Channel /\ MultiKey' = MultiKey
      BY <2>2 DEF Frame, MultiKey, TypeInv, TypeOK
    <3>2. row'[ch[q]].status = row[ch[q]].status
      BY <3>1 DEF Quiet
    <3> QED
      BY <3>1, <3>2 DEF RowWritten, IsMulti
  <2> QED
    BY <2>1, <2>2
<1>2. ASSUME NEW c \in Channel PROVE Between(c)' \/ MatchOf(c)'
  <2>1. CASE Between(c)
    <3>1. PICK q \in Failure \cup Tester \cup Manager :
                 ch[q] = c /\ at[q] \in {"reread", "ability"}
      BY <2>1 DEF Between
    <3>2. q # p /\ q \in Proc
      BY <3>1 DEF Quiet, Proc, Admin
    <3> QED
      BY <3>1, <3>2 DEF Frame, Between
  <2>2. CASE MatchOf(c)
    BY <2>2 DEF Quiet, MatchOf
  <2> QED
    BY <2>1, <2>2
<1> QED
  BY <1>1, <1>2

(* A step of the owner of its channel's mutex touches this channel only,   *)
(* and no other process is between a row and its abilities there.          *)
LEMMA OwnerMatch ==
    ASSUME TypeInv, LockInv, MemoryCache, NEW p \in Failure \cup Tester \cup Manager, Frame(p),
           \A q \in Proc : RowWritten(q),
           \A c \in Channel : Between(c) \/ MatchOf(c),
           ch' = ch, lock[ch[p]] = p,
           \A c \in Channel \ {ch[p]} :
              row'[c].status = row[c].status /\ ability'[c] = ability[c],
           RowWritten(p)',
           MatchOf(ch[p])' \/ at'[p] \in {"reread", "ability"}
    PROVE  /\ \A q \in Proc : RowWritten(q)'
           /\ \A c \in Channel : Between(c)' \/ MatchOf(c)'
<1>p. p \in Proc
  BY DEF Proc, Admin
<1>1. ASSUME NEW q \in Proc, q # p PROVE RowWritten(q)'
  <2>1. /\ at'[q] = at[q] /\ ch'[q] = ch[q] /\ want'[q] = want[q] /\ read'[q] = read[q]
        /\ ch[q] \in Channel /\ MultiKey' = MultiKey
    BY <1>1 DEF Frame, MultiKey, TypeInv, TypeOK
  <2>2. q \in Failure \cup Tester \cup Manager /\ at[q] = "ability" => ch[q] # ch[p]
    BY <1>1 DEF LockInv, OwnsLock
  <2>3. q \in Failure \cup Tester \cup Manager /\ at[q] = "ability"
        => row'[ch[q]].status = row[ch[q]].status
    BY <2>1, <2>2
  <2> QED
    BY <2>1, <2>3 DEF RowWritten, IsMulti
<1>2. ASSUME NEW c \in Channel PROVE Between(c)' \/ MatchOf(c)'
  <2>1. CASE c = ch[p] /\ MatchOf(ch[p])'
    <3>1. ch'[p] = ch[p]
      OBVIOUS
    <3> QED
      BY <2>1 DEF MatchOf
  <2>2. CASE c = ch[p] /\ at'[p] \in {"reread", "ability"}
    BY <2>2 DEF Between
  <2>3. CASE c # ch[p] /\ Between(c)
    <3>1. PICK q \in Failure \cup Tester \cup Manager :
                 ch[q] = c /\ at[q] \in {"reread", "ability"}
      BY <2>3 DEF Between
    <3>2. q # p /\ q \in Proc
      BY <2>3, <3>1 DEF Proc, Admin
    <3> QED
      BY <3>1, <3>2 DEF Frame, Between
  <2>4. CASE c # ch[p] /\ MatchOf(c)
    BY <2>4 DEF MatchOf
  <2> QED
    BY <2>1, <2>2, <2>3, <2>4
<1> QED
  BY <1>1, <1>2

(* Nobody that comes writes anything, administrators of tags excepted.     *)
LEMMA ArriveQuiet ==
    ASSUME TypeInv, NEW p \in Proc, Arrive(p), p \notin Tagger PROVE Quiet(p)
<1> USE DEF TypeInv, TypeOK, Goto, Quiet, dbVars
<1>1. ASSUME NEW c \in Channel, NEW k, NEW s, RequestFailed(p, c, k) \/ ManageKey(p, c, k, s)
      PROVE  Quiet(p)
  BY <1>1 DEF RequestFailed, ManageKey
<1>2. ASSUME NEW c \in Channel, NEW s, ListChannel(p, c) \/ EditChannel(p, c, s)
      PROVE  Quiet(p)
  BY <1>2 DEF ListChannel, EditChannel
<1>3. CASE PickChannel(p)
  BY <1>3 DEF PickChannel
<1> QED
  BY <1>1, <1>2, <1>3 DEF Arrive, TagRows

(* Nor do the steps before the save, the cache's and the requests'.        *)
LEMMA AdvanceQuiet ==
    ASSUME TypeInv, LockInv, MemoryCache, NEW p \in Proc,
           \/ TestChannel(p) \/ LockChannel(p) \/ CheckCache(p) \/ MarkCache(p)
           \/ LoadRow(p) \/ RelockChannel(p) \/ ManagerLock(p)
           \/ FindRows(p) \/ SwapCache(p) \/ TakeKey(p)
    PROVE  Quiet(p)
<1> USE DEF TypeInv, TypeOK, Goto, Return, Quiet, dbVars
<1>1. CASE TestChannel(p) \/ LockChannel(p) \/ CheckCache(p) \/ MarkCache(p)
  BY <1>1 DEF TestChannel, LockChannel, CheckCache, MarkCache
<1>2. CASE LoadRow(p) \/ RelockChannel(p) \/ ManagerLock(p)
  BY <1>2 DEF LoadRow, RelockChannel, ManagerLock
<1>3. CASE FindRows(p) \/ SwapCache(p) \/ TakeKey(p)
  BY <1>3 DEF FindRows, SwapCache, TakeKey
<1> QED
  BY <1>1, <1>2, <1>3

LEMMA AdvanceMatch ==
    ASSUME TypeInv, LockInv, MemoryCache, NEW p \in Proc, Frame(p), Advance(p),
           p \notin (Tagger \cup Editor \cup Flaky) \ Ticker,
           \A q \in Proc : RowWritten(q),
           \A c \in Channel : Between(c) \/ MatchOf(c)
    PROVE  /\ \A q \in Proc : RowWritten(q)'
           /\ \A c \in Channel : Between(c)' \/ MatchOf(c)'
<1>t. /\ ch[p] \in Channel /\ read[p] \in Row /\ want[p] \in Status /\ at \in [Proc -> Places]
      /\ row \in [Channel -> Row] /\ ability \in [Channel -> BOOLEAN]
      /\ read \in [Proc -> Row] /\ lock \in [Channel -> Proc \cup {Nobody}]
  BY DEF TypeInv, TypeOK
<1>i. InRole(p) /\ OwnsLock(p) /\ SavesSingle(p) /\ RowWritten(p)
  BY DEF LockInv
<1>c. MultiKey' = MultiKey
  BY DEF Frame, MultiKey
<1>1. CASE \/ TestChannel(p) \/ LockChannel(p) \/ CheckCache(p) \/ MarkCache(p)
           \/ LoadRow(p) \/ RelockChannel(p) \/ ManagerLock(p)
           \/ FindRows(p) \/ SwapCache(p) \/ TakeKey(p)
  BY <1>1, AdvanceQuiet, QuietMatch
<1>2. CASE SaveRow(p)
  <2>0. p \in Failure \cup Tester /\ p \notin Flaky /\ p \notin Manager
    BY <1>2, ChannelStatusAssumption DEF SaveRow, Admin
  <2>1. /\ row' = [row EXCEPT ![ch[p]] = read[p]] /\ ability' = ability
        /\ ch' = ch /\ want' = want /\ at'[p] = "ability"
        /\ lock[ch[p]] = p /\ read[p].status = want[p]
    BY <1>2, <1>i, <1>t, <2>0 DEF SaveRow, OwnsLock, SavesSingle, Goto, jobVars
  <2>2. row'[ch[p]].status = want[p]
    BY <2>1, <1>t
  <2>3. RowWritten(p)'
    BY <2>0, <2>1, <2>2 DEF RowWritten
  <2>4. \A c \in Channel \ {ch[p]} : row'[c].status = row[c].status /\ ability'[c] = ability[c]
    BY <2>1, <1>t
  <2> QED
    BY <2>0, <2>1, <2>3, <2>4, OwnerMatch
<1>3. CASE UpdateAbility(p)
  <2>0. p \in Failure \cup Tester /\ p \notin Flaky
    BY <1>3, ChannelStatusAssumption DEF UpdateAbility
  <2>1. /\ ability' = [ability EXCEPT ![ch[p]] = (want[p] = "enabled")] /\ row' = row
        /\ ch' = ch /\ at'[p] = "done" /\ at[p] = "ability" /\ lock[ch[p]] = p
    BY <1>3, <1>i, <1>t, <2>0 DEF UpdateAbility, OwnsLock, Goto, Return, jobVars
  <2>2. RowWritten(p)'
    BY <2>1 DEF RowWritten
  <2>3. MatchOf(ch[p])'
    BY <1>i, <1>t, <2>0, <2>1 DEF RowWritten, MatchOf
  <2>4. \A c \in Channel \ {ch[p]} : row'[c].status = row[c].status /\ ability'[c] = ability[c]
    BY <2>1, <1>t
  <2> QED
    BY <2>0, <2>1, <2>2, <2>3, <2>4, OwnerMatch
<1>4. CASE ManagerSave(p)
  <2>0. p \in Manager /\ p \notin Failure \cup Tester /\ p \notin Flaky
    BY <1>4, ChannelStatusAssumption DEF ManagerSave, Admin
  <2>1. /\ ability' = ability /\ ch' = ch /\ want' = want /\ at[p] = "edit" /\ lock[ch[p]] = p
    BY <1>4, <1>i, <2>0 DEF ManagerSave, OwnsLock, jobVars
  <2>2. CASE Return(p) /\ row' = row
    <3>1. Quiet(p)
      BY <1>t, <2>1, <2>2 DEF Quiet, Return, Goto
    <3> QED
      BY <3>1, QuietMatch
  <2>3. CASE /\ ~IsMulti(p) /\ Goto(p, "ability")
             /\ row' = [row EXCEPT ![ch[p]] = [read[p] EXCEPT !.status = want[p]]]
    <3>1. [read[p] EXCEPT !.status = want[p]].status = want[p]
      BY <1>t, RowWithStatus
    <3>2. /\ row'[ch[p]].status = want[p] /\ at'[p] = "ability"
          /\ \A c \in Channel \ {ch[p]} : row'[c].status = row[c].status
      BY <1>t, <2>3, <3>1 DEF Goto
    <3>3. RowWritten(p)'
      BY <1>c, <2>0, <2>1, <2>3, <3>2 DEF RowWritten, IsMulti
    <3> QED
      BY <2>0, <2>1, <3>2, <3>3, OwnerMatch
  <2>4. CASE \E b : row' = [row EXCEPT ![ch[p]] = b] /\ Goto(p, "reread")
    <3>1. /\ \A c \in Channel \ {ch[p]} : row'[c].status = row[c].status
          /\ at'[p] = "reread"
      BY <1>t, <2>4 DEF Goto
    <3>2. RowWritten(p)'
      BY <3>1 DEF RowWritten
    <3> QED
      BY <2>0, <2>1, <3>1, <3>2, OwnerMatch
  <2> QED
    BY <1>4, <2>0, <2>2, <2>3, <2>4, Zenon DEF ManagerSave
<1>5. CASE EditorSave(p)
  BY <1>5, ChannelStatusAssumption DEF EditorSave, Admin
<1>6. CASE RereadRow(p)
  <2>1. /\ row' = row /\ ability' = ability /\ ch' = ch /\ at[p] = "reread"
        /\ read'[p] = row[ch[p]] /\ at'[p] = "ability"
    BY <1>6, <1>t DEF RereadRow, SetRead, Goto, dbVars
  <2>2. CASE p \in Manager
    <3>1. p \notin Failure \cup Tester /\ lock[ch[p]] = p /\ IsMulti(p)
      BY <1>i, <2>1, <2>2, ChannelStatusAssumption DEF OwnsLock, InRole, Admin
    <3>2. RowWritten(p)'
      BY <1>c, <2>1, <3>1 DEF RowWritten, IsMulti
    <3> QED
      BY <2>1, <2>2, <3>1, <3>2, OwnerMatch
  <2>3. CASE p \notin Manager
    BY <1>i, <2>1, <2>3, QuietMatch DEF InRole, Quiet
  <2> QED
    BY <2>2, <2>3
<1>7. CASE AdminAbility(p)
  <2>0. p \in Manager /\ p \notin Failure \cup Tester \cup Flaky \cup Tagger
    BY <1>7, ChannelStatusAssumption DEF AdminAbility, Admin
  <2> DEFINE on == IF IsMulti(p) THEN read[p].status = "enabled" ELSE want[p] = "enabled"
  <2>1. /\ ability' = [c \in Channel |-> IF c = ch[p] THEN on ELSE ability[c]]
        /\ row' = row /\ ch' = ch /\ at'[p] = "find" /\ at[p] = "ability" /\ lock[ch[p]] = p
    BY <1>7, <1>i, <1>t, <2>0 DEF AdminAbility, OwnsLock, Goto, jobVars
  <2>2. RowWritten(p)'
    BY <2>1 DEF RowWritten
  <2>3. MatchOf(ch[p])'
    BY <1>i, <1>t, <2>0, <2>1 DEF RowWritten, MatchOf
  <2>4. \A c \in Channel \ {ch[p]} : row'[c].status = row[c].status /\ ability'[c] = ability[c]
    BY <2>1, <1>t
  <2> QED
    BY <2>0, <2>1, <2>2, <2>3, <2>4, OwnerMatch
<1> QED
  BY <1>1, <1>2, <1>3, <1>4, <1>5, <1>6, <1>7 DEF Advance, UpdateChannelStatus

LEMMA InitMatch == Init => MatchInv
<1> SUFFICES ASSUME Init
             PROVE  /\ \A p \in Proc : RowWritten(p)
                    /\ \A c \in Channel : MatchOf(c)
  BY DEF MatchInv
<1>1. \A p \in Proc : at[p] # "ability"
  BY DEF Init
<1> QED
  BY <1>1 DEF Init, RowWritten, MatchOf, NewRow, Admin, Proc

LEMMA MatchNext == TypeInv /\ LockInv /\ MatchInv /\ [Next]_vars => MatchInv'
<1> SUFFICES ASSUME TypeInv, LockInv, MatchInv, [Next]_vars, MemoryCache', Calm'
             PROVE  /\ \A q \in Proc : RowWritten(q)'
                    /\ \A c \in Channel : Between(c)' \/ MatchOf(c)'
  BY DEF MatchInv
<1>1. ASSUME NEW p \in Proc, Arrive(p) \/ Advance(p)
      PROVE  /\ \A q \in Proc : RowWritten(q)'
             /\ \A c \in Channel : Between(c)' \/ MatchOf(c)'
  <2>1. Frame(p)
    BY <1>1, ArriveFrame, AdvanceFrame
  <2>2. Calm /\ p \notin (Tagger \cup Editor \cup Flaky) \ Ticker
    BY <1>1, <2>1, CalmBefore
  <2>3. MemoryCache
    BY <2>1 DEF Frame, MemoryCache
  <2>4. /\ \A q \in Proc : RowWritten(q)
        /\ \A c \in Channel : Between(c) \/ MatchOf(c)
    BY <2>2, <2>3 DEF MatchInv
  <2>5. p \notin Tagger
    BY <1>1, <2>2, ChannelStatusAssumption DEF Admin
  <2>6. CASE Arrive(p)
    BY <2>1, <2>4, <2>5, <2>6, ArriveQuiet, QuietMatch
  <2>7. CASE Advance(p)
    BY <2>1, <2>2, <2>3, <2>4, <2>7, AdvanceMatch
  <2> QED
    BY <1>1, <2>6, <2>7
<1>2. CASE UNCHANGED vars
  <2>1. MemoryCache /\ Calm
    BY <1>2 DEF vars, MemoryCache, Calm, Waiting
  <2> QED
    BY <1>2, <2>1 DEF vars, dbVars, jobVars, MatchInv, RowWritten, Between, MatchOf, IsMulti,
                      MultiKey
<1> QED
  BY <1>1, <1>2 DEF Next

(* Once nobody is at work, nobody is between a row and its abilities.      *)
LEMMA MatchSuffices == ASSUME TypeInv, MatchInv PROVE AbilitiesMatch
<1> SUFFICES ASSUME MemoryCache, Resting, Tagger \cup Editor \cup Flaky \subseteq Waiting,
                    NEW c \in Channel
             PROVE  MatchOf(c)
  BY DEF AbilitiesMatch, MatchOf
<1>1. Calm
  BY DEF Calm
<1>2. ~Between(c)
  BY ChannelStatusAssumption DEF Between, Resting, Waiting, Proc, Admin
<1> QED
  BY <1>1, <1>2 DEF MatchInv

(* With the memory cache on, status changes by failing requests, by tests  *)
(* and by key managers, in any number and any order on any channels, leave *)
(* the abilities of every channel as its row says once they have returned: *)
(* the mutex of UpdateChannelStatus covers both tables.                    *)
THEOREM AbilitiesAgree == Spec => []AbilitiesMatch
<1>1. Init => TypeInv /\ LockInv /\ MatchInv
  BY InitType, InitLock, InitMatch
<1>2. TypeInv /\ LockInv /\ MatchInv /\ [Next]_vars => (TypeInv /\ LockInv /\ MatchInv)'
  BY TypeNext, LockNext, MatchNext
<1>3. TypeInv /\ LockInv /\ MatchInv => AbilitiesMatch
  BY MatchSuffices
<1> QED
  BY <1>1, <1>2, <1>3, PTL DEF Spec

-----------------------------------------------------------------------------
LEMMA RoutableNext == TypeInv /\ RoutableEnabled /\ [Next]_vars => RoutableEnabled'
<1> SUFFICES ASSUME TypeInv, RoutableEnabled, [Next]_vars PROVE RoutableEnabled'
  OBVIOUS
<1>1. CASE UNCHANGED <<site, cacheVars>>
  BY <1>1 DEF RoutableEnabled, cacheVars, MultiKey
<1>2. ASSUME NEW p \in Proc, Arrive(p) PROVE UNCHANGED <<site, cacheVars>>
  BY <1>2 DEF Arrive, RequestFailed, ManageKey, ListChannel, TagRows, EditChannel, PickChannel
<1>3. ASSUME NEW p \in Proc, Advance(p), CheckCache(p) PROVE RoutableEnabled'
  <2>1. site' = site /\ routable' = routable
    BY <1>3 DEF Advance, CheckCache
  <2>2. CASE IsMulti(p)
    <3>1. \A c \in Channel : c \notin MultiKey => cache'[c] = cache[c]
      BY <1>3, <2>2 DEF CheckCache, IsMulti, TypeInv, TypeOK
    <3> QED
      BY <2>1, <3>1 DEF RoutableEnabled, MultiKey, TypeInv, TypeOK
  <2>3. CASE ~IsMulti(p)
    BY <1>3, <2>1, <2>3 DEF CheckCache, RoutableEnabled, MultiKey
  <2> QED
    BY <2>2, <2>3
<1>4. ASSUME NEW p \in Proc, Advance(p), MarkCache(p) PROVE RoutableEnabled'
  <2>0. /\ site' = site /\ ch[p] \in Channel /\ want[p] \in Status
        /\ cache \in [Channel -> Row \cup {Gone}] /\ routable \subseteq Channel
    BY <1>4 DEF Advance, TypeInv, TypeOK
  <2>1. cache[ch[p]] # Gone => [cache[ch[p]] EXCEPT !.status = want[p]].status = want[p]
    BY <2>0, RowWithStatus
  <2>2. cache' = IF cache[ch[p]] = Gone THEN cache
                 ELSE [cache EXCEPT ![ch[p]] = [cache[ch[p]] EXCEPT !.status = want[p]]]
    BY <1>4 DEF MarkCache
  <2>3. routable' = IF want[p] = "enabled" THEN routable ELSE routable \ {ch[p]}
    BY <1>4 DEF MarkCache
  <2>4. ASSUME NEW c \in routable' \ MultiKey' PROVE cache'[c].status = "enabled"
    <3>1. c \in routable \ MultiKey /\ c \in Channel /\ cache[c].status = "enabled"
      BY <2>0, <2>3 DEF MultiKey, RoutableEnabled
    <3>2. CASE c = ch[p] /\ want[p] = "enabled"
      BY <2>0, <2>1, <2>2, <3>1, <3>2
    <3>3. CASE c # ch[p]
      BY <2>0, <2>2, <3>1, <3>3
    <3> QED
      BY <2>3, <3>2, <3>3
  <2> QED
    BY <2>4 DEF RoutableEnabled
<1>5. ASSUME NEW p \in Proc, Advance(p), SwapCache(p) PROVE RoutableEnabled'
  BY <1>1, <1>5 DEF Advance, SwapCache, RoutableEnabled, Enabled
<1>6. ASSUME NEW p \in Proc, Advance(p), ~CheckCache(p), ~MarkCache(p), ~SwapCache(p)
      PROVE  UNCHANGED <<site, cacheVars>>
  BY <1>6 DEF Advance, UpdateChannelStatus, TestChannel, LockChannel, LoadRow, RelockChannel,
              SaveRow, UpdateAbility, ManagerLock, ManagerSave, EditorSave, RereadRow,
              AdminAbility, FindRows, TakeKey
<1>7. CASE UNCHANGED vars
  BY <1>1, <1>7 DEF vars
<1> QED
  BY <1>1, <1>2, <1>3, <1>4, <1>5, <1>6, <1>7 DEF Next

(* Requests are routed to a single-key channel only while the node knows   *)
(* it as enabled, however CacheUpdateChannelStatus, the ticker's and the   *)
(* administrators' InitChannelCache interleave, with failing reads too.    *)
THEOREM RoutesEnabledOnly == Spec => []RoutableEnabled
<1>1. Init => TypeInv /\ RoutableEnabled
  BY InitType DEF Init, RoutableEnabled, NewRow
<1>2. TypeInv /\ RoutableEnabled /\ [Next]_vars => (TypeInv /\ RoutableEnabled)'
  BY TypeNext, RoutableNext
<1> QED
  BY <1>1, <1>2, PTL DEF Spec

(* Every variable keeps its type: no row, and no cached object requests    *)
(* are routed by, is ever without a status, although InitChannelCache does *)
(* not look at the error of its query.                                     *)
THEOREM TypeCorrect == Spec => [](TypeOK /\ RoutableKnown)
BY AlwaysTyped, PTL DEF TypeInv
=============================================================================
