------------------------ MODULE ChannelSelectProofs ------------------------
(***************************************************************************)
(* For any number of groups, levels and retries: the number of attempts of *)
(* a request is bounded, mapRetryToPriorityIndex is a sound schedule, and  *)
(* while the channels stay as they are the attempts go down the levels,    *)
(* exhaust a group before the next and end when everything was tried.      *)
(***************************************************************************)
EXTENDS ChannelSelect, FiniteSetTheorems, TLAPS

PerGroup == RetryTimes + 1

(* What the groups before n may have used.                                 *)
Spent(n) == (n - 1) * PerGroup

ParamsOK ==
    /\ phase \in {"distribute", "select", "relay", "end"}
    /\ idx \in 1..(Groups + 1)
    /\ retry \in 0..RetryTimes
    /\ attempts \in Nat

(* The flag is pending only while the group's last attempt is under way.   *)
ResetOK ==
    /\ reset \in BOOLEAN
    /\ phase \in {"distribute", "select"} => reset = FALSE

(* The group index and the counter account for every attempt made so far:  *)
(* the attempts of this group are at most the counter, plus the one under  *)
(* way unless it was the group's last.                                     *)
CounterOK ==
    /\ phase = "distribute" => attempts = 0 /\ retry = 0
    /\ phase = "select" => attempts <= Spent(idx) + retry
    /\ phase = "relay" /\ reset = FALSE => attempts <= Spent(idx) + retry + 1
    /\ phase = "relay" /\ reset = TRUE => attempts <= Spent(idx) + retry

IInv == ParamsOK /\ ResetOK /\ CounterOK /\ AttemptsBounded

-----------------------------------------------------------------------------
(* What mapRetryToPriorityIndex returns is an index into the sorted        *)
(* priorities: the two callers never index out of range.                   *)
THEOREM MapInRange ==
    ASSUME NEW try \in Int, NEW n \in Nat \ {0}, NEW total \in Int
    PROVE  mapRetryToPriorityIndex(try, n, total) \in 0..(n - 1)
BY DEF mapRetryToPriorityIndex, AtLeast, AtMost

(* Later tries never go to a higher priority than earlier ones.            *)
THEOREM MapDescends ==
    ASSUME NEW try \in Int, NEW later \in Int, try <= later,
           NEW n \in Nat \ {0}, NEW total \in Int
    PROVE  mapRetryToPriorityIndex(try, n, total)
              <= mapRetryToPriorityIndex(later, n, total)
BY DEF mapRetryToPriorityIndex, AtLeast, AtMost

(* With at least as many tries as priorities, every priority is the target *)
(* of one of them, and all but the first of exactly one.                   *)
THEOREM MapCovers ==
    ASSUME NEW n \in Nat \ {0}, NEW total \in Nat, total >= n, NEW p \in 0..(n - 1)
    PROVE  /\ \E try \in 0..(total - 1) : mapRetryToPriorityIndex(try, n, total) = p
           /\ \A s, t \in 0..(total - 1) :
                 /\ p # 0
                 /\ mapRetryToPriorityIndex(s, n, total) = p
                 /\ mapRetryToPriorityIndex(t, n, total) = p
                 => s = t
<1>1. total - n + p \in 0..(total - 1)
  OBVIOUS
<1>2. mapRetryToPriorityIndex(total - n + p, n, total) = p
  BY DEF mapRetryToPriorityIndex, AtLeast, AtMost
<1>3. \A s, t \in 0..(total - 1) :
         /\ p # 0
         /\ mapRetryToPriorityIndex(s, n, total) = p
         /\ mapRetryToPriorityIndex(t, n, total) = p
         => s = t
  BY DEF mapRetryToPriorityIndex, AtLeast, AtMost
<1> QED
  BY <1>1, <1>2, <1>3

-----------------------------------------------------------------------------
LEMMA SpentGrows ==
    ASSUME NEW m \in Nat, NEW n \in Nat, m >= 1, m <= n
    PROVE  /\ Spent(m) \in Nat
           /\ Spent(m + 1) = Spent(m) + PerGroup
           /\ Spent(m) <= Spent(n)
<1> USE ChannelSelectAssumption
<1>1. PerGroup \in Nat
  BY DEF PerGroup
<1>2. \A a, b, k \in Nat : a <= b => a * k <= b * k /\ a * k \in Nat
  OBVIOUS
<1>3. \A a, k \in Nat : (a + 1) * k = a * k + k
  OBVIOUS
<1>4. /\ m - 1 \in Nat /\ n - 1 \in Nat /\ m - 1 <= n - 1
      /\ (m + 1) - 1 = (m - 1) + 1
  OBVIOUS
<1>5. (m - 1) * PerGroup <= (n - 1) * PerGroup /\ (m - 1) * PerGroup \in Nat
  BY <1>1, <1>2, <1>4
<1>6. ((m + 1) - 1) * PerGroup = (m - 1) * PerGroup + PerGroup
  BY <1>1, <1>3, <1>4
<1> QED
  BY <1>5, <1>6 DEF Spent

(* A selection that stops at group g adds an attempt the books have room   *)
(* for, whether the group is the same as before or a later one.            *)
LEMMA RoomForOne ==
    ASSUME NEW i \in 1..(Groups + 1), NEW r \in 0..RetryTimes, NEW a \in Nat,
           a <= Spent(i) + r, NEW g \in Group, g >= i
    PROVE  /\ a + 1 <= Spent(g + 1)
           /\ a + 1 <= Spent(g) + (IF g > i THEN 0 ELSE r) + 1
           /\ a + 1 <= Groups * PerGroup
<1> USE ChannelSelectAssumption
<1>1. i \in Nat /\ i >= 1 /\ g \in Nat /\ g >= 1 /\ g <= Groups
  BY DEF Group
<1>2. Spent(i + 1) = Spent(i) + PerGroup /\ Spent(i) \in Nat /\ Spent(i) <= Spent(g)
  BY <1>1, SpentGrows
<1>3. Spent(g + 1) = Spent(g) + PerGroup /\ Spent(g) \in Nat
  BY <1>1, SpentGrows
<1>4. Spent(i + 1) <= Spent(g + 1)
  BY <1>1, SpentGrows
<1>5. g > i => Spent(i + 1) <= Spent(g)
  BY <1>1, SpentGrows
<1>6. Spent(g + 1) <= Spent(Groups + 1)
  BY <1>1, SpentGrows
<1>7. Spent(Groups + 1) = Groups * PerGroup
  BY DEF Spent, PerGroup
<1>8. PerGroup \in Nat /\ PerGroup = RetryTimes + 1 /\ r + 1 <= PerGroup
  BY DEF PerGroup
<1>9. Spent(Groups + 1) \in Nat /\ Spent(g + 1) \in Nat /\ Spent(i + 1) \in Nat
  BY <1>1, SpentGrows
<1>10. a + 1 <= Spent(i + 1)
  BY <1>2, <1>8
<1> HIDE DEF Group
<1>11. a + 1 <= Spent(g + 1)
  BY <1>4, <1>9, <1>10
<1>12. a + 1 <= Groups * PerGroup
  BY <1>6, <1>7, <1>9, <1>11
<1>13. a + 1 <= Spent(g) + (IF g > i THEN 0 ELSE r) + 1
  <2>1. CASE g > i
    BY <2>1, <1>3, <1>5, <1>9, <1>10
  <2>2. CASE ~(g > i)
    BY <2>2, <1>1, <1>2, <1>3
  <2> QED
    BY <2>1, <2>2
<1> QED
  BY <1>11, <1>12, <1>13

LEMMA InitInv == Init => IInv
<1> USE ChannelSelectAssumption
<1>1. \A m, k \in Nat : m * k \in Nat
  OBVIOUS
<1>2. Groups * (RetryTimes + 1) \in Nat
  BY <1>1
<1> QED
  <2> SUFFICES ASSUME Init PROVE IInv
    OBVIOUS
  <2>1. ParamsOK
    BY DEF Init, ParamsOK
  <2>2. CounterOK /\ ResetOK
    BY DEF Init, CounterOK, ResetOK
  <2>3. AttemptsBounded
    BY <1>2 DEF Init, AttemptsBounded
  <2> QED
    BY <2>1, <2>2, <2>3 DEF IInv

(* The first attempt fits whatever the group it is made in.                *)
LEMMA FirstAttempt ==
    ASSUME NEW i \in 1..(Groups + 1)
    PROVE  1 <= Spent(i) + 1 /\ 1 <= Groups * (RetryTimes + 1)
<1> USE ChannelSelectAssumption
<1>1. i \in Nat /\ i >= 1 /\ Spent(i) \in Nat
  BY SpentGrows
<1>2. \A m, k \in Nat \ {0} : m * k >= 1
  OBVIOUS
<1>3. RetryTimes + 1 \in Nat \ {0}
  OBVIOUS
<1> QED
  BY <1>1, <1>2, <1>3

(* The parts of the invariant that are about numbers.                      *)
Books == ParamsOK /\ CounterOK /\ AttemptsBounded

LEMMA NextReset == IInv /\ [Next]_vars => ResetOK'
<1> SUFFICES ASSUME IInv, [Next]_vars PROVE ResetOK'
  OBVIOUS
<1> USE DEF IInv, ResetOK
<1>1. ASSUME NEW g \in Group, Distribute(g) PROVE ResetOK'
  BY <1>1, Zenon DEF Distribute, Record
<1>2. CASE DistributeNone \/ DistributePreferred
  BY <1>2, Zenon DEF DistributeNone, DistributePreferred, Record, End, paramVars
<1>3. ASSUME NEW g \in Group, Select(g) PROVE ResetOK'
  <2>1. phase' = "relay" /\ reset' \in BOOLEAN
    BY <1>3, Zenon DEF Select, Record
  <2> QED
    BY <2>1
<1>4. CASE SelectNone \/ Answered \/ FailsForGood
  <2>1. phase' = "end" /\ reset' = reset
    BY <1>4, Zenon DEF SelectNone, Answered, FailsForGood, End, paramVars
  <2> QED
    BY <2>1
<1>5. CASE Fails
  BY <1>5, Zenon DEF Fails, IncreaseRetry, End
<1>6. CASE (\E g \in Group : Change(g)) \/ Ended \/ UNCHANGED vars
  BY <1>6, Zenon DEF Change, Ended, vars, paramVars
<1> QED
  BY <1>1, <1>2, <1>3, <1>4, <1>5, <1>6, Zenon DEF Next

(* The first attempt, whatever becomes of the group index.                 *)
LEMMA DistributeBooks ==
    ASSUME IInv, phase = "distribute", attempts' = attempts + 1, phase' = "relay",
           idx' \in 1..(Groups + 1), retry' = retry, reset' = reset
    PROVE  Books'
<1> USE ChannelSelectAssumption
<1>1. attempts' = 1 /\ retry' = 0 /\ reset' = FALSE
  BY DEF IInv, ParamsOK, ResetOK, CounterOK
<1>2. 1 <= Spent(idx') + 1 /\ 1 <= Groups * (RetryTimes + 1)
  BY FirstAttempt
<1>3. Spent(idx') \in Nat
  BY SpentGrows
<1>4. ParamsOK' /\ AttemptsBounded'
  BY <1>1, <1>2 DEF ParamsOK, AttemptsBounded
<1>5. CounterOK'
  BY <1>1, <1>2, <1>3 DEF CounterOK, Spent
<1> QED
  BY <1>4, <1>5 DEF Books

(* A retry that stops at g.                                                *)
LEMMA SelectBooks ==
    ASSUME IInv, phase = "select", attempts' = attempts + 1, phase' = "relay",
           NEW g \in Group, g >= idx,
           \/ idx' = g + 1 /\ retry' = 0 /\ reset' = TRUE
           \/ idx' = g /\ retry' = TryIn(g, retry) /\ reset' = FALSE
    PROVE  Books'
<1> USE ChannelSelectAssumption
<1>1. /\ attempts \in Nat /\ attempts <= Spent(idx) + retry
      /\ idx \in 1..(Groups + 1) /\ retry \in 0..RetryTimes
  BY DEF IInv, ParamsOK, CounterOK
<1>2. /\ attempts' <= Spent(g + 1)
      /\ attempts' <= Spent(g) + TryIn(g, retry) + 1
      /\ attempts' <= Groups * PerGroup
  BY <1>1, RoomForOne DEF TryIn
<1>3. AttemptsBounded'
  BY <1>2 DEF AttemptsBounded, PerGroup
<1>4. TryIn(g, retry) \in 0..RetryTimes
  BY <1>1 DEF TryIn
<1>5. g \in Nat /\ g >= 1 /\ g <= Groups /\ attempts' \in Nat
  BY <1>1 DEF Group
<1>6. Spent(g) \in Nat /\ Spent(g + 1) \in Nat
  BY <1>5, SpentGrows
<1>7. CASE idx' = g + 1 /\ retry' = 0 /\ reset' = TRUE
  <2>1. ParamsOK'
    BY <1>5, <1>7 DEF ParamsOK
  <2>2. Spent(g + 1) = Spent(g + 1) + 0
    BY <1>6
  <2>3. attempts' <= Spent(idx') + retry'
    BY <1>2, <1>7, <2>2
  <2>4. CounterOK'
    BY <1>7, <2>3, Zenon DEF CounterOK, Spent
  <2> QED
    BY <1>3, <2>1, <2>4 DEF Books
<1>8. CASE idx' = g /\ retry' = TryIn(g, retry) /\ reset' = FALSE
  <2>1. ParamsOK'
    BY <1>4, <1>5, <1>8 DEF ParamsOK
  <2>2. attempts' <= Spent(idx') + retry' + 1
    BY <1>2, <1>8
  <2>3. CounterOK'
    BY <1>8, <2>2, Zenon DEF CounterOK, Spent
  <2> QED
    BY <1>3, <2>1, <2>3 DEF Books
<1> QED
  BY <1>7, <1>8

(* A failed attempt: the counter moves on, the flag is consumed, or the    *)
(* request is over.                                                        *)
LEMMA FailsBooks ==
    ASSUME IInv, Fails
    PROVE  Books'
<1> USE ChannelSelectAssumption
<1> attempts' = attempts /\ idx' = idx /\ phase = "relay"
  BY DEF Fails, historyVars
<1>1. /\ attempts \in Nat /\ Spent(idx) \in Nat
      /\ idx \in 1..(Groups + 1) /\ retry \in 0..RetryTimes
      /\ AttemptsBounded'
  BY SpentGrows DEF IInv, ParamsOK, AttemptsBounded
<1>2. CASE reset = TRUE /\ phase' = "select" /\ reset' = FALSE /\ retry' = retry
  <2>1. attempts' <= Spent(idx') + retry'
    BY <1>2, Zenon DEF IInv, CounterOK
  <2> QED
    BY <1>1, <1>2, <2>1 DEF Books, ParamsOK, CounterOK, Spent
<1>3. CASE /\ reset = FALSE /\ phase' = "select" /\ reset' = FALSE
           /\ retry < RetryTimes /\ retry' = retry + 1
  <2>1. attempts <= Spent(idx) + retry + 1
    BY <1>3, Zenon DEF IInv, CounterOK
  <2>2. attempts' <= Spent(idx') + retry'
    BY <1>1, <1>3, <2>1
  <2> QED
    BY <1>1, <1>3, <2>2 DEF Books, ParamsOK, CounterOK, Spent
<1>4. CASE phase' = "end" /\ retry' = retry
  BY <1>1, <1>4 DEF Books, ParamsOK, CounterOK
<1> QED
  <2>1. reset = TRUE \/ reset = FALSE
    BY DEF IInv, ResetOK
  <2> QED
    BY <1>2, <1>3, <1>4, <2>1, Zenon DEF Fails, IncreaseRetry, End

LEMMA NextBooks == IInv /\ [Next]_vars => Books'
<1> SUFFICES ASSUME IInv, [Next]_vars PROVE Books'
  OBVIOUS
<1> USE ChannelSelectAssumption
<1>1. ASSUME NEW g \in Group, Distribute(g) PROVE Books'
  <2>1. idx' \in {g + 1, g, idx}
    BY <1>1, Zenon DEF Distribute, Kept
  <2>2. idx' \in 1..(Groups + 1)
    BY <2>1 DEF IInv, ParamsOK, Group
  <2>3. /\ phase = "distribute" /\ phase' = "relay" /\ attempts' = attempts + 1
        /\ retry' = retry /\ reset' = reset
    BY <1>1, Zenon DEF Distribute, Record
  <2> QED
    BY <2>2, <2>3, DistributeBooks
<1>2. CASE DistributePreferred
  <2>1. /\ phase = "distribute" /\ phase' = "relay" /\ attempts' = attempts + 1
        /\ idx' = idx /\ retry' = retry /\ reset' = reset
    BY <1>2, Zenon DEF DistributePreferred, paramVars
  <2> QED
    BY <2>1, DistributeBooks DEF IInv, ParamsOK
<1>3. ASSUME NEW g \in Group, Select(g) PROVE Books'
  <2>1. phase = "select" /\ phase' = "relay" /\ attempts' = attempts + 1 /\ g >= idx
    BY <1>3, Zenon DEF Select, Record, StopsAt
  <2>2. Kept(g) = g
    <3>1. g \in Usable
      BY <1>3, Zenon DEF Select, StopsAt
    <3> QED
      BY <2>1, <3>1 DEF Kept, Usable, Group, IInv, ParamsOK
  <2>3. reset = FALSE
    BY <2>1 DEF IInv, ResetOK
  <2>4. \/ idx' = g + 1 /\ retry' = 0 /\ reset' = TRUE
        \/ idx' = g /\ retry' = TryIn(g, retry) /\ reset' = FALSE
    <3>1. CASE Exhausted(g, retry)
      BY <1>3, <3>1, Zenon DEF Select
    <3>2. CASE ~Exhausted(g, retry)
      <4>1. idx' = Kept(g) /\ retry' = TryIn(g, retry) /\ reset' = reset
        BY <1>3, <3>2, Zenon DEF Select
      <4>2. idx' = g
        BY <4>1, <2>2
      <4> QED
        BY <4>1, <4>2, <2>3
    <3> QED
      BY <3>1, <3>2
  <2> QED
    BY <2>1, <2>4, SelectBooks
<1>4. CASE DistributeNone \/ SelectNone \/ Answered \/ FailsForGood
  <2>1. /\ phase' = "end" /\ attempts' = attempts
        /\ idx' \in {Groups + 1, idx} /\ retry' \in {0, retry}
    BY <1>4, Zenon DEF DistributeNone, SelectNone, Answered, FailsForGood, End,
                       paramVars, historyVars
  <2> QED
    BY <2>1 DEF IInv, Books, ParamsOK, CounterOK, AttemptsBounded
<1>5. CASE Fails
  BY <1>5, FailsBooks
<1>6. CASE (\E g \in Group : Change(g)) \/ Ended \/ UNCHANGED vars
  <2>1. UNCHANGED <<phase, idx, retry, reset, attempts>>
    BY <1>6, Zenon DEF Change, Ended, vars, paramVars, historyVars
  <2> QED
    BY <2>1, Zenon DEF IInv, Books, ParamsOK, CounterOK, AttemptsBounded, Spent
<1> QED
  BY <1>1, <1>2, <1>3, <1>4, <1>5, <1>6, Zenon DEF Next

LEMMA NextInv == IInv /\ [Next]_vars => IInv'
BY NextReset, NextBooks DEF IInv, Books

(* The counter and the group index always account for the attempts made.   *)
THEOREM Invariance == Spec => []IInv
BY InitInv, NextInv, PTL DEF Spec

(* The loop of Relay sends a request upstream at most RetryTimes + 1 times *)
(* per group, for any number of groups and any setting of RetryTimes.      *)
THEOREM Bounded == Spec => []AttemptsBounded
<1>1. IInv => AttemptsBounded
  BY DEF IInv
<1> QED
  BY <1>1, Invariance, PTL

-----------------------------------------------------------------------------
(* The level GetRandomSatisfiedChannel picks from the levels s.            *)
LevelAt(s, try) ==
    CHOOSE l \in s : Cardinality({m \in s : m < l})
                        = mapRetryToPriorityIndex(try, Cardinality(s), RetryTimes + 1)

(* The place of a level among the levels s, the highest being 0.           *)
Rank(s, l) == Cardinality({m \in s : m < l})

LEMMA RankGrows ==
    ASSUME NEW s \in SUBSET Nat, IsFiniteSet(s), NEW k \in s, NEW l \in s
    PROVE  /\ Rank(s, k) \in 0..(Cardinality(s) - 1)
           /\ k < l => Rank(s, k) < Rank(s, l)
<1> DEFINE Below(x) == {m \in s : m < x}
<1>1. \A x \in s : /\ Below(x) \in SUBSET s /\ IsFiniteSet(Below(x))
                   /\ Cardinality(Below(x)) \in Nat
                   /\ Cardinality(Below(x)) <= Cardinality(s)
                   /\ x \notin Below(x)
  <2> TAKE x \in s
  <2>1. Below(x) \in SUBSET s /\ x \notin Below(x)
    OBVIOUS
  <2> HIDE DEF Below
  <2> QED
    BY <2>1, FS_Subset, FS_CardinalityType
<1>2. Cardinality(Below(k)) # Cardinality(s)
  <2>1. Below(k) # s
    BY <1>1
  <2> HIDE DEF Below
  <2> QED
    BY <1>1, <2>1, FS_Subset
<1>3. k < l => Cardinality(Below(k)) < Cardinality(Below(l))
  <2> HAVE k < l
  <2>0. \A x \in s : x < k => x < l
    <3>1. \A x \in s : x \in Nat
      OBVIOUS
    <3>2. \A x \in Nat : x < k => x < l
      BY <3>1
    <3> QED
      BY <3>1, <3>2
  <2>1. Below(k) \in SUBSET Below(l) /\ k \in Below(l)
    BY <2>0, Zenon
  <2> HIDE DEF Below
  <2>2. Cardinality(Below(k)) <= Cardinality(Below(l)) /\ Below(k) # Below(l)
    BY <1>1, <2>1, FS_Subset
  <2>3. Cardinality(Below(l)) # Cardinality(Below(k))
    BY <1>1, <2>1, <2>2, FS_Subset
  <2> QED
    BY <1>1, <2>2, <2>3
<1>4. Rank(s, k) = Cardinality(Below(k)) /\ Rank(s, l) = Cardinality(Below(l))
  BY DEF Rank
<1>5. Cardinality(s) \in Nat
  BY FS_CardinalityType
<1> HIDE DEF Below
<1> QED
  BY <1>1, <1>2, <1>3, <1>4, <1>5

(* Every index into the sorted levels is the place of one of them.         *)
LEMMA RankCovers ==
    ASSUME NEW s \in SUBSET Nat, IsFiniteSet(s), NEW n \in 0..(Cardinality(s) - 1)
    PROVE  \E l \in s : Rank(s, l) = n
<1> DEFINE c == Cardinality(s)
           f == [l \in s |-> Rank(s, l)]
<1>1. c \in Nat
  BY FS_CardinalityType
<1>2. IsFiniteSet(0..(c - 1)) /\ Cardinality(0..(c - 1)) = c
  <2> HIDE DEF c
  <2> QED
    BY <1>1, FS_Interval
<1>3. f \in [s -> 0..(c - 1)]
  BY RankGrows
<1>4. \A k, l \in s : Rank(s, k) = Rank(s, l) => k = l
  <2> SUFFICES ASSUME NEW k \in s, NEW l \in s, k # l PROVE Rank(s, k) # Rank(s, l)
    OBVIOUS
  <2>1. k < l \/ l < k
    OBVIOUS
  <2>2. Rank(s, k) \in Int /\ Rank(s, l) \in Int
    BY RankGrows
  <2>3. k < l => Rank(s, k) < Rank(s, l)
    BY RankGrows
  <2>4. l < k => Rank(s, l) < Rank(s, k)
    BY RankGrows
  <2> QED
    BY <2>1, <2>2, <2>3, <2>4
<1>5. f \in Injection(s, 0..(c - 1))
  BY <1>3, <1>4 DEF Injection, IsInjective
<1> HIDE DEF f, c
<1>6. f \in Surjection(s, 0..(c - 1))
  <2>1. Cardinality(s) = Cardinality(0..(c - 1))
    BY <1>2 DEF c
  <2> QED
    BY <1>2, <1>5, <2>1, FS_Injection
<1>7. \E l \in s : f[l] = n
  BY <1>6 DEF Surjection, c
<1> QED
  BY <1>7 DEF f

(* What GetRandomSatisfiedChannel picks is one of the levels, at the index *)
(* that mapRetryToPriorityIndex returns.                                   *)
LEMMA LevelIn ==
    ASSUME NEW s \in SUBSET Nat, IsFiniteSet(s), s # {}, NEW t \in Nat
    PROVE  /\ LevelAt(s, t) \in s
           /\ Rank(s, LevelAt(s, t))
                 = mapRetryToPriorityIndex(t, Cardinality(s), RetryTimes + 1)
<1> DEFINE n == mapRetryToPriorityIndex(t, Cardinality(s), RetryTimes + 1)
<1>1. Cardinality(s) \in Nat \ {0}
  BY FS_CardinalityType, FS_EmptySet
<1>2. n \in 0..(Cardinality(s) - 1)
  <2>1. t \in Int /\ RetryTimes + 1 \in Int
    BY ChannelSelectAssumption
  <2> QED
    BY <1>1, <2>1, MapInRange
<1> HIDE DEF n
<1>3. \E l \in s : Cardinality({m \in s : m < l}) = n
  BY <1>2, RankCovers DEF Rank
<1>4. LevelAt(s, t) = CHOOSE l \in s : Cardinality({m \in s : m < l}) = n
  BY DEF LevelAt, n
<1>5. LevelAt(s, t) \in s /\ Cardinality({m \in s : m < LevelAt(s, t)}) = n
  BY <1>3, <1>4
<1> QED
  BY <1>5 DEF Rank, n

(* A later try never gets a higher level.                                  *)
LEMMA LevelDescends ==
    ASSUME NEW s \in SUBSET Nat, IsFiniteSet(s), s # {},
           NEW t \in Nat, NEW u \in Nat, t <= u
    PROVE  LevelAt(s, t) <= LevelAt(s, u)
<1>1. Cardinality(s) \in Nat \ {0}
  BY FS_CardinalityType, FS_EmptySet
<1>2. LevelAt(s, t) \in s /\ LevelAt(s, u) \in s
  BY LevelIn
<1>3. Rank(s, LevelAt(s, t)) <= Rank(s, LevelAt(s, u))
  BY <1>1, LevelIn, MapDescends, ChannelSelectAssumption
<1>4. LevelAt(s, u) < LevelAt(s, t) => Rank(s, LevelAt(s, u)) < Rank(s, LevelAt(s, t))
  BY <1>2, RankGrows
<1>5. Rank(s, LevelAt(s, t)) \in Int /\ Rank(s, LevelAt(s, u)) \in Int
  <2>1. /\ Rank(s, LevelAt(s, t)) \in 0..(Cardinality(s) - 1)
        /\ Rank(s, LevelAt(s, u)) \in 0..(Cardinality(s) - 1)
    BY <1>2, RankGrows, Zenon
  <2> QED
    BY <1>1, <2>1
<1>6. LevelAt(s, t) \in Nat /\ LevelAt(s, u) \in Nat
  BY <1>2
<1> QED
  BY <1>3, <1>4, <1>5, <1>6

(* With a try for each level, each level is the target of a try.           *)
LEMMA LevelsCovered ==
    ASSUME NEW s \in SUBSET Nat, IsFiniteSet(s), NEW l \in s,
           Cardinality(s) <= RetryTimes + 1
    PROVE  \E t \in 0..RetryTimes : LevelAt(s, t) = l
<1> USE ChannelSelectAssumption
<1>1. Cardinality(s) \in Nat \ {0}
  BY FS_CardinalityType, FS_EmptySet
<1>2. Rank(s, l) \in 0..(Cardinality(s) - 1)
  BY RankGrows
<1>3. PICK t \in 0..((RetryTimes + 1) - 1) :
          mapRetryToPriorityIndex(t, Cardinality(s), RetryTimes + 1) = Rank(s, l)
  <2>1. RetryTimes + 1 \in Nat /\ RetryTimes + 1 >= Cardinality(s)
    BY <1>1
  <2> QED
    BY <1>1, <1>2, <2>1, MapCovers
<1>4. t \in 0..RetryTimes /\ t \in Nat
  OBVIOUS
<1>5. LevelAt(s, t) \in s /\ Rank(s, LevelAt(s, t)) = Rank(s, l)
  BY <1>3, <1>4, LevelIn
<1>6. /\ LevelAt(s, t) < l => Rank(s, LevelAt(s, t)) < Rank(s, l)
      /\ l < LevelAt(s, t) => Rank(s, l) < Rank(s, LevelAt(s, t))
  BY <1>5, RankGrows
<1>7. LevelAt(s, t) \in Nat /\ l \in Nat /\ Rank(s, l) \in Int
  <2>1. LevelAt(s, t) \in Nat /\ l \in Nat
    BY <1>5
  <2> QED
    BY <1>1, <1>2, <2>1
<1>8. LevelAt(s, t) = l
  BY <1>5, <1>6, <1>7
<1> QED
  BY <1>4, <1>8

-----------------------------------------------------------------------------
(* The attempts of the log: group g at level l, and group g at the level   *)
(* of its try t.                                                           *)
Logged(g, l) == \E n \in DOMAIN log : log[n] = <<g, l>>
Used(g, t) == Logged(g, LevelAt(avail[g], t))

(* The group index is already past the group of the attempt under way.     *)
GroupSpent == reset = TRUE \/ (token = "cross" /\ RetryTimes = 0)

(* How many tries group idx has had.                                       *)
Tries == IF phase = "relay" /\ ~GroupSpent THEN retry + 1 ELSE retry

LogOK ==
    /\ token \in {"one", "auto", "cross"}
    /\ avail \in [Group -> SUBSET Level]
    /\ log \in Seq(Group \X Level)
    /\ steady \in BOOLEAN
    /\ steady = FALSE => log = <<>>

(* What the counter is worth in each phase.                                *)
Counting ==
    /\ phase = "distribute" => log = <<>> /\ idx = 1 /\ retry = 0
    /\ phase = "relay" /\ token = "cross" => retry < RetryTimes \/ RetryTimes = 0
    /\ token # "cross" => reset = FALSE
    /\ phase = "select" => RetryTimes > 0
    /\ phase = "select" /\ token # "cross" => retry > 0
    /\ reset = TRUE => retry = 0 /\ RetryTimes > 0
    /\ token = "cross" /\ RetryTimes = 0 => retry = 0
    /\ why = "exhausted" => phase = "end"

(* No attempt was made past group idx and the tries it has had.            *)
Behind ==
    \A g \in Group, l \in Level : Logged(g, l) =>
        /\ g \in Usable
        /\ g < idx \/ (g = idx /\ \E t \in 0..(Tries - 1) : l = LevelAt(avail[g], t))

(* Each try that group idx has had is in the log.                          *)
Current ==
    Tries > 0 => /\ idx \in Usable /\ avail[idx] # {}
                 /\ \A t \in 0..(Tries - 1) : Used(idx, t)

(* A group that was passed has had all its tries, or has no channel.       *)
Passed ==
    \A g \in Usable : g < idx /\ avail[g] # {} => \A t \in 0..RetryTimes : Used(g, t)

(* Every attempt went to a level that the group has.                       *)
Drawn == \A g \in Group, l \in Level : Logged(g, l) => l \in avail[g]

Follow == steady = TRUE /\ phase # "end" => Behind /\ Current /\ Passed /\ Drawn

OrderInv ==
    /\ LogOK /\ Counting /\ Follow
    /\ NeverClimbs /\ ExhaustsBeforeMoving /\ GivesUpLast

LEMMA ChosenIs ==
    ASSUME NEW g, NEW t PROVE Chosen(g, t) = LevelAt(avail[g], t)
BY DEF Chosen, LevelAt

LEMMA AvailFinite ==
    ASSUME LogOK, NEW g \in Group
    PROVE  avail[g] \in SUBSET Nat /\ avail[g] \in SUBSET Level /\ IsFiniteSet(avail[g])
<1>1. avail[g] \in SUBSET Level
  BY DEF LogOK
<1>2. IsFiniteSet(avail[g])
  BY <1>1, FS_Subset, ChannelSelectAssumption
<1> QED
  BY <1>1, <1>2, ChannelSelectAssumption

LEMMA UsableGroups == Usable \subseteq Group
BY ChannelSelectAssumption DEF Usable, Group

(* A group with a try for each of its levels that has had all its tries    *)
(* has all its levels in the log.                                          *)
LEMMA UsedUp ==
    ASSUME LogOK, EnoughTries, NEW g \in Group,
           avail[g] # {} => \A t \in 0..RetryTimes : Used(g, t)
    PROVE  avail[g] \subseteq Tried(g)
<1> SUFFICES ASSUME NEW l \in avail[g] PROVE l \in Tried(g)
  OBVIOUS
<1>1. avail[g] \in SUBSET Nat /\ IsFiniteSet(avail[g]) /\ l \in Level
  BY AvailFinite
<1>2. Cardinality(avail[g]) <= RetryTimes + 1
  BY DEF EnoughTries
<1>3. PICK t \in 0..RetryTimes : LevelAt(avail[g], t) = l
  BY <1>1, <1>2, LevelsCovered
<1>4. Logged(g, l)
  BY <1>3, Zenon DEF Used
<1> QED
  BY <1>1, <1>4, Zenon DEF Logged, Tried

(* Every attempt lies in a usable group at or before i, and the groups     *)
(* before i have had all their tries or have no channel.                   *)
PassedTo(i) ==
    /\ LogOK
    /\ \A g \in Group, l \in Level : Logged(g, l) => g \in Usable /\ g <= i
    /\ \A g \in Usable : g < i /\ avail[g] # {} => \A t \in 0..RetryTimes : Used(g, t)

LEMMA PassedExhausted == \A i \in Int : PassedTo(i) => ExhaustsBeforeMoving
<1> SUFFICES ASSUME NEW i \in Int, PassedTo(i) PROVE ExhaustsBeforeMoving
  OBVIOUS
<1> USE DEF PassedTo
<1> SUFFICES ASSUME EnoughTries, NEW n \in DOMAIN log, NEW g \in Group, g < log[n][1]
             PROVE  avail[g] \subseteq Tried(g)
  BY DEF ExhaustsBeforeMoving
<1>1. log[n] \in Group \X Level
  BY DEF LogOK
<1>2. log[n] = <<log[n][1], log[n][2]>> /\ log[n][1] \in Group /\ log[n][2] \in Level
  BY <1>1
<1>3. log[n][1] \in Usable /\ log[n][1] <= i
  BY <1>2, Zenon DEF Logged
<1>4. g \in Usable /\ g < i
  BY <1>2, <1>3, ChannelSelectAssumption DEF Usable, Group
<1> QED
  BY <1>4, UsedUp

LEMMA PassedExhaustedNext == (\A i \in Int : PassedTo(i) => ExhaustsBeforeMoving)'
BY PassedExhausted, PTL

(* An attempt at or after all earlier ones.                                *)
LEMMA LogGrows ==
    ASSUME LogOK, NEW g \in Group, NEW l \in Level, log' = Append(log, <<g, l>>)
    PROVE  /\ log' \in Seq(Group \X Level)
           /\ \A h, k : Logged(h, k)' <=> Logged(h, k) \/ (h = g /\ k = l)
<1>1. log' \in Seq(Group \X Level)
  BY DEF LogOK
<1>2. /\ Len(log) \in Nat /\ DOMAIN log = 1..Len(log)
      /\ DOMAIN log' = 1..(Len(log) + 1)
      /\ \A n \in 1..Len(log) : log'[n] = log[n]
      /\ log'[Len(log) + 1] = <<g, l>>
  BY DEF LogOK
<1>3. DOMAIN log' = DOMAIN log \cup {Len(log) + 1}
  BY <1>2
<1>4. \A h, k : Logged(h, k)' <=> Logged(h, k) \/ <<h, k>> = <<g, l>>
  BY <1>2, <1>3, Zenon DEF Logged
<1> QED
  BY <1>1, <1>4

LEMMA LogDescends ==
    ASSUME LogOK, NeverClimbs, NEW g \in Group, NEW l \in Level,
           log' = Append(log, <<g, l>>),
           \A h \in Group, k \in Level : Logged(h, k) => h < g \/ (h = g /\ k <= l)
    PROVE  NeverClimbs'
<1>1. /\ Len(log) \in Nat /\ DOMAIN log = 1..Len(log)
      /\ DOMAIN log' = 1..(Len(log) + 1)
      /\ \A n \in 1..Len(log) : log'[n] = log[n]
      /\ log'[Len(log) + 1] = <<g, l>>
  BY DEF LogOK
<1> SUFFICES ASSUME NEW m \in DOMAIN log', NEW n \in DOMAIN log', m < n
             PROVE  \/ log'[m][1] < log'[n][1]
                    \/ log'[m][1] = log'[n][1] /\ log'[m][2] <= log'[n][2]
  BY DEF NeverClimbs
<1>2. m \in DOMAIN log /\ log'[m] = log[m]
  BY <1>1
<1>3. CASE n \in DOMAIN log
  <2>1. log'[n] = log[n]
    BY <1>1, <1>3
  <2> QED
    BY <1>2, <1>3, <2>1 DEF NeverClimbs
<1>4. CASE n \notin DOMAIN log
  <2>1. log'[n] = <<g, l>>
    BY <1>1, <1>4
  <2>2. log[m] \in Group \X Level
    BY <1>2 DEF LogOK
  <2>3. /\ log[m] = <<log[m][1], log[m][2]>>
        /\ log[m][1] \in Group /\ log[m][2] \in Level
    BY <2>2
  <2>4. log[m][1] < g \/ (log[m][1] = g /\ log[m][2] <= l)
    BY <1>2, <2>3, Zenon DEF Logged
  <2> QED
    BY <1>2, <2>1, <2>4
<1> QED
  BY <1>3, <1>4

-----------------------------------------------------------------------------
(* The selection stops at group g with the channels unchanged since the    *)
(* request began: the attempt is logged after all earlier ones, and all    *)
(* that was passed on the way had its tries or has no channel.             *)
Attempt(g) ==
    /\ g \in Usable /\ g >= idx /\ avail[g] # {}
    /\ \A h \in Usable : h >= idx /\ h < g => avail[h] = {}
    /\ log' = Append(log, <<g, LevelAt(avail[g], TryIn(g, retry))>>)
    /\ UNCHANGED <<token, avail, steady>>

LEMMA AttemptLogged ==
    ASSUME IInv, OrderInv, steady = TRUE, phase \in {"distribute", "select"},
           NEW g \in Group, Attempt(g)
    PROVE  /\ LogOK' /\ NeverClimbs' /\ ExhaustsBeforeMoving' /\ Drawn'
           /\ TryIn(g, retry) \in 0..RetryTimes
           /\ \A h \in Group, k \in Level : Logged(h, k)' =>
                 /\ h \in Usable
                 /\ \/ h < g
                    \/ h = g /\ \E t \in 0..TryIn(g, retry) : k = LevelAt(avail[g], t)
           /\ \A t \in 0..TryIn(g, retry) : Used(g, t)'
           /\ \A h \in Usable : h < g /\ avail[h] # {} =>
                 \A t \in 0..RetryTimes : Used(h, t)'
<1> USE ChannelSelectAssumption
<1> DEFINE try == TryIn(g, retry)
           lev == LevelAt(avail[g], try)
<1>1. /\ LogOK /\ Behind /\ Current /\ Passed /\ Drawn /\ NeverClimbs
      /\ idx \in 1..(Groups + 1) /\ retry \in 0..RetryTimes
      /\ Tries = retry
  BY DEF IInv, ParamsOK, OrderInv, Follow, Tries
<1>2. /\ g \in Usable /\ g >= idx /\ avail[g] # {}
      /\ \A h \in Usable : h >= idx /\ h < g => avail[h] = {}
      /\ log' = Append(log, <<g, lev>>) /\ avail' = avail /\ token' = token
      /\ steady' = steady
  BY DEF Attempt
<1>3. try \in 0..RetryTimes /\ try \in Nat /\ (g = idx => try = retry)
  BY <1>1 DEF TryIn, Group
<1>4. avail[g] \in SUBSET Nat /\ avail[g] \in SUBSET Level /\ IsFiniteSet(avail[g])
  BY <1>1, AvailFinite
<1>5. lev \in Level /\ lev \in avail[g]
  BY <1>2, <1>3, <1>4, LevelIn
<1> HIDE DEF try, lev
<1>6. /\ log' \in Seq(Group \X Level)
      /\ \A h, k : Logged(h, k)' <=> Logged(h, k) \/ (h = g /\ k = lev)
  BY <1>1, <1>2, <1>5, LogGrows
<1>7. LogOK'
  BY <1>1, <1>2, <1>6 DEF LogOK
<1>8. \A h \in Group, k \in Level : Logged(h, k) =>
         /\ h \in Usable
         /\ \/ h < g
            \/ h = g /\ g = idx /\ \E t \in 0..(retry - 1) : k = LevelAt(avail[g], t)
  <2> SUFFICES ASSUME NEW h \in Group, NEW k \in Level, Logged(h, k)
               PROVE  /\ h \in Usable
                      /\ \/ h < g
                         \/ /\ h = g /\ g = idx
                            /\ \E t \in 0..(retry - 1) : k = LevelAt(avail[g], t)
    OBVIOUS
  <2>1. /\ h \in Usable
        /\ \/ h < idx
           \/ h = idx /\ \E t \in 0..(retry - 1) : k = LevelAt(avail[h], t)
    BY <1>1, Zenon DEF Behind
  <2>2. h \in Int /\ g \in Int /\ idx \in Int
    BY <1>1 DEF Group
  <2>3. CASE h < idx
    BY <1>2, <2>1, <2>2, <2>3
  <2>4. CASE h = idx /\ h = g
    BY <2>1, <2>2, <2>4
  <2>5. CASE h = idx /\ h # g
    BY <1>2, <2>1, <2>2, <2>5
  <2> QED
    BY <2>1, <2>3, <2>4, <2>5
<1>9. NeverClimbs'
  <2>1. ASSUME NEW h \in Group, NEW k \in Level, Logged(h, k)
        PROVE  h < g \/ (h = g /\ k <= lev)
    <3>1. CASE h < g
      BY <3>1
    <3>2. CASE ~(h < g)
      <4>1. PICK t \in 0..(retry - 1) : h = g /\ g = idx /\ k = LevelAt(avail[g], t)
        BY <1>8, <2>1, <3>2
      <4>2. t \in Nat /\ t <= try
        BY <1>1, <1>3, <4>1
      <4>3. LevelAt(avail[g], t) <= LevelAt(avail[g], try)
        BY <1>2, <1>3, <1>4, <4>2, LevelDescends
      <4> QED
        BY <4>1, <4>3 DEF lev
    <3> QED
      BY <3>1, <3>2
  <2> QED
    BY <1>1, <1>2, <1>5, <2>1, LogDescends
<1>10. ASSUME NEW h \in Group, NEW k \in Level, Logged(h, k)'
       PROVE  /\ h \in Usable
              /\ \/ h < g
                 \/ h = g /\ \E t \in 0..try : k = LevelAt(avail[g], t)
  <2>1. CASE h = g /\ k = lev
    BY <1>2, <1>3, <2>1 DEF lev
  <2>2. CASE Logged(h, k)
    <3>1. CASE h < g
      BY <1>8, <2>2, <3>1
    <3>2. CASE ~(h < g)
      <4>1. PICK t \in 0..(retry - 1) : h = g /\ g = idx /\ k = LevelAt(avail[g], t)
        BY <1>8, <2>2, <3>2
      <4>2. t \in 0..try
        BY <1>1, <1>3, <4>1
      <4> QED
        BY <1>2, <4>1, <4>2
    <3> QED
      BY <3>1, <3>2
  <2> QED
    BY <1>6, <1>10, <2>1, <2>2
<1>11. \A h, t : Used(h, t)' <=> Logged(h, LevelAt(avail[h], t)) \/
                                 (h = g /\ LevelAt(avail[h], t) = lev)
  <2> TAKE h, t
  <2>1. Used(h, t)' <=> \E n \in DOMAIN log' : log'[n] = <<h, LevelAt(avail'[h], t)>>
    BY DEF Used, Logged, LevelAt
  <2>2. \A k : (\E n \in DOMAIN log' : log'[n] = <<h, k>>) <=>
                   Logged(h, k) \/ (h = g /\ k = lev)
    BY <1>6 DEF Logged
  <2> QED
    BY <1>2, <2>1, <2>2
<1>12. ASSUME NEW t \in 0..try PROVE Used(g, t)'
  <2>1. CASE t = try
    BY <1>11, <2>1 DEF lev
  <2>2. CASE t # try
    <3>1. g = idx /\ t \in 0..(Tries - 1) /\ Tries > 0
      BY <1>1, <1>2, <1>3, <2>2 DEF try, TryIn, Group
    <3>2. Used(g, t)
      BY <1>1, <3>1 DEF Current
    <3> QED
      BY <1>11, <3>2 DEF Used
  <2> QED
    BY <2>1, <2>2
<1>13. ASSUME NEW h \in Usable, h < g, avail[h] # {}, NEW t \in 0..RetryTimes
       PROVE  Used(h, t)'
  <2>1. h \in Int /\ idx \in Int
    BY <1>1, UsableGroups DEF Group
  <2>2. h < idx
    BY <1>2, <1>13, <2>1
  <2>3. Used(h, t)
    BY <1>1, <1>13, <2>2 DEF Passed
  <2> QED
    BY <1>11, <2>3 DEF Used
<1>14. ExhaustsBeforeMoving'
  <2>1. \A h \in Group, k \in Level : Logged(h, k)' => h \in Usable' /\ h <= g
    <3>1. Usable' = Usable
      BY <1>2 DEF Usable
    <3> QED
      BY <1>10, <3>1 DEF Group
  <2>2. \A h \in Usable' : h < g /\ avail'[h] # {} => \A t \in 0..RetryTimes : Used(h, t)'
    BY <1>2, <1>13 DEF Usable
  <2>3. g \in Int
    BY DEF Group
  <2>4. PassedTo(g)'
    BY <1>7, <2>1, <2>2, Zenon DEF PassedTo
  <2> QED
    BY <2>3, <2>4, PassedExhaustedNext
<1>15. Drawn'
  BY <1>1, <1>2, <1>5, <1>6 DEF Drawn
<1> QED
  BY <1>3, <1>7, <1>9, <1>10, <1>12, <1>13, <1>14, <1>15 DEF try

(* The group keeps its turn, or its tries are over and the index moves on. *)
LEMMA AttemptOrder ==
    ASSUME IInv, OrderInv, steady = TRUE, phase \in {"distribute", "select"},
           NEW g \in Group, Attempt(g), phase' = "relay", why' = why,
           \/ /\ token = "cross" /\ TryIn(g, retry) >= RetryTimes
              /\ idx' = g + 1 /\ retry' = 0
              /\ (reset' = TRUE /\ RetryTimes > 0) \/ (reset' = FALSE /\ RetryTimes = 0)
           \/ /\ token # "cross" \/ TryIn(g, retry) < RetryTimes
              /\ idx' = g /\ retry' = TryIn(g, retry) /\ reset' = FALSE
    PROVE  OrderInv'
<1> USE ChannelSelectAssumption
<1> DEFINE try == TryIn(g, retry)
<1>1. /\ LogOK' /\ NeverClimbs' /\ ExhaustsBeforeMoving' /\ Drawn'
      /\ try \in 0..RetryTimes
      /\ \A h \in Group, k \in Level : Logged(h, k)' =>
            /\ h \in Usable
            /\ \/ h < g
               \/ h = g /\ \E t \in 0..try : k = LevelAt(avail[g], t)
      /\ \A t \in 0..try : Used(g, t)'
      /\ \A h \in Usable : h < g /\ avail[h] # {} => \A t \in 0..RetryTimes : Used(h, t)'
  BY AttemptLogged
<1>2. /\ g \in Usable /\ avail[g] # {}
      /\ avail' = avail /\ token' = token /\ Usable' = Usable
  BY DEF Attempt, Usable
<1>3. why' # "exhausted"
  BY DEF OrderInv, Counting
<1>4. GivesUpLast'
  BY <1>3 DEF GivesUpLast
<1>5. g \in Int /\ \A h \in Group : h \in Int
  BY DEF Group
<1> HIDE DEF try
<1>6. CASE /\ token = "cross" /\ try >= RetryTimes
           /\ idx' = g + 1 /\ retry' = 0
           /\ (reset' = TRUE /\ RetryTimes > 0) \/ (reset' = FALSE /\ RetryTimes = 0)
  <2>1. try = RetryTimes
    BY <1>1, <1>6
  <2>2. Counting'
    BY <1>2, <1>3, <1>6 DEF Counting
  <2>3. Tries' = 0
    BY <1>2, <1>6 DEF Tries, GroupSpent
  <2>4. Behind'
    <3>1. ASSUME NEW h \in Group, NEW k \in Level, Logged(h, k)'
          PROVE  h \in Usable' /\ h < idx'
      BY <1>1, <1>2, <1>5, <1>6, <3>1
    <3> QED
      BY <3>1, Zenon DEF Behind
  <2>5. Current'
    BY <2>3 DEF Current
  <2>6. Passed'
    <3>1. ASSUME NEW h \in Usable, h < idx', avail[h] # {}, NEW t \in 0..RetryTimes
          PROVE  Used(h, t)'
      <4>1. h \in Int
        BY <1>5, UsableGroups
      <4>2. CASE h < g
        BY <1>1, <3>1, <4>2
      <4>3. CASE ~(h < g)
        <5>1. h = g
          BY <1>5, <1>6, <3>1, <4>1, <4>3
        <5> QED
          BY <1>1, <2>1, <5>1
      <4> QED
        BY <4>2, <4>3
    <3> QED
      BY <1>2, <3>1, Zenon DEF Passed
  <2>7. Follow'
    BY <1>1, <2>4, <2>5, <2>6 DEF Follow
  <2> QED
    BY <1>1, <1>4, <2>2, <2>7 DEF OrderInv
<1>7. CASE /\ token # "cross" \/ try < RetryTimes
           /\ idx' = g /\ retry' = try /\ reset' = FALSE
  <2>1. token = "cross" => RetryTimes > 0 /\ try < RetryTimes
    BY <1>1, <1>7
  <2>2. Counting'
    BY <1>2, <1>3, <1>7, <2>1 DEF Counting
  <2>3. ~GroupSpent'
    BY <1>2, <1>7, <2>1 DEF GroupSpent
  <2>4. Tries' = try + 1 /\ Tries' - 1 = try /\ Tries' > 0
    BY <1>1, <1>7, <2>3 DEF Tries
  <2>5. Behind'
    <3>1. ASSUME NEW h \in Group, NEW k \in Level, Logged(h, k)'
          PROVE  /\ h \in Usable'
                 /\ \/ h < idx'
                    \/ h = idx' /\ \E t \in 0..(Tries' - 1) : k = LevelAt(avail'[h], t)
      BY <1>1, <1>2, <1>7, <2>4, <3>1
    <3> QED
      BY <3>1, Zenon DEF Behind, LevelAt
  <2>6. Current'
    <3>1. \A t \in 0..(Tries' - 1) : Used(g, t)'
      BY <1>1, <2>4
    <3>2. \A t \in 0..(Tries' - 1) : (Used(idx, t))'
      BY <1>7, <3>1 DEF Used, Logged, LevelAt
    <3> QED
      BY <1>2, <1>7, <3>2 DEF Current
  <2>7. Passed'
    BY <1>1, <1>2, <1>7, Zenon DEF Passed
  <2>8. Follow'
    BY <1>1, <2>5, <2>6, <2>7 DEF Follow
  <2> QED
    BY <1>1, <1>4, <2>2, <2>8 DEF OrderInv
<1> QED
  BY <1>6, <1>7 DEF try

(* Nothing of the order is claimed of a request whose channels changed.    *)
LEMMA UnsteadyOrder ==
    ASSUME LogOK', Counting', steady' = FALSE
    PROVE  OrderInv'
<1>1. log' = <<>>
  BY DEF LogOK
<1>2. DOMAIN log' = {}
  BY <1>1
<1>3. NeverClimbs' /\ ExhaustsBeforeMoving'
  BY <1>2, Zenon DEF NeverClimbs, ExhaustsBeforeMoving
<1>4. GivesUpLast' /\ Follow'
  BY DEF GivesUpLast, Follow
<1> QED
  BY <1>3, <1>4 DEF OrderInv

LEMMA SelectionOrder ==
    ASSUME IInv, OrderInv, NEW g \in Group, Distribute(g) \/ Select(g)
    PROVE  OrderInv'
<1> USE ChannelSelectAssumption
<1>1. /\ LogOK /\ Counting
      /\ idx \in 1..(Groups + 1) /\ retry \in 0..RetryTimes
      /\ phase \in {"distribute", "select"} => reset = FALSE
  BY DEF OrderInv, IInv, ParamsOK, ResetOK
<1>2. /\ phase \in {"distribute", "select"} /\ phase' = "relay" /\ why' = why
      /\ StopsAt(g) /\ UNCHANGED <<token, avail, steady>>
      /\ phase = "distribute" => retry = 0 /\ idx = 1
  BY <1>1, Zenon DEF Distribute, Select, Record, Counting
<1>3. reset = FALSE /\ g \in Usable /\ g >= idx /\ avail[g] # {}
  BY <1>1, <1>2 DEF StopsAt
<1>4. Kept(g) = g
  BY <1>1, <1>2, <1>3 DEF Kept, Usable, Group
<1>5. TryIn(g, retry) \in 0..RetryTimes /\ (phase = "distribute" => TryIn(g, retry) = 0)
  BY <1>1, <1>2 DEF TryIn
<1>6. log' = IF steady THEN Append(log, <<g, LevelAt(avail[g], TryIn(g, retry))>>) ELSE log
  <2>1. CASE Distribute(g)
    <3>1. phase = "distribute" /\ Record(g, Chosen(g, 0))
      BY <2>1, Zenon DEF Distribute
    <3> QED
      BY <1>5, <3>1, ChosenIs DEF Record
  <2>2. CASE Select(g)
    <3>1. Record(g, Chosen(g, TryIn(g, retry)))
      BY <2>2, Zenon DEF Select
    <3> QED
      BY <3>1, ChosenIs DEF Record
  <2> QED
    BY <2>1, <2>2
<1>7. \/ /\ token = "cross" /\ TryIn(g, retry) >= RetryTimes
         /\ idx' = g + 1 /\ retry' = 0
         /\ (reset' = TRUE /\ RetryTimes > 0) \/ (reset' = FALSE /\ RetryTimes = 0)
      \/ /\ token # "cross" \/ TryIn(g, retry) < RetryTimes
         /\ idx' = g /\ retry' = TryIn(g, retry) /\ reset' = FALSE
  <2>1. CASE Distribute(g)
    <3>1. /\ phase = "distribute" /\ retry' = retry /\ reset' = reset
          /\ idx' = IF Exhausted(g, 0) THEN g + 1 ELSE Kept(g)
      BY <2>1, Zenon DEF Distribute
    <3>2. retry = 0
      BY <1>2, <3>1
    <3>3. CASE Exhausted(g, 0)
      BY <1>3, <1>5, <3>1, <3>2, <3>3 DEF Exhausted
    <3>4. CASE ~Exhausted(g, 0)
      BY <1>3, <1>4, <1>5, <3>1, <3>2, <3>4 DEF Exhausted
    <3> QED
      BY <3>3, <3>4
  <2>2. CASE Select(g)
    <3>1. CASE Exhausted(g, retry)
      <4>1. phase = "select" /\ idx' = g + 1 /\ retry' = 0 /\ reset' = TRUE
        BY <2>2, <3>1, Zenon DEF Select
      <4>2. RetryTimes > 0
        BY <1>1, <4>1 DEF Counting
      <4> QED
        BY <3>1, <4>1, <4>2 DEF Exhausted
    <3>2. CASE ~Exhausted(g, retry)
      <4>1. idx' = Kept(g) /\ retry' = TryIn(g, retry) /\ reset' = reset
        BY <2>2, <3>2, Zenon DEF Select
      <4>2. token # "cross" \/ TryIn(g, retry) < RetryTimes
        BY <1>5, <3>2 DEF Exhausted
      <4> QED
        BY <1>3, <1>4, <4>1, <4>2
    <3> QED
      BY <3>1, <3>2
  <2> QED
    BY <2>1, <2>2
<1>8. CASE steady = TRUE
  <2>1. Attempt(g)
    BY <1>2, <1>3, <1>6, <1>8 DEF Attempt, StopsAt
  <2> QED
    BY <1>2, <1>7, <1>8, <2>1, AttemptOrder
<1>9. CASE steady = FALSE
  <2>1. LogOK'
    BY <1>1, <1>2, <1>6, <1>9 DEF LogOK
  <2>2. why' # "exhausted"
    BY <1>1, <1>2 DEF Counting
  <2>3. Counting'
    BY <1>2, <1>5, <1>7, <2>2 DEF Counting
  <2> QED
    BY <1>2, <1>9, <2>1, <2>3, UnsteadyOrder
<1> QED
  BY <1>1, <1>8, <1>9 DEF LogOK

(* The request is over: the log stands as it is.                           *)
LEMMA EndOrder ==
    ASSUME OrderInv, phase' = "end", UNCHANGED <<token, avail, steady, log>>,
           GivesUpLast', Counting'
    PROVE  OrderInv'
<1>1. LogOK' /\ Follow'
  BY DEF OrderInv, LogOK, Follow
<1>2. NeverClimbs'
  BY DEF OrderInv, NeverClimbs
<1>3. ExhaustsBeforeMoving'
  BY DEF OrderInv, ExhaustsBeforeMoving, EnoughTries, Tried
<1> QED
  BY <1>1, <1>2, <1>3 DEF OrderInv

-----------------------------------------------------------------------------
LEMMA TriedLevels ==
    ASSUME LogOK, Drawn, NEW g \in Group
    PROVE  Tried(g) \subseteq avail[g]
BY DEF Drawn, Tried, Logged

(* A retry that finds no channel: every group before the index has been    *)
(* tried completely, and there is none from the index on.                  *)
LEMMA NoneLeft ==
    ASSUME IInv, OrderInv, phase = "select", steady = TRUE, FindsNone, EnoughTries
    PROVE  \A g \in Usable : avail[g] = Tried(g)
<1> USE ChannelSelectAssumption
<1>1. /\ LogOK /\ Current /\ Passed /\ Drawn
      /\ idx \in 1..(Groups + 1) /\ retry \in 0..RetryTimes /\ Tries = retry
  BY DEF IInv, ParamsOK, OrderInv, Follow, Tries
<1>2. \A g \in Usable : g >= idx => avail[g] = {}
  BY DEF FindsNone
<1> SUFFICES ASSUME NEW g \in Usable PROVE avail[g] = Tried(g)
  OBVIOUS
<1>3. g \in Group /\ g \in Int /\ idx \in Int
  BY <1>1, UsableGroups DEF Group
<1>4. Tried(g) \subseteq avail[g]
  BY <1>1, <1>3, TriedLevels
<1>5. avail[g] \subseteq Tried(g)
  <2>1. CASE g >= idx
    BY <1>2, <2>1
  <2>2. CASE g < idx
    <3>1. avail[g] # {} => \A t \in 0..RetryTimes : Used(g, t)
      BY <1>1, <2>2 DEF Passed
    <3> QED
      BY <1>1, <1>3, <3>1, UsedUp
  <2> QED
    BY <1>3, <2>1, <2>2
<1> QED
  BY <1>4, <1>5

(* The counter has run out: without cross-group retry the group the        *)
(* request is in has had all its tries; with it, that does not happen.     *)
LEMMA CounterOut ==
    ASSUME IInv, OrderInv, phase = "relay", steady = TRUE, EnoughTries,
           RetryTimes > 0, retry >= RetryTimes
    PROVE  /\ token # "cross"
           /\ \E g \in Usable : avail[g] # {} /\ avail[g] = Tried(g)
<1> USE ChannelSelectAssumption
<1>1. /\ LogOK /\ Counting /\ Current /\ Drawn
      /\ idx \in 1..(Groups + 1) /\ retry \in 0..RetryTimes /\ reset \in BOOLEAN
  BY DEF IInv, ParamsOK, ResetOK, OrderInv, Follow
<1>2. token # "cross" /\ reset = FALSE /\ retry = RetryTimes
  BY <1>1 DEF Counting
<1>3. Tries > 0 /\ Tries - 1 = RetryTimes
  BY <1>1, <1>2 DEF Tries, GroupSpent
<1>4. idx \in Usable /\ avail[idx] # {} /\ \A t \in 0..RetryTimes : Used(idx, t)
  BY <1>1, <1>3 DEF Current
<1>5. idx \in Group
  BY <1>4, UsableGroups
<1>6. avail[idx] = Tried(idx)
  BY <1>1, <1>4, <1>5, UsedUp, TriedLevels
<1> QED
  BY <1>2, <1>4, <1>6

LEMMA FollowKept ==
    ASSUME Follow, phase # "end" \/ phase' = phase, Tries' = Tries,
           UNCHANGED <<token, avail, idx, steady, log>>
    PROVE  Follow'
<1> SUFFICES ASSUME steady = TRUE, phase' # "end"
             PROVE  Behind' /\ Current' /\ Passed' /\ Drawn'
  BY DEF Follow
<1>1. Behind /\ Current /\ Passed /\ Drawn
  BY DEF Follow
<1>2. Usable' = Usable
  BY DEF Usable
<1>3. \A g, l : Logged(g, l)' <=> Logged(g, l)
  BY DEF Logged
<1>4. \A g, t : Used(g, t)' <=> Used(g, t)
  BY DEF Used, Logged, LevelAt
<1>5. Behind'
  <2>1. ASSUME NEW g \in Group, NEW l \in Level, Logged(g, l)'
        PROVE  /\ g \in Usable'
               /\ \/ g < idx'
                  \/ g = idx' /\ \E t \in 0..(Tries' - 1) : l = LevelAt(avail'[g], t)
    BY <1>1, <1>2, <1>3, <2>1 DEF Behind
  <2> QED
    BY <2>1, Zenon DEF Behind, LevelAt
<1>6. Current'
  BY <1>1, <1>2 DEF Current, Used, Logged, LevelAt
<1>7. Passed' /\ Drawn'
  BY <1>1, <1>2, <1>3, <1>4, Zenon DEF Passed, Drawn
<1> QED
  BY <1>5, <1>6, <1>7

LEMMA SelectNoneOrder ==
    ASSUME IInv, OrderInv, SelectNone
    PROVE  OrderInv'
<1> USE ChannelSelectAssumption
<1>1. /\ phase = "select" /\ phase' = "end" /\ FindsNone
      /\ UNCHANGED <<token, avail, steady, log, reset>>
      /\ retry' = IF token = "one" THEN retry ELSE 0
  BY DEF SelectNone, End, historyVars
<1>2. Counting /\ LogOK /\ steady \in BOOLEAN
  BY DEF OrderInv, LogOK
<1>3. Counting'
  BY <1>1, <1>2 DEF Counting
<1>4. GivesUpLast'
  <2> SUFFICES ASSUME steady' = TRUE, EnoughTries' PROVE (\A g \in Usable : avail[g] = Tried(g))'
    BY <1>1, <1>2 DEF GivesUpLast
  <2>1. EnoughTries
    BY <1>1 DEF EnoughTries
  <2>2. \A g \in Usable : avail[g] = Tried(g)
    BY <1>1, <2>1, NoneLeft
  <2> QED
    BY <1>1, <2>2 DEF Usable, Tried
<1> QED
  BY <1>1, <1>3, <1>4, EndOrder

(* A failed attempt: the counter moves on, the flag is consumed, or the    *)
(* request gives up.                                                       *)
LEMMA FailsOrder ==
    ASSUME IInv, OrderInv, Fails
    PROVE  OrderInv'
<1> USE ChannelSelectAssumption
<1>1. /\ phase = "relay" /\ UNCHANGED <<token, avail, idx, steady, log>>
  BY DEF Fails, historyVars
<1>2. /\ Counting /\ LogOK /\ steady \in BOOLEAN
      /\ idx \in 1..(Groups + 1) /\ retry \in 0..RetryTimes /\ reset \in BOOLEAN
      /\ why # "exhausted"
  BY <1>1 DEF IInv, ParamsOK, ResetOK, OrderInv, LogOK, Counting
<1>3. CASE /\ phase' = "select" /\ why' = why
           /\ \/ reset = TRUE /\ reset' = FALSE /\ retry' = retry
              \/ reset = FALSE /\ reset' = FALSE /\ retry < RetryTimes /\ retry' = retry + 1
  <2>1. RetryTimes > 0
    <3>1. CASE reset = FALSE
      BY <1>2, <1>3, <3>1
    <3>2. CASE reset = TRUE
      BY <1>2, <1>3, <3>2 DEF Counting
    <3> QED
      BY <1>2, <3>1, <3>2
  <2>2. Counting'
    BY <1>1, <1>2, <1>3, <2>1 DEF Counting
  <2>3. Tries' = Tries
    BY <1>1, <1>2, <1>3, <2>1 DEF Tries, GroupSpent
  <2>4. LogOK' /\ GivesUpLast'
    BY <1>1, <1>2, <1>3 DEF LogOK, GivesUpLast
  <2>5. NeverClimbs' /\ ExhaustsBeforeMoving'
    BY <1>1 DEF OrderInv, NeverClimbs, ExhaustsBeforeMoving, EnoughTries, Tried
  <2>6. Follow'
    BY <1>1, <2>3, FollowKept DEF OrderInv
  <2> QED
    BY <2>2, <2>4, <2>5, <2>6 DEF OrderInv
<1>4. CASE /\ phase' = "end" /\ why' = "exhausted"
           /\ retry >= RetryTimes /\ UNCHANGED <<retry, reset>>
  <2>1. Counting'
    BY <1>1, <1>2, <1>4 DEF Counting
  <2>2. GivesUpLast'
    <3> SUFFICES ASSUME steady' = TRUE, EnoughTries', RetryTimes > 0
                 PROVE  (token # "cross" /\ \E g \in Usable : avail[g] # {} /\ avail[g] = Tried(g))'
      BY <1>4, <1>2, <1>1 DEF GivesUpLast
    <3>1. EnoughTries /\ steady = TRUE
      BY <1>1 DEF EnoughTries
    <3>2. token # "cross" /\ \E g \in Usable : avail[g] # {} /\ avail[g] = Tried(g)
      BY <1>1, <1>4, <3>1, CounterOut
    <3> QED
      BY <1>1, <3>2 DEF Usable, Tried
  <2> QED
    BY <1>1, <1>4, <2>1, <2>2, EndOrder
<1> QED
  <2>1. \/ IncreaseRetry
        \/ /\ RetryTimes - retry <= 0
           /\ End("exhausted")
           /\ UNCHANGED <<retry, reset>>
    BY Zenon DEF Fails
  <2>2. CASE IncreaseRetry
    <3>1. \/ reset = TRUE /\ reset' = FALSE /\ phase' = "select" /\ UNCHANGED <<retry, why>>
          \/ /\ reset = FALSE /\ retry < RetryTimes
             /\ retry' = retry + 1 /\ phase' = "select" /\ UNCHANGED <<reset, why>>
          \/ ~(retry < RetryTimes) /\ End("exhausted") /\ UNCHANGED <<retry, reset>>
      BY <1>2, <2>2, Zenon DEF IncreaseRetry
    <3>2. CASE reset = TRUE /\ reset' = FALSE /\ phase' = "select" /\ UNCHANGED <<retry, why>>
      BY <1>3, <3>2
    <3>3. CASE /\ reset = FALSE /\ retry < RetryTimes
               /\ retry' = retry + 1 /\ phase' = "select" /\ UNCHANGED <<reset, why>>
      BY <1>3, <3>3
    <3>4. CASE ~(retry < RetryTimes) /\ End("exhausted") /\ UNCHANGED <<retry, reset>>
      BY <1>2, <1>4, <3>4 DEF End
    <3> QED
      BY <3>1, <3>2, <3>3, <3>4
  <2>3. CASE /\ RetryTimes - retry <= 0
             /\ End("exhausted")
             /\ UNCHANGED <<retry, reset>>
    BY <1>2, <1>4, <2>3 DEF End
  <2> QED
    BY <2>1, <2>2, <2>3

-----------------------------------------------------------------------------
LEMMA OrderInit == Init => OrderInv
<1> SUFFICES ASSUME Init PROVE OrderInv
  OBVIOUS
<1> USE ChannelSelectAssumption
<1>1. /\ log = <<>> /\ DOMAIN log = {} /\ idx = 1 /\ retry = 0 /\ reset = FALSE
      /\ phase = "distribute" /\ why = "open" /\ steady = TRUE
  BY DEF Init
<1>2. LogOK
  BY DEF Init, LogOK
<1>3. Counting /\ GivesUpLast
  BY <1>1 DEF Counting, GivesUpLast
<1>4. NeverClimbs /\ ExhaustsBeforeMoving
  BY <1>1, Zenon DEF NeverClimbs, ExhaustsBeforeMoving
<1>5. Behind /\ Drawn
  BY <1>1, Zenon DEF Behind, Drawn, Logged
<1>6. Tries = 0
  BY <1>1 DEF Tries
<1>7. Current
  BY <1>6 DEF Current
<1>8. Passed
  BY <1>1, UsableGroups DEF Passed, Group
<1> QED
  BY <1>2, <1>3, <1>4, <1>5, <1>7, <1>8 DEF OrderInv, Follow

LEMMA OrderNext == IInv /\ OrderInv /\ [Next]_vars => OrderInv'
<1> SUFFICES ASSUME IInv, OrderInv, [Next]_vars PROVE OrderInv'
  OBVIOUS
<1>0. LogOK /\ Counting
  BY DEF OrderInv
<1>1. ASSUME NEW g \in Group, Distribute(g) \/ Select(g) PROVE OrderInv'
  BY <1>1, SelectionOrder
<1>2. ASSUME NEW g \in Group, Change(g) PROVE OrderInv'
  <2>1. /\ steady' = FALSE /\ log' = <<>>
        /\ UNCHANGED <<token, phase, idx, retry, reset, why>>
    BY <1>2, Zenon DEF Change, paramVars
  <2>2. avail' \in [Group -> SUBSET Level]
    <3>1. PICK s \in SUBSET Level : avail' = [avail EXCEPT ![g] = s]
      BY <1>2, Zenon DEF Change
    <3> QED
      BY <1>0, <3>1 DEF LogOK
  <2>3. LogOK'
    <3>1. <<>> \in Seq(Group \X Level)
      OBVIOUS
    <3> QED
      BY <1>0, <2>1, <2>2, <3>1 DEF LogOK
  <2>4. Counting'
    BY <1>0, <2>1 DEF Counting
  <2> QED
    BY <2>1, <2>3, <2>4, UnsteadyOrder
<1>3. CASE DistributePreferred
  <2>1. /\ phase = "distribute" /\ phase' = "relay" /\ steady' = FALSE
        /\ UNCHANGED <<token, avail, log, idx, retry, reset, why>>
    BY <1>3, Zenon DEF DistributePreferred, paramVars
  <2>2. LogOK'
    BY <1>0, <2>1 DEF LogOK, Counting
  <2>3. Counting'
    BY <1>0, <2>1, ChannelSelectAssumption DEF Counting
  <2> QED
    BY <2>1, <2>2, <2>3, UnsteadyOrder
<1>4. CASE DistributeNone \/ Answered \/ FailsForGood
  <2>1. /\ phase' = "end" /\ why' # "exhausted"
        /\ UNCHANGED <<token, avail, steady, log, idx, retry, reset>>
    BY <1>4 DEF DistributeNone, Answered, FailsForGood, End, paramVars, historyVars
  <2>2. Counting' /\ GivesUpLast'
    BY <1>0, <2>1 DEF Counting, GivesUpLast
  <2> QED
    BY <2>1, <2>2, EndOrder
<1>5. CASE SelectNone
  BY <1>5, SelectNoneOrder
<1>6. CASE Fails
  BY <1>6, FailsOrder
<1>7. CASE Ended \/ UNCHANGED vars
  <2>1. UNCHANGED <<token, avail, phase, idx, retry, reset, steady, log, why>>
    BY <1>7 DEF Ended, vars, paramVars, historyVars
  <2>2. LogOK' /\ Counting'
    BY <1>0, <2>1 DEF LogOK, Counting
  <2>3. NeverClimbs' /\ ExhaustsBeforeMoving' /\ GivesUpLast'
    BY <2>1 DEF OrderInv, NeverClimbs, ExhaustsBeforeMoving, GivesUpLast, EnoughTries,
                Tried, Usable
  <2>4. Follow'
    BY <2>1, FollowKept DEF OrderInv, Tries, GroupSpent
  <2> QED
    BY <2>2, <2>3, <2>4 DEF OrderInv
<1> QED
  BY <1>1, <1>2, <1>3, <1>4, <1>5, <1>6, <1>7, Zenon DEF Next

(* The log follows the group index and the counter, whatever changes.      *)
THEOREM OrderInvariance == Spec => []OrderInv
BY InitInv, NextInv, OrderInit, OrderNext, PTL DEF Spec

(* Retries go down and never back up: for any groups, levels and number of *)
(* retries, the schedule of mapRetryToPriorityIndex and the resets of the  *)
(* counter never send a request to an earlier group or a higher priority.  *)
THEOREM Descends == Spec => []NeverClimbs
<1>1. OrderInv => NeverClimbs
  BY DEF OrderInv
<1> QED
  BY <1>1, OrderInvariance, PTL

(* The comment of CacheGetRandomSatisfiedChannel is true of the code: no   *)
(* attempt is made in a group while an earlier group has a priority that   *)
(* was not tried, if that group has as many tries as priorities.           *)
THEOREM ExhaustsFirst == Spec => []ExhaustsBeforeMoving
<1>1. OrderInv => ExhaustsBeforeMoving
  BY DEF OrderInv
<1> QED
  BY <1>1, OrderInvariance, PTL

(* A request that gives up leaves nothing untried that its token allows it *)
(* to try.                                                                 *)
THEOREM TriesAll == Spec => []GivesUpLast
<1>1. OrderInv => GivesUpLast
  BY DEF OrderInv
<1> QED
  BY <1>1, OrderInvariance, PTL
=============================================================================
