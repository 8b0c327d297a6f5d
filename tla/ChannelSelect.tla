--------------------------- MODULE ChannelSelect ---------------------------
(***************************************************************************)
(* Which channels one relayed request is sent to.  The distributor selects *)
(* the first channel, Relay retries on others: first within the group, on  *)
(* lower and lower priorities, then, for a token of the group "auto", in   *)
(* the user's next group.  Counter, reset flag and group index live in two *)
(* RetryParams and in the request's context; channels come and go while    *)
(* the request is under way.                                               *)
(*                                                                         *)
(* A group is its set of priority levels that have an enabled channel for  *)
(* the model, 0 being the highest; which of the channels of a level is     *)
(* drawn does not matter here.                                             *)
(***************************************************************************)
EXTENDS Integers, FiniteSets, Sequences

CONSTANTS
    Groups,       \* number of groups of a token of the group "auto"
    Level,        \* priority levels
    RetryTimes    \* common.RetryTimes

ASSUME ChannelSelectAssumption ==
    /\ Groups \in Nat \ {0}
    /\ Level \subseteq Nat /\ IsFiniteSet(Level)
    /\ RetryTimes \in Nat

Group == 1..Groups

VARIABLES
    token,     \* "one": a token of group 1; "auto": of the group "auto";
               \* "cross": the same with ContextKeyTokenCrossGroupRetry
    avail,     \* per group, the levels that have an enabled channel
    phase,     \* where the request is
    idx,       \* ContextKeyAutoGroupIndex, counted from 1
    retry,     \* RetryParam.Retry of Relay
    reset,     \* RetryParam.resetNextTry of Relay
    attempts,  \* history: how often the request was sent upstream
    steady,    \* history: channels have not changed, none was preferred
    log,       \* history: while steady, group and level of each attempt
    why        \* how the request ended

paramVars == <<idx, retry, reset>>
historyVars == <<attempts, steady, log>>
vars == <<token, avail, phase, paramVars, historyVars, why>>

(* Every variable has its type; the counter never exceeds RetryTimes and   *)
(* the group index never passes the group after the last.                  *)
TypeOK ==
    /\ token \in {"one", "auto", "cross"}
    /\ avail \in [Group -> SUBSET Level]
    /\ phase \in {"distribute", "select", "relay", "end"}
    /\ idx \in 1..(Groups + 1)
    /\ retry \in 0..RetryTimes
    /\ reset \in BOOLEAN
    /\ attempts \in Nat
    /\ steady \in BOOLEAN
    /\ log \in Seq(Group \X Level)
    /\ Len(log) = IF steady THEN attempts ELSE 0
    /\ why \in {"open", "ok", "fatal", "exhausted", "none"}

Init ==
    /\ token \in {"one", "auto", "cross"}
    /\ avail \in [Group -> SUBSET Level]
    /\ phase = "distribute"
    /\ idx = 1 /\ retry = 0 /\ reset = FALSE
    /\ attempts = 0 /\ steady = TRUE /\ log = <<>>
    /\ why = "open"

-----------------------------------------------------------------------------
AtLeast(a, b) == IF a >= b THEN a ELSE b
AtMost(a, b) == IF a <= b THEN a ELSE b

(* Same as mapRetryToPriorityIndex, going round the priorities.            *)
mapRetryToPriorityIndex_Wraps(try, numPriorities, totalAttempts) ==
    IF numPriorities <= 0 \/ try < 0 THEN 0 ELSE try % numPriorities

(* The tries that exceed the number of priorities all go to the first one. *)
mapRetryToPriorityIndex(try, numPriorities, totalAttempts) ==
    LET total == AtLeast(totalAttempts, numPriorities)
        firstBucketCount == 1 + total - numPriorities
    IN  IF numPriorities <= 0 \/ try < firstBucketCount THEN 0
        ELSE AtMost(1 + try - firstBucketCount, numPriorities - 1)

(* GetRandomSatisfiedChannel: the level of the channel it returns for a    *)
(* group that has one.                                                     *)
Chosen(g, try) ==
    LET n == mapRetryToPriorityIndex(try, Cardinality(avail[g]), RetryTimes + 1)
    IN  CHOOSE l \in avail[g] : Cardinality({m \in avail[g] : m < l}) = n

(* The groups that the token may use.                                      *)
Usable == IF token = "one" THEN {1} ELSE Group

(* Same as StopsAt, without the order of the groups.                       *)
StopsAt_AnyGroup(g) == g \in Usable /\ g >= idx /\ avail[g] # {}

(* The loop of CacheGetRandomSatisfiedChannel over the groups stops at g.  *)
(* An empty group is passed over; so is one whose channels disappear       *)
(* between the two locked reads of GetRandomSatisfiedChannel.              *)
StopsAt(g) ==
    /\ g \in Usable /\ g >= idx
    /\ avail[g] # {}
    /\ \A h \in Usable : h >= idx /\ h < g => avail[h] = {} \/ ~steady

FindsNone == \A g \in Usable : g >= idx => avail[g] = {} \/ ~steady

(* priorityRetry, and with it the value the counter is left at.            *)
TryIn(g, r) == IF g > idx THEN 0 ELSE r

Exhausted(g, r) == token = "cross" /\ TryIn(g, r) >= RetryTimes

(* The group index while the group still has tries; without "auto" there   *)
(* is none.                                                                *)
Kept(g) == IF token = "one" THEN idx ELSE g

Record(g, l) ==
    /\ log' = IF steady THEN Append(log, <<g, l>>) ELSE log
    /\ attempts' = attempts + 1
    /\ phase' = "relay"

End(w) == phase' = "end" /\ why' = w

-----------------------------------------------------------------------------
(* The distributor calls CacheGetRandomSatisfiedChannel with a RetryParam  *)
(* of its own: of its outcome only the group index stays in the context.   *)
Distribute(g) ==
    /\ phase = "distribute"
    /\ StopsAt(g)
    /\ Record(g, Chosen(g, 0))
    /\ idx' = IF Exhausted(g, 0) THEN g + 1 ELSE Kept(g)
    /\ UNCHANGED <<token, avail, steady, retry, reset, why>>

DistributeNone ==
    /\ phase = "distribute"
    /\ FindsNone
    /\ End("none")
    /\ UNCHANGED <<token, avail, paramVars, historyVars>>

(* A preferred channel is taken from whichever group has it; the group     *)
(* index is not set.                                                       *)
DistributePreferred ==
    /\ phase = "distribute"
    /\ \E g \in Usable : avail[g] # {}
    /\ attempts' = attempts + 1
    /\ phase' = "relay"
    /\ steady' = FALSE
    /\ UNCHANGED <<token, avail, paramVars, log, why>>

(* Same as Select, but the counter is not taken back when the group is     *)
(* given up.                                                               *)
Select_KeepsRetry(g) ==
    /\ phase = "select"
    /\ StopsAt(g)
    /\ Record(g, Chosen(g, TryIn(g, retry)))
    /\ retry' = TryIn(g, retry)
    /\ idx' = IF Exhausted(g, retry) THEN g + 1 ELSE Kept(g)
    /\ UNCHANGED <<token, avail, steady, reset, why>>

(* getChannel on a retry.  When the group has used up its tries, the next  *)
(* retry starts again at 0 in the group after it.                          *)
Select(g) ==
    /\ phase = "select"
    /\ StopsAt(g)
    /\ Record(g, Chosen(g, TryIn(g, retry)))
    /\ IF Exhausted(g, retry)
       THEN idx' = g + 1 /\ retry' = 0 /\ reset' = TRUE
       ELSE /\ idx' = Kept(g)
            /\ retry' = TryIn(g, retry)
            /\ UNCHANGED reset
    /\ UNCHANGED <<token, avail, steady, why>>

SelectNone ==
    /\ phase = "select"
    /\ FindsNone
    /\ End("exhausted")
    /\ idx' = IF token = "one" THEN idx ELSE Groups + 1
    /\ retry' = IF token = "one" THEN retry ELSE 0
    /\ UNCHANGED <<token, avail, reset, historyVars>>

Answered ==
    /\ phase = "relay"
    /\ End("ok")
    /\ UNCHANGED <<token, avail, paramVars, historyVars>>

(* shouldRetry says no whatever the counter.                               *)
FailsForGood ==
    /\ phase = "relay"
    /\ End("fatal")
    /\ UNCHANGED <<token, avail, paramVars, historyVars>>

(* Same as IncreaseRetry, but the flag stays set.                          *)
IncreaseRetry_KeepsReset ==
    IF reset THEN phase' = "select" /\ UNCHANGED <<retry, reset, why>>
    ELSE IF retry < RetryTimes
    THEN retry' = retry + 1 /\ phase' = "select" /\ UNCHANGED <<reset, why>>
    ELSE End("exhausted") /\ UNCHANGED <<retry, reset>>

(* IncreaseRetry and the loop's condition.                                 *)
IncreaseRetry ==
    IF reset THEN reset' = FALSE /\ phase' = "select" /\ UNCHANGED <<retry, why>>
    ELSE IF retry < RetryTimes
    THEN retry' = retry + 1 /\ phase' = "select" /\ UNCHANGED <<reset, why>>
    ELSE End("exhausted") /\ UNCHANGED <<retry, reset>>

(* An error of the channel itself is retried without a look at the number  *)
(* of retries, any other only while RetryTimes - Retry > 0.                *)
Fails ==
    /\ phase = "relay"
    /\ \/ IncreaseRetry
       \/ /\ RetryTimes - retry <= 0
          /\ End("exhausted")
          /\ UNCHANGED <<retry, reset>>
    /\ UNCHANGED <<token, avail, idx, historyVars>>

(* Channels are enabled and disabled behind the request's back.            *)
Change(g) ==
    /\ phase # "end"
    /\ \E s \in SUBSET Level : avail' = [avail EXCEPT ![g] = s]
    /\ steady' = FALSE /\ log' = <<>>
    /\ UNCHANGED <<token, phase, paramVars, attempts, why>>

(* The request is over.                                                    *)
Ended == phase = "end" /\ UNCHANGED vars

Next ==
    \/ \E g \in Group : Distribute(g) \/ Select(g) \/ Change(g)
    \/ DistributeNone \/ DistributePreferred \/ SelectNone
    \/ Answered \/ FailsForGood \/ Fails \/ Ended

Spec == Init /\ [][Next]_vars

-----------------------------------------------------------------------------
(* However errors, groups and channels come and go, a request is sent      *)
(* upstream at most RetryTimes + 1 times per group: the resets of the      *)
(* counter never let the loop of Relay start over in a group.              *)
AttemptsBounded == attempts <= Groups * (RetryTimes + 1)

Tried(g) == {l \in Level : \E n \in DOMAIN log : log[n] = <<g, l>>}

(* Each group has a try for each of its priorities.                        *)
EnoughTries == \A g \in Group : Cardinality(avail[g]) <= RetryTimes + 1

(* Of the comment of CacheGetRandomSatisfiedChannel: each group exhausts   *)
(* all its priorities before moving to the next group, if it has the tries *)
(* for it and its channels stay.                                           *)
ExhaustsBeforeMoving ==
    EnoughTries =>
        \A n \in DOMAIN log : \A g \in Group :
            g < log[n][1] => avail[g] \subseteq Tried(g)

(* A request that gives up has tried every priority of the group it was    *)
(* in, and with cross-group retry every priority of every group, unless    *)
(* retries are switched off.                                               *)
GivesUpLast ==
    why = "exhausted" /\ steady /\ EnoughTries /\ RetryTimes > 0 =>
        \/ token # "cross" /\ \E g \in Usable : avail[g] # {} /\ avail[g] = Tried(g)
        \/ \A g \in Usable : avail[g] = Tried(g)

(* Retries never go back up: not to an earlier group, and within a group   *)
(* not to a higher priority.                                               *)
NeverClimbs ==
    \A m, n \in DOMAIN log : m < n =>
        \/ log[m][1] < log[n][1]
        \/ log[m][1] = log[n][1] /\ log[m][2] <= log[n][2]
=============================================================================
