---------------------------- MODULE TaskBilling ----------------------------
(***************************************************************************)
(* Asynchronous tasks (videos, songs) and what they cost.  RelayTask       *)
(* charges the user at submission and inserts a row in the tasks table;    *)
(* on every master node a polling loop first sweeps the tasks that are     *)
(* overdue, then asks the upstream about the unfinished ones; the request  *)
(* that looks at a Gemini or Vertex task asks the upstream as well.        *)
(* Whoever moves a task to its end refunds it or settles the difference.   *)
(*                                                                         *)
(* A poller works on rows it has read earlier: each statement of the       *)
(* database, each answer of the upstream and each half of an adjustment    *)
(* (wallet, then token) is a step of its own.  The pre-charge and its      *)
(* settlement at submission are those of module BillingSession and appear  *)
(* here as one step.                                                       *)
(***************************************************************************)
EXTENDS Integers

CONSTANTS
    Task,
    Channel,
    Poller,        \* master nodes, one TaskPollingLoop each
    Fetcher,       \* requests of users that look at a task
    Platform,      \* Platform[t]: see TaskPlatform
    ChannelOf,     \* the channel a task was submitted to
    Quota,         \* Quota[t]: what the submission was charged
    Site           \* the circumstances looked at, one of which is picked

(* "suno" tasks have their own update function, "realtime" are the video   *)
(* tasks of Gemini and Vertex channels, "video" all the others.            *)
TaskPlatform == {"suno", "video", "realtime"}

ASSUME TaskBillingAssumption ==
    /\ Platform \in [Task -> TaskPlatform]
    /\ ChannelOf \in [Task -> Channel]
    /\ Quota \in [Task -> Nat]
    /\ Task # {}
    /\ \A s \in Site : /\ s.tasks \subseteq Task /\ s.tasks # {}
                      /\ s.procs \subseteq Poller \cup Fetcher
                      /\ s.actual \subseteq Nat
                      /\ {s.miss, s.fail, s.crash} \subseteq BOOLEAN
    /\ Poller \cap Fetcher = {}

(* A channel has one type, so its tasks are of one platform.               *)
ASSUME OneType == \A t, u \in Task : ChannelOf[t] = ChannelOf[u] => Platform[t] = Platform[u]

Proc == Poller \cup Fetcher

(* IN_PROGRESS stands for SUBMITTED and QUEUED too.  A task that was       *)
(* charged but has no row yet is "charged"; it is "lost" when its row      *)
(* could not be inserted.                                                  *)
Terminal == {"SUCCESS", "FAILURE"}
Running == {"NOT_START", "IN_PROGRESS"}
Status == Running \cup Terminal \cup {"absent", "charged", "lost"}

VARIABLES
    site,        \* the tasks and processes there, and what may go wrong
    status,      \* tasks.status
    full,        \* tasks.progress = "100%"
    upstream,    \* how the task really stands at the provider
    late,        \* submit_time is older than the timeout
    dropped,     \* history: tasks ended because their channel was not found
    walletNet,   \* history: net amount the task took from the wallet
    tokenNet,    \* history: net amount the task took from the token
    faulty,      \* history: an adjustment of the task failed or died half-way
    pc,
    todo,        \* tasks the poller has read and still has to handle
    seen,        \* the status of each task in the row that was read
    cur,         \* the task being handled
    got,         \* the status the upstream reported for it
    owed,        \* what the adjustment under way takes (gives back, if negative)
    ret          \* where to go on after the adjustment

rowVars == <<status, full>>
worldVars == <<upstream, late, dropped>>
moneyVars == <<walletNet, tokenNet, faulty>>
procVars == <<pc, todo, seen, cur, got, owed, ret>>
vars == <<site, rowVars, worldVars, moneyVars, procVars>>

Actual == site.actual       \* charges an adaptor may compute at completion; 0: none
MayMiss == site.miss        \* CacheGetChannel may fail
MayFail == site.fail        \* database statements may fail
MayCrash == site.crash      \* nodes may die and restart

Init ==
    /\ site \in Site
    /\ status = [t \in Task |-> "absent"]
    /\ full = [t \in Task |-> FALSE]
    /\ upstream = [t \in Task |-> "IN_PROGRESS"]
    /\ late = [t \in Task |-> FALSE]
    /\ dropped = {}
    /\ walletNet = [t \in Task |-> 0]
    /\ tokenNet = [t \in Task |-> 0]
    /\ faulty = [t \in Task |-> FALSE]
    /\ pc = [p \in Proc |-> "idle"]
    /\ todo = [p \in Proc |-> {}]
    /\ seen = [p \in Proc |-> [t \in Task |-> "absent"]]
    /\ cur = [p \in Proc |-> CHOOSE t \in site.tasks : TRUE]
    /\ got = [p \in Proc |-> "IN_PROGRESS"]
    /\ owed = [p \in Proc |-> 0]
    /\ ret = [p \in Proc |-> "idle"]

Goto(p, l) == pc' = [pc EXCEPT ![p] = l]

Write(t, s, f) ==
    /\ status' = [status EXCEPT ![t] = s]
    /\ full' = [full EXCEPT ![t] = f]

-----------------------------------------------------------------------------
(* Submission, and what happens outside the gateway.                       *)

(* RelayTask up to SettleBilling: the user has paid Quota[t].              *)
Submit(t) ==
    /\ status[t] = "absent"
    /\ status' = [status EXCEPT ![t] = "charged"]
    /\ walletNet' = [walletNet EXCEPT ![t] = Quota[t]]
    /\ tokenNet' = [tokenNet EXCEPT ![t] = Quota[t]]
    /\ UNCHANGED <<full, faulty, worldVars, procVars>>

(* InitTask and Insert, whose error is only logged.  A crash before it has *)
(* the same effect.                                                        *)
InsertTask(t) ==
    /\ status[t] = "charged"
    /\ \/ Write(t, "NOT_START", FALSE)
       \/ (MayFail \/ MayCrash) /\ Write(t, "lost", FALSE)
    /\ UNCHANGED <<worldVars, moneyVars, procVars>>

UpstreamEnds(t) ==
    /\ status[t] # "absent" /\ upstream[t] = "IN_PROGRESS"
    /\ \E s \in Terminal : upstream' = [upstream EXCEPT ![t] = s]
    /\ UNCHANGED <<rowVars, late, dropped, moneyVars, procVars>>

TimePasses(t) ==
    /\ status[t] \notin {"absent", "charged"} /\ ~late[t]
    /\ late' = [late EXCEPT ![t] = TRUE]
    /\ UNCHANGED <<rowVars, upstream, dropped, moneyVars, procVars>>

-----------------------------------------------------------------------------
(* Refunds and settlements: taskAdjustFunding, then taskAdjustTokenQuota.  *)

(* Both ends of p's work on cur[p]: adjust by n and go on at l, at once    *)
(* when there is nothing to adjust.                                        *)
AdjustThen(p, n, l) ==
    /\ owed' = [owed EXCEPT ![p] = n]
    /\ ret' = [ret EXCEPT ![p] = l]
    /\ Goto(p, IF n = 0 THEN l ELSE "wallet")

AdjustmentFails(p) == faulty' = [faulty EXCEPT ![cur[p]] = TRUE]

(* An error of the wallet's part ends the adjustment.                      *)
AdjustFunding(p) ==
    /\ pc[p] = "wallet"
    /\ \/ /\ walletNet' = [walletNet EXCEPT ![cur[p]] = @ + owed[p]]
          /\ Goto(p, "token")
          /\ UNCHANGED faulty
       \/ /\ MayFail /\ AdjustmentFails(p)
          /\ Goto(p, ret[p])
          /\ UNCHANGED walletNet
    /\ UNCHANGED <<rowVars, worldVars, tokenNet, todo, seen, cur, got, owed, ret>>

(* Nothing happens when the token is gone; an error is logged.             *)
AdjustToken(p) ==
    /\ pc[p] = "token"
    /\ \/ tokenNet' = [tokenNet EXCEPT ![cur[p]] = @ + owed[p]] /\ UNCHANGED faulty
       \/ MayFail /\ AdjustmentFails(p) /\ UNCHANGED tokenNet
    /\ Goto(p, ret[p])
    /\ UNCHANGED <<rowVars, worldVars, walletNet, todo, seen, cur, got, owed, ret>>

-----------------------------------------------------------------------------
(* sweepTimedOutTasks.                                                     *)

Unfinished == {t \in Task : status[t] \in Running /\ ~full[t]}

(* p reads the rows of S.                                                  *)
ReadRows(p, S) ==
    /\ todo' = [todo EXCEPT ![p] = S]
    /\ seen' = [seen EXCEPT ![p] = [t \in Task |-> IF t \in S THEN status[t] ELSE "absent"]]

(* Variant: tasks the upstream has started are not swept.                  *)
ListTimedOut_NotStarted(p) ==
    /\ pc[p] = "idle"
    /\ ReadRows(p, {t \in Unfinished : late[t] /\ status[t] = "NOT_START"})
    /\ Goto(p, "sweep")
    /\ UNCHANGED <<rowVars, worldVars, moneyVars, cur, got, owed, ret>>

(* GetTimedOutUnfinishedTasks.                                             *)
ListTimedOut(p) ==
    /\ pc[p] = "idle"
    /\ ReadRows(p, {t \in Unfinished : late[t]})
    /\ Goto(p, "sweep")
    /\ UNCHANGED <<rowVars, worldVars, moneyVars, cur, got, owed, ret>>

(* Variants: the update is not guarded by the status that was read; the    *)
(* winner does not refund.                                                 *)
SweepTask_Unguarded(p, t) ==
    /\ pc[p] = "sweep" /\ t \in todo[p]
    /\ todo' = [todo EXCEPT ![p] = @ \ {t}]
    /\ cur' = [cur EXCEPT ![p] = t]
    /\ Write(t, "FAILURE", TRUE)
    /\ AdjustThen(p, -Quota[t], "sweep")
    /\ UNCHANGED <<worldVars, moneyVars, seen, got>>

SweepTask_NoRefund(p, t) ==
    /\ pc[p] = "sweep" /\ t \in todo[p]
    /\ todo' = [todo EXCEPT ![p] = @ \ {t}]
    /\ cur' = [cur EXCEPT ![p] = t]
    /\ IF status[t] = seen[p][t] THEN Write(t, "FAILURE", TRUE) ELSE UNCHANGED rowVars
    /\ UNCHANGED <<worldVars, moneyVars, pc, seen, got, owed, ret>>

(* UpdateWithStatus to FAILURE, and RefundTaskQuota for the winner.        *)
SweepTask(p, t) ==
    /\ pc[p] = "sweep" /\ t \in todo[p]
    /\ todo' = [todo EXCEPT ![p] = @ \ {t}]
    /\ cur' = [cur EXCEPT ![p] = t]
    /\ \/ /\ status[t] = seen[p][t]
          /\ Write(t, "FAILURE", TRUE)
          /\ AdjustThen(p, -Quota[t], "sweep")
       \/ /\ status[t] # seen[p][t] \/ MayFail
          /\ UNCHANGED <<rowVars, pc, owed, ret>>
    /\ UNCHANGED <<worldVars, moneyVars, seen, got>>

-----------------------------------------------------------------------------
(* The polling of unfinished tasks.                                        *)

(* GetAllUnFinishSyncTasks.                                                *)
ListUnfinished(p) ==
    /\ pc[p] = "sweep" /\ todo[p] = {}
    /\ ReadRows(p, Unfinished)
    /\ Goto(p, "poll")
    /\ UNCHANGED <<rowVars, worldVars, moneyVars, cur, got, owed, ret>>

(* CacheGetChannel fails: the channel was deleted, is missing from this    *)
(* node's cache, or cannot be read.  TaskBulkUpdateByID ends all the tasks *)
(* of the channel that were read, with no guard and no refund.  The        *)
(* channel is looked up once in a round, before its first task.            *)
BulkFail(p, c) ==
    /\ MayMiss /\ pc[p] = "poll"
    /\ LET ids == {t \in Task : ChannelOf[t] = c /\ seen[p][t] # "absent"}
       IN  /\ ids # {} /\ ids \subseteq todo[p]
           /\ status' = [t \in Task |-> IF t \in ids THEN "FAILURE" ELSE status[t]]
           /\ full' = [t \in Task |-> IF t \in ids THEN TRUE ELSE full[t]]
           /\ dropped' = dropped \cup ids
           /\ todo' = [todo EXCEPT ![p] = @ \ ids]
    /\ UNCHANGED <<upstream, late, moneyVars, pc, seen, cur, got, owed, ret>>

(* What the upstream may report: how the task stands, or a failure (an     *)
(* error message counts as one).  A song may come with a reason for its    *)
(* failure but no final status.                                            *)
Reports(t) == {upstream[t], "FAILURE"} \cup (IF Platform[t] = "suno" THEN {"FAIL_REASON"} ELSE {})

(* FetchTask and the parsing of its answer.                                *)
FetchTask(p, t) ==
    /\ pc[p] = "poll" /\ t \in todo[p]
    /\ todo' = [todo EXCEPT ![p] = @ \ {t}]
    /\ cur' = [cur EXCEPT ![p] = t]
    /\ \E s \in Reports(t) : got' = [got EXCEPT ![p] = s]
    /\ Goto(p, IF Platform[t] = "suno" THEN "suno" ELSE "apply")
    /\ UNCHANGED <<rowVars, worldVars, moneyVars, seen, owed, ret>>

(* The request fails, is answered with 429 or with something unreadable,   *)
(* or TaskBulkUpdateByID fails: the task is left to the next round.        *)
FetchFails(p, t) ==
    /\ pc[p] = "poll" /\ t \in todo[p]
    /\ todo' = [todo EXCEPT ![p] = @ \ {t}]
    /\ UNCHANGED <<rowVars, worldVars, moneyVars, pc, seen, cur, got, owed, ret>>

(* Variant: Update instead of UpdateWithStatus.                            *)
ApplyVideo_Unguarded(p) ==
    /\ pc[p] = "apply" /\ p \in Poller
    /\ Write(cur[p], got[p], got[p] \in Terminal)
    /\ AdjustThen(p, IF got[p] = "FAILURE" THEN -Quota[cur[p]] ELSE 0, "poll")
    /\ UNCHANGED <<worldVars, moneyVars, todo, seen, cur, got>>

(* updateVideoSingleTask after the report: UpdateWithStatus guarded by the *)
(* status that was read; only the winner of a final transition refunds, or *)
(* settles with what the adaptor computes (settleTaskBillingOnComplete).   *)
ApplyVideo(p) ==
    LET t == cur[p]
        won == status[t] = seen[p][t]
    IN  /\ pc[p] = "apply" /\ p \in Poller
        /\ \/ /\ won
              /\ Write(t, got[p], got[p] \in Terminal)
              /\ \/ got[p] = "SUCCESS" /\ \E a \in Actual :
                       AdjustThen(p, IF a = 0 THEN 0 ELSE a - Quota[t], "poll")
                 \/ got[p] = "FAILURE" /\ AdjustThen(p, -Quota[t], "poll")
                 \/ got[p] = "IN_PROGRESS" /\ AdjustThen(p, 0, "poll")
           \/ /\ ~won \/ MayFail
              /\ Goto(p, "poll")
              /\ UNCHANGED <<rowVars, owed, ret>>
        /\ UNCHANGED <<worldVars, moneyVars, todo, seen, cur, got>>

(* Variant: only a reason is refunded, not the status FAILURE.             *)
RefundSuno_ReasonOnly(p) ==
    /\ pc[p] = "suno"
    /\ AdjustThen(p, IF got[p] = "FAIL_REASON" THEN -Quota[cur[p]] ELSE 0, "save")
    /\ UNCHANGED <<rowVars, worldVars, moneyVars, todo, seen, cur, got>>

(* updateSunoTasks: the refund comes first ...                             *)
RefundSuno(p) ==
    /\ pc[p] = "suno"
    /\ AdjustThen(p, IF got[p] \in {"FAILURE", "FAIL_REASON"} THEN -Quota[cur[p]] ELSE 0, "save")
    /\ UNCHANGED <<rowVars, worldVars, moneyVars, todo, seen, cur, got>>

(* ... then the row is saved, whatever it holds by now.                    *)
SaveSuno(p) ==
    /\ pc[p] = "save"
    /\ \/ Write(cur[p], IF got[p] = "FAIL_REASON" THEN seen[p][cur[p]] ELSE got[p],
                got[p] # "IN_PROGRESS")
       \/ MayFail /\ UNCHANGED rowVars
    /\ Goto(p, "poll")
    /\ UNCHANGED <<worldVars, moneyVars, todo, seen, cur, got, owed, ret>>

(* What was read is forgotten.                                             *)
EndRound(p) ==
    /\ pc[p] = "poll" /\ todo[p] = {}
    /\ Goto(p, "idle")
    /\ seen' = [seen EXCEPT ![p] = [t \in Task |-> "absent"]]
    /\ got' = [got EXCEPT ![p] = "IN_PROGRESS"]
    /\ owed' = [owed EXCEPT ![p] = 0]
    /\ UNCHANGED <<rowVars, worldVars, moneyVars, todo, cur, ret>>

-----------------------------------------------------------------------------
(* videoFetchByIDRespBodyBuilder with tryRealtimeFetch.                    *)

ReadTask(f, t) ==
    /\ f \in Fetcher /\ pc[f] = "idle"
    /\ Platform[t] = "realtime"
    /\ status[t] \in Running \cup Terminal
    /\ seen' = [seen EXCEPT ![f][t] = status[t]]
    /\ cur' = [cur EXCEPT ![f] = t]
    /\ \E s \in Reports(t) : got' = [got EXCEPT ![f] = s]
    /\ Goto(f, "apply")
    /\ UNCHANGED <<rowVars, worldVars, moneyVars, todo, owed, ret>>

(* The reported status replaces the one that was read, final or not, and   *)
(* nothing is refunded or settled.                                         *)
ApplyRealtime(f) ==
    /\ f \in Fetcher /\ pc[f] = "apply"
    /\ \/ status[cur[f]] = seen[f][cur[f]] /\ Write(cur[f], got[f], got[f] \in Terminal)
       \/ (status[cur[f]] # seen[f][cur[f]] \/ MayFail) /\ UNCHANGED rowVars
    /\ Goto(f, "idle")
    /\ UNCHANGED <<worldVars, moneyVars, todo, seen, cur, got, owed, ret>>

-----------------------------------------------------------------------------

(* A master node dies and starts again.                                    *)
Crash(p) ==
    /\ MayCrash
    /\ p \in Poller /\ pc[p] # "idle"
    /\ Goto(p, "idle")
    /\ todo' = [todo EXCEPT ![p] = {}]
    /\ IF pc[p] \in {"wallet", "token"} THEN AdjustmentFails(p) ELSE UNCHANGED faulty
    /\ UNCHANGED <<rowVars, worldVars, walletNet, tokenNet, seen, cur, got, owed, ret>>

Adjust(p) == AdjustFunding(p) \/ AdjustToken(p)

Poll(p) ==
    \/ ListTimedOut(p) \/ ListUnfinished(p) \/ ApplyVideo(p) \/ RefundSuno(p) \/ SaveSuno(p)
    \/ EndRound(p)
    \/ \E t \in Task : SweepTask(p, t) \/ FetchTask(p, t) \/ FetchFails(p, t)
    \/ \E c \in Channel : BulkFail(p, c)

Fetch(f) == (\E t \in Task : ReadTask(f, t)) \/ ApplyRealtime(f)

World ==
    \/ \E t \in site.tasks : Submit(t)
    \/ \E t \in Task : UpstreamEnds(t) \/ TimePasses(t)

Next ==
    /\ UNCHANGED site
    /\ \/ World
       \/ \E t \in Task : InsertTask(t)
       \/ \E p \in Poller \cap site.procs : Poll(p) \/ Adjust(p) \/ Crash(p)
       \/ \E f \in Fetcher \cap site.procs : Fetch(f)

Spec == Init /\ [][Next]_vars

(* The loop runs on every master node, requests are carried through, and   *)
(* the clock goes on.  The upstream need not end a task, nor answer.       *)
FairSpec ==
    /\ Spec
    /\ \A t \in Task : /\ WF_vars(UNCHANGED site /\ InsertTask(t))
                       /\ WF_vars(UNCHANGED site /\ TimePasses(t))
    /\ \A p \in Poller :
          WF_vars(p \in site.procs /\ UNCHANGED site /\ (Poll(p) \/ Adjust(p)))

-----------------------------------------------------------------------------
(* Properties.                                                             *)

(* Every variable has its type.                                            *)
TypeOK ==
    /\ site \in Site
    /\ status \in [Task -> Status] /\ full \in [Task -> BOOLEAN]
    /\ upstream \in [Task -> Terminal \cup {"IN_PROGRESS"}]
    /\ late \in [Task -> BOOLEAN] /\ dropped \subseteq Task
    /\ walletNet \in [Task -> Int] /\ tokenNet \in [Task -> Int]
    /\ faulty \in [Task -> BOOLEAN]
    /\ pc \in [Proc -> {"idle", "sweep", "poll", "apply", "suno", "save", "wallet", "token"}]
    /\ todo \in [Proc -> SUBSET Task]
    /\ seen \in [Proc -> [Task -> Status]]
    /\ cur \in [Proc -> Task]
    /\ got \in [Proc -> Terminal \cup {"IN_PROGRESS", "FAIL_REASON"}]
    /\ owed \in [Proc -> Int]
    /\ ret \in [Proc -> {"idle", "sweep", "poll", "save"}]

(* A task is never given back more than it cost: sweeps, polls and looks   *)
(* at it, on any number of nodes, refund it at most once.                  *)
NeverOverRefunded == \A t \in Task : walletNet[t] >= 0 /\ tokenNet[t] >= 0

Working(t) == \E p \in Poller : pc[p] \in {"wallet", "token"} /\ cur[p] = t

(* Billing follows the final status: once nobody works on it any more, a   *)
(* failed task cost nothing and a successful one its quota or the charge   *)
(* computed at completion, unless an adjustment failed half-way or the     *)
(* task was given up because CacheGetChannel failed: BulkFail refunds      *)
(* nothing, whether or not the channel still exists.                       *)
FinalBill ==
    \A t \in Task :
        status[t] \in Terminal /\ ~Working(t) /\ ~faulty[t] /\ t \notin dropped =>
            /\ status[t] = "FAILURE" => walletNet[t] = 0 /\ tokenNet[t] = 0
            /\ status[t] = "SUCCESS" => /\ walletNet[t] \in {Quota[t]} \cup (Actual \ {0})
                                        /\ tokenNet[t] = walletNet[t]

(* A final status stays: a failure for good, a success unless a poller     *)
(* that read the row earlier gives the task up (BulkFail is not guarded),  *)
(* so that a task that has been refunded or settled is not taken up again. *)
(* (Not the real-time ones: a client's look may open such a task again.)   *)
FinalStays ==
    [][\A t \in Task :
          status[t] \in Terminal /\ Platform[t] # "realtime" =>
              \/ status'[t] = status[t]
              \/ status'[t] = "FAILURE" /\ t \in dropped']_vars

(* No task stays open for ever: even when the upstream never answers, the  *)
(* sweep ends the polling of every task whose row was inserted, so that    *)
(* again and again none is open.  (A node that dies in every round never   *)
(* gets there.)                                                            *)
TasksEnd == []<>(MayCrash \/ Unfinished = {})
=============================================================================
