------------------------- MODULE TaskBillingProofs -------------------------
(***************************************************************************)
(* What asynchronous tasks cost, for any number of tasks, channels, master *)
(* nodes and clients, with failing statements, crashes and channels that   *)
(* cannot be looked up: no refund is given twice, the bill follows the     *)
(* final status unless the task was given up without a refund, and a final *)
(* status stays.                                                           *)
(***************************************************************************)
EXTENDS TaskBilling, TLAPS

(* What the code's guards are good for.  Videos need nothing: whoever ends *)
(* one has won UpdateWithStatus.  A song is refunded before its row is     *)
(* saved, with no guard: one master node that neither dies nor fails.      *)
(* A client's look at a Gemini or Vertex task writes its status and leaves *)
(* the bill: only free ones are accounted for.                             *)
SoundTask(s, t) ==
    \/ Platform[t] = "video"
    \/ /\ Platform[t] = "suno" /\ ~s.fail /\ ~s.crash
       /\ \A p, q \in Poller \cap s.procs : p = q
    \/ Platform[t] = "realtime" /\ Quota[t] = 0 /\ s.actual \subseteq {0}

SoundSites == \A s \in Site : \A t \in s.tasks : SoundTask(s, t)

-----------------------------------------------------------------------------
(* What each process has in hand.                                          *)

Adjusting(p) == pc[p] \in {"wallet", "token"}

(* What a poller has in hand was unfinished when it was read, and each     *)
(* platform's tasks go their own way.                                      *)
PollerInv(p) ==
    /\ \A t \in todo[p] : seen[p][t] \in Running
    /\ pc[p] \in {"apply", "suno", "save"} => seen[p][cur[p]] \in Running
    /\ pc[p] = "apply" => Platform[cur[p]] # "suno" /\ got[p] # "FAIL_REASON"
    /\ pc[p] \in {"suno", "save"} => Platform[cur[p]] = "suno"
    /\ Adjusting(p) =>
          /\ ret[p] # "idle"
          /\ ret[p] = "save" => /\ Platform[cur[p]] = "suno"
                                /\ seen[p][cur[p]] \in Running
                                /\ got[p] \in {"FAILURE", "FAIL_REASON"}
                                /\ owed[p] = -Quota[cur[p]]

FetcherInv(f) ==
    /\ pc[f] \in {"idle", "apply"} /\ todo[f] = {}
    /\ pc[f] = "apply" => Platform[cur[f]] = "realtime" /\ got[f] # "FAIL_REASON"

(* Only the tasks and the processes of the site are ever touched.          *)
HandInv(p) ==
    /\ p \in Poller => PollerInv(p)
    /\ p \in Fetcher => FetcherInv(p)
    /\ p \notin site.procs => pc[p] = "idle" /\ todo[p] = {}
    /\ cur[p] \in site.tasks /\ todo[p] \subseteq site.tasks

ProcInv ==
    /\ \A p \in Proc : HandInv(p)
    /\ \A t \in Task : status[t] # "absent" => t \in site.tasks

BaseInv == TypeOK /\ ProcInv

(* A step of p is a step of nobody else.                                   *)
SameHand(p) ==
    /\ pc'[p] = pc[p] /\ todo'[p] = todo[p] /\ seen'[p] = seen[p] /\ cur'[p] = cur[p]
    /\ got'[p] = got[p] /\ owed'[p] = owed[p] /\ ret'[p] = ret[p]

LEMMA HandSame ==
    ASSUME NEW p \in Proc, HandInv(p), SameHand(p), site' = site PROVE HandInv(p)'
BY DEF HandInv, PollerInv, FetcherInv, Adjusting, SameHand

LEMMA InitBase == Init => BaseInv
<1> SUFFICES ASSUME Init PROVE BaseInv
  OBVIOUS
<1> USE TaskBillingAssumption
<1>1. (CHOOSE t \in site.tasks : TRUE) \in site.tasks
  BY DEF Init
<1>2. TypeOK
  BY <1>1 DEF Init, TypeOK, Status, Terminal, Running
<1>3. ASSUME NEW p \in Proc PROVE HandInv(p)
  BY <1>1 DEF Init, HandInv, PollerInv, FetcherInv, Adjusting
<1> QED
  BY <1>2, <1>3 DEF Init, BaseInv, ProcInv

-----------------------------------------------------------------------------
(* Everything but the handling of a task keeps its type.                   *)

LEMMA WorldBase == ASSUME BaseInv, site' = site, World PROVE BaseInv'
<1> USE TaskBillingAssumption DEF BaseInv
<1>0. TypeOK
  OBVIOUS
<1>1. UNCHANGED procVars
  BY DEF World, Submit, UpstreamEnds, TimePasses
<1>2. TypeOK'
  <2> USE DEF TypeOK, procVars, rowVars, worldVars, moneyVars
  <2>1. ASSUME NEW t \in Task, Submit(t) PROVE TypeOK'
    <3>1. status' \in [Task -> Status]
      BY <2>1 DEF Submit, Status
    <3>2. walletNet' \in [Task -> Int] /\ tokenNet' \in [Task -> Int]
      BY <2>1 DEF Submit
    <3> QED
      BY <2>1, <3>1, <3>2 DEF Submit
  <2>2. ASSUME NEW t \in Task, UpstreamEnds(t) PROVE TypeOK'
    <3>1. upstream' \in [Task -> Terminal \cup {"IN_PROGRESS"}]
      BY <2>2 DEF UpstreamEnds
    <3> QED
      BY <2>2, <3>1 DEF UpstreamEnds
  <2>3. ASSUME NEW t \in Task, TimePasses(t) PROVE TypeOK'
    <3>1. late' \in [Task -> BOOLEAN]
      BY <2>3 DEF TimePasses
    <3> QED
      BY <2>3, <3>1 DEF TimePasses
  <2> QED
    BY <2>1, <2>2, <2>3 DEF World
<1>3. \A p \in Proc : HandInv(p)'
  BY <1>1, HandSame DEF SameHand, procVars, ProcInv
<1>4. \A t \in Task : status'[t] # "absent" => t \in site.tasks
  BY DEF World, Submit, UpstreamEnds, TimePasses, ProcInv, TypeOK, rowVars
<1> QED
  BY <1>2, <1>3, <1>4 DEF ProcInv

LEMMA InsertBase == ASSUME BaseInv, site' = site, NEW t \in Task, InsertTask(t) PROVE BaseInv'
<1> USE TaskBillingAssumption DEF BaseInv
<1>1. UNCHANGED procVars
  BY DEF InsertTask
<1>2. TypeOK'
  BY DEF InsertTask, Write, TypeOK, procVars, worldVars, moneyVars, Status, Running
<1>3. \A p \in Proc : HandInv(p)'
  BY <1>1, HandSame DEF SameHand, procVars, ProcInv
<1>4. \A u \in Task : status'[u] # "absent" => u \in site.tasks
  BY DEF InsertTask, Write, ProcInv, TypeOK
<1> QED
  BY <1>2, <1>3, <1>4 DEF ProcInv

(* The lists a poller reads.                                               *)
LEMMA ListBase ==
    ASSUME BaseInv, site' = site, NEW p \in Poller \cap site.procs,
           ListTimedOut(p) \/ ListUnfinished(p)
    PROVE  BaseInv'
<1> USE TaskBillingAssumption DEF BaseInv
<1>0. p \in Proc /\ p \notin Fetcher
  BY DEF Proc
<1>1. /\ UNCHANGED <<rowVars, worldVars, moneyVars, cur, got, owed, ret>>
      /\ todo'[p] \subseteq Unfinished /\ pc'[p] \in {"sweep", "poll"} /\ (\A t \in todo'[p] : seen'[p][t] = status[t])
      /\ \A q \in Proc \ {p} : SameHand(q)
  BY <1>0 DEF ListTimedOut, ListUnfinished, ReadRows, Goto, TypeOK, SameHand, Unfinished
<1>2. TypeOK'
  <2>1. /\ todo' \in [Proc -> SUBSET Task] /\ seen' \in [Proc -> [Task -> Status]]
        /\ pc' \in [Proc -> {"idle", "sweep", "poll", "apply", "suno", "save", "wallet", "token"}]
    <3>1. PICK S \in SUBSET Task, l \in {"sweep", "poll"} :
             ReadRows(p, S) /\ pc' = [pc EXCEPT ![p] = l]
      BY DEF ListTimedOut, ListUnfinished, Goto, Unfinished
    <3>2. [t \in Task |-> IF t \in S THEN status[t] ELSE "absent"] \in [Task -> Status]
      BY DEF TypeOK, Status
    <3> QED
      BY <1>0, <3>1, <3>2 DEF TypeOK, ReadRows
  <2> QED
    BY <1>1, <2>1 DEF TypeOK, rowVars, worldVars, moneyVars
<1>3. HandInv(p)'
  BY <1>0, <1>1 DEF HandInv, PollerInv, Adjusting, ProcInv, Unfinished, Running
<1>4. \A q \in Proc : HandInv(q)'
  BY <1>1, <1>3, HandSame DEF ProcInv
<1> QED
  BY <1>1, <1>2, <1>4 DEF ProcInv, rowVars

LEMMA OneHand ==
    ASSUME BaseInv, site' = site, NEW p \in Proc, TypeOK', HandInv(p)',
           \A q \in Proc \ {p} : SameHand(q),
           \A t \in Task : status'[t] # "absent" => t \in site.tasks
    PROVE  BaseInv'
<1>1. \A q \in Proc : HandInv(q)'
  BY HandSame DEF BaseInv, ProcInv
<1> QED
  BY <1>1 DEF BaseInv, ProcInv

LEMMA AdjustThenType ==
    ASSUME TypeOK, NEW p \in Proc, NEW n \in Int, NEW l \in {"sweep", "poll", "save"},
           AdjustThen(p, n, l)
    PROVE  /\ pc' \in [Proc -> {"idle", "sweep", "poll", "apply", "suno", "save", "wallet",
                                "token"}]
           /\ owed' \in [Proc -> Int] /\ ret' \in [Proc -> {"idle", "sweep", "poll", "save"}]
           /\ pc'[p] = (IF n = 0 THEN l ELSE "wallet") /\ owed'[p] = n /\ ret'[p] = l
           /\ \A q \in Proc \ {p} : pc'[q] = pc[q] /\ owed'[q] = owed[q] /\ ret'[q] = ret[q]
BY DEF AdjustThen, Goto, TypeOK

LEMMA SweepBase ==
    ASSUME BaseInv, site' = site, NEW p \in Poller \cap site.procs, NEW t \in Task,
           SweepTask(p, t)
    PROVE  BaseInv'
<1> USE TaskBillingAssumption DEF BaseInv
<1>0. p \in Proc /\ p \notin Fetcher /\ HandInv(p) /\ TypeOK
  BY DEF Proc, ProcInv
<1>1. /\ pc[p] = "sweep" /\ t \in todo[p] /\ t \in site.tasks /\ seen[p][t] \in Running
      /\ UNCHANGED <<worldVars, moneyVars, seen, got>>
      /\ todo' = [todo EXCEPT ![p] = @ \ {t}] /\ cur' = [cur EXCEPT ![p] = t]
  BY <1>0 DEF SweepTask, HandInv, PollerInv
<1>2. CASE UNCHANGED <<rowVars, pc, owed, ret>>
  <2>1. TypeOK'
    BY <1>0, <1>1, <1>2 DEF TypeOK, rowVars, worldVars, moneyVars
  <2>2. HandInv(p)'
    BY <1>0, <1>1, <1>2 DEF HandInv, PollerInv, Adjusting, TypeOK
  <2>3. \A q \in Proc \ {p} : SameHand(q)
    BY <1>0, <1>1, <1>2 DEF SameHand, TypeOK
  <2> QED
    BY <1>0, <1>2, <2>1, <2>2, <2>3, OneHand DEF ProcInv, rowVars
<1>3. CASE Write(t, "FAILURE", TRUE) /\ AdjustThen(p, -Quota[t], "sweep")
  <2>0. -Quota[t] \in Int
    OBVIOUS
  <2>1. /\ pc' \in [Proc -> {"idle", "sweep", "poll", "apply", "suno", "save", "wallet", "token"}]
        /\ owed' \in [Proc -> Int] /\ ret' \in [Proc -> {"idle", "sweep", "poll", "save"}]
        /\ pc'[p] \in {"sweep", "wallet"} /\ ret'[p] = "sweep"
        /\ \A q \in Proc \ {p} : pc'[q] = pc[q] /\ owed'[q] = owed[q] /\ ret'[q] = ret[q]
    BY <1>0, <1>3, <2>0, AdjustThenType
  <2>2. /\ status' \in [Task -> Status] /\ full' \in [Task -> BOOLEAN]
        /\ \A u \in Task : status'[u] # "absent" => u \in site.tasks
    BY <1>0, <1>1, <1>3 DEF Write, TypeOK, Status, Terminal, ProcInv
  <2>3. TypeOK'
    BY <1>0, <1>1, <2>1, <2>2 DEF TypeOK, worldVars, moneyVars
  <2>4. HandInv(p)'
    BY <1>0, <1>1, <2>1 DEF HandInv, PollerInv, Adjusting, TypeOK
  <2>5. \A q \in Proc \ {p} : SameHand(q)
    BY <1>0, <1>1, <2>1 DEF SameHand, TypeOK
  <2> QED
    BY <1>0, <2>2, <2>3, <2>4, <2>5, OneHand
<1> QED
  BY <1>2, <1>3, Zenon DEF SweepTask

LEMMA FetchBase ==
    ASSUME BaseInv, site' = site, NEW p \in Poller \cap site.procs, NEW t \in Task,
           FetchTask(p, t) \/ FetchFails(p, t)
    PROVE  BaseInv'
<1> USE TaskBillingAssumption DEF BaseInv
<1>0. p \in Proc /\ p \notin Fetcher /\ HandInv(p) /\ TypeOK
  BY DEF Proc, ProcInv
<1>1. /\ pc[p] = "poll" /\ t \in todo[p] /\ t \in site.tasks /\ seen[p][t] \in Running
      /\ UNCHANGED <<rowVars, worldVars, moneyVars, seen, owed, ret>>
      /\ todo' = [todo EXCEPT ![p] = @ \ {t}]
  BY <1>0 DEF FetchTask, FetchFails, HandInv, PollerInv
<1>2. CASE FetchFails(p, t)
  <2>1. TypeOK'
    BY <1>0, <1>1, <1>2 DEF FetchFails, TypeOK, rowVars, worldVars, moneyVars
  <2>2. HandInv(p)'
    BY <1>0, <1>1, <1>2 DEF FetchFails, HandInv, PollerInv, Adjusting, TypeOK
  <2>3. \A q \in Proc \ {p} : SameHand(q)
    BY <1>0, <1>1, <1>2 DEF FetchFails, SameHand, TypeOK
  <2> QED
    BY <1>0, <1>1, <2>1, <2>2, <2>3, OneHand DEF ProcInv, rowVars
<1>3. CASE FetchTask(p, t)
  <2>1. PICK s \in Reports(t) : got' = [got EXCEPT ![p] = s]
    BY <1>3 DEF FetchTask
  <2>2. s \in Terminal \cup {"IN_PROGRESS", "FAIL_REASON"} /\ (s = "FAIL_REASON" => Platform[t] = "suno")
    BY <1>0, <2>1 DEF Reports, TypeOK, Terminal
  <2>3. /\ cur' = [cur EXCEPT ![p] = t]
        /\ pc' = [pc EXCEPT ![p] = IF Platform[t] = "suno" THEN "suno" ELSE "apply"]
    BY <1>3 DEF FetchTask, Goto
  <2>4. TypeOK'
    BY <1>0, <1>1, <2>1, <2>2, <2>3 DEF TypeOK, rowVars, worldVars, moneyVars
  <2>5. HandInv(p)'
    BY <1>0, <1>1, <2>1, <2>2, <2>3 DEF HandInv, PollerInv, Adjusting, TypeOK
  <2>6. \A q \in Proc \ {p} : SameHand(q)
    BY <1>0, <1>1, <2>1, <2>3 DEF SameHand, TypeOK
  <2> QED
    BY <1>0, <1>1, <2>4, <2>5, <2>6, OneHand DEF ProcInv, rowVars
<1> QED
  BY <1>2, <1>3

(* What a poller gives up is what it has listed of a channel.              *)
Given(p, c) == {t \in todo[p] : ChannelOf[t] = c}

LEMMA BulkFacts ==
    ASSUME BaseInv, NEW p \in Poller, NEW c \in Channel, BulkFail(p, c)
    PROVE  /\ pc[p] = "poll" /\ pc' = pc /\ seen' = seen /\ cur' = cur /\ got' = got
           /\ owed' = owed /\ ret' = ret /\ upstream' = upstream /\ late' = late
           /\ walletNet' = walletNet /\ tokenNet' = tokenNet /\ faulty' = faulty
           /\ status' = [t \in Task |-> IF t \in Given(p, c) THEN "FAILURE" ELSE status[t]]
           /\ full' = [t \in Task |-> IF t \in Given(p, c) THEN TRUE ELSE full[t]]
           /\ dropped' = dropped \cup Given(p, c)
           /\ todo' = [todo EXCEPT ![p] = @ \ Given(p, c)]
<1>0. p \in Proc /\ todo[p] \subseteq Task /\ \A t \in todo[p] : seen[p][t] # "absent"
  BY DEF BaseInv, TypeOK, ProcInv, HandInv, PollerInv, Proc, Running
<1> DEFINE ids == {t \in Task : ChannelOf[t] = c /\ seen[p][t] # "absent"}
<1>1. /\ ids \subseteq todo[p] /\ pc[p] = "poll"
      /\ UNCHANGED <<upstream, late, walletNet, tokenNet, faulty, pc, seen, cur, got, owed, ret>>
      /\ status' = [t \in Task |-> IF t \in ids THEN "FAILURE" ELSE status[t]]
      /\ full' = [t \in Task |-> IF t \in ids THEN TRUE ELSE full[t]]
      /\ dropped' = dropped \cup ids
      /\ todo' = [todo EXCEPT ![p] = @ \ ids]
  BY DEF BulkFail, moneyVars
<1>2. ids = Given(p, c)
  BY <1>0, <1>1 DEF Given
<1> QED
  BY <1>1, <1>2

(* What it means for a task.                                               *)
LEMMA BulkTask ==
    ASSUME BaseInv, NEW p \in Poller, NEW c \in Channel, BulkFail(p, c), NEW t \in Task
    PROVE  /\ pc[p] = "poll" /\ pc'[p] = "poll" /\ cur' = cur /\ owed' = owed /\ ret' = ret
           /\ UNCHANGED moneyVars /\ todo'[p] \subseteq todo[p]
           /\ t \in dropped => t \in dropped'
           /\ t \in todo[p] /\ ChannelOf[t] = c =>
                 status'[t] = "FAILURE" /\ t \in dropped' /\ t \notin todo'[p]
           /\ t \notin todo[p] \/ ChannelOf[t] # c => status'[t] = status[t] /\ full'[t] = full[t]
<1>1. p \in Proc /\ TypeOK
  BY DEF BaseInv, Proc
<1>2. t \in Given(p, c) <=> t \in todo[p] /\ ChannelOf[t] = c
  BY DEF Given
<1>0. /\ status' = [u \in Task |-> IF u \in Given(p, c) THEN "FAILURE" ELSE status[u]]
      /\ full' = [u \in Task |-> IF u \in Given(p, c) THEN TRUE ELSE full[u]]
      /\ todo' = [todo EXCEPT ![p] = @ \ Given(p, c)]
  BY BulkFacts, Zenon
<1>3. todo'[p] = todo[p] \ Given(p, c)
  BY <1>0, <1>1 DEF TypeOK
<1>4. /\ status'[t] = (IF t \in Given(p, c) THEN "FAILURE" ELSE status[t])
      /\ full'[t] = (IF t \in Given(p, c) THEN TRUE ELSE full[t])
  BY <1>0
<1>5. dropped' = dropped \cup Given(p, c) /\ UNCHANGED moneyVars
  BY BulkFacts DEF moneyVars
<1> QED
  BY <1>2, <1>3, <1>4, <1>5, BulkFacts

LEMMA BulkBase ==
    ASSUME BaseInv, site' = site, NEW p \in Poller \cap site.procs, NEW c \in Channel,
           BulkFail(p, c)
    PROVE  BaseInv'
<1> USE TaskBillingAssumption DEF BaseInv
<1>0. p \in Proc /\ p \notin Fetcher /\ HandInv(p) /\ TypeOK
  BY DEF Proc, ProcInv
<1> DEFINE ids == Given(p, c)
<1>1. /\ UNCHANGED <<upstream, late, moneyVars, pc, seen, cur, got, owed, ret>>
      /\ status' = [t \in Task |-> IF t \in ids THEN "FAILURE" ELSE status[t]]
      /\ full' = [t \in Task |-> IF t \in ids THEN TRUE ELSE full[t]]
      /\ todo' = [todo EXCEPT ![p] = @ \ ids] /\ dropped' = dropped \cup ids
  BY BulkFacts DEF moneyVars
<1>2. ids \subseteq site.tasks
  BY <1>0 DEF HandInv, Given
<1> HIDE DEF ids
<1>3. /\ status' \in [Task -> Status] /\ full' \in [Task -> BOOLEAN]
      /\ todo' \in [Proc -> SUBSET Task]
      /\ \A u \in Task : status'[u] # "absent" => u \in site.tasks
  BY <1>0, <1>1, <1>2 DEF TypeOK, Status, Terminal, ProcInv
<1>4. TypeOK'
  BY <1>0, <1>1, <1>2, <1>3 DEF TypeOK, moneyVars
<1>5. HandInv(p)'
  BY <1>0, <1>1 DEF HandInv, PollerInv, Adjusting, TypeOK
<1>6. \A q \in Proc \ {p} : SameHand(q)
  BY <1>0, <1>1 DEF SameHand, TypeOK
<1> QED
  BY <1>0, <1>3, <1>4, <1>5, <1>6, OneHand

(* The handling of a report, and the row it is written to.                 *)
LEMMA ApplyBase ==
    ASSUME BaseInv, site' = site, NEW p \in Poller \cap site.procs, ApplyVideo(p)
    PROVE  BaseInv'
<1> USE TaskBillingAssumption DEF BaseInv
<1>0. p \in Proc /\ p \notin Fetcher /\ HandInv(p) /\ TypeOK /\ site \in Site
  BY DEF Proc, ProcInv, TypeOK
<1>1. /\ pc[p] = "apply" /\ cur[p] \in site.tasks /\ cur[p] \in Task /\ got[p] # "FAIL_REASON"
      /\ UNCHANGED <<worldVars, moneyVars, todo, seen, cur, got>>
  BY <1>0 DEF ApplyVideo, HandInv, PollerInv, TypeOK
<1>2. CASE Goto(p, "poll") /\ UNCHANGED <<rowVars, owed, ret>>
  <2>1. TypeOK'
    BY <1>0, <1>1, <1>2 DEF Goto, TypeOK, rowVars, worldVars, moneyVars
  <2>2. HandInv(p)'
    BY <1>0, <1>1, <1>2 DEF Goto, HandInv, PollerInv, Adjusting, TypeOK
  <2>3. \A q \in Proc \ {p} : SameHand(q)
    BY <1>0, <1>1, <1>2 DEF Goto, SameHand, TypeOK
  <2> QED
    BY <1>0, <1>2, <2>1, <2>2, <2>3, OneHand DEF ProcInv, rowVars
<1>3. ASSUME NEW n \in Int, Write(cur[p], got[p], got[p] \in Terminal), AdjustThen(p, n, "poll")
      PROVE  BaseInv'
  <2>1. /\ pc' \in [Proc -> {"idle", "sweep", "poll", "apply", "suno", "save", "wallet", "token"}]
        /\ owed' \in [Proc -> Int] /\ ret' \in [Proc -> {"idle", "sweep", "poll", "save"}]
        /\ pc'[p] \in {"poll", "wallet"} /\ ret'[p] = "poll"
        /\ \A q \in Proc \ {p} : pc'[q] = pc[q] /\ owed'[q] = owed[q] /\ ret'[q] = ret[q]
    BY <1>0, <1>3, AdjustThenType
  <2>2. /\ status' \in [Task -> Status] /\ full' \in [Task -> BOOLEAN]
        /\ \A u \in Task : status'[u] # "absent" => u \in site.tasks
    BY <1>0, <1>1, <1>3 DEF Write, TypeOK, Status, Running, Terminal, ProcInv
  <2>3. TypeOK'
    BY <1>0, <1>1, <2>1, <2>2 DEF TypeOK, worldVars, moneyVars
  <2>4. HandInv(p)'
    BY <1>0, <1>1, <2>1 DEF HandInv, PollerInv, Adjusting, TypeOK
  <2>5. \A q \in Proc \ {p} : SameHand(q)
    BY <1>0, <1>1, <2>1 DEF SameHand, TypeOK
  <2> QED
    BY <1>0, <2>2, <2>3, <2>4, <2>5, OneHand
<1>4. ASSUME NEW a \in Actual PROVE (IF a = 0 THEN 0 ELSE a - Quota[cur[p]]) \in Int
  BY <1>0, <1>1 DEF Actual
<1>5. -Quota[cur[p]] \in Int /\ 0 \in Int
  BY <1>1
<1> QED
  BY <1>2, <1>3, <1>4, <1>5, Zenon DEF ApplyVideo

LEMMA SunoBase ==
    ASSUME BaseInv, site' = site, NEW p \in Poller \cap site.procs,
           RefundSuno(p) \/ SaveSuno(p)
    PROVE  BaseInv'
<1> USE TaskBillingAssumption DEF BaseInv
<1>0. p \in Proc /\ p \notin Fetcher /\ HandInv(p) /\ TypeOK
  BY DEF Proc, ProcInv
<1>1. /\ pc[p] \in {"suno", "save"} /\ cur[p] \in site.tasks /\ cur[p] \in Task
      /\ UNCHANGED <<worldVars, moneyVars, todo, seen, cur, got>>
  BY <1>0 DEF RefundSuno, SaveSuno, HandInv, TypeOK
<1>2. CASE RefundSuno(p)
  <2> DEFINE n == IF got[p] \in {"FAILURE", "FAIL_REASON"} THEN -Quota[cur[p]] ELSE 0
  <2>0. n \in Int /\ AdjustThen(p, n, "save") /\ pc[p] = "suno"
    BY <1>1, <1>2 DEF RefundSuno
  <2>1. /\ pc' \in [Proc -> {"idle", "sweep", "poll", "apply", "suno", "save", "wallet", "token"}]
        /\ owed' \in [Proc -> Int] /\ ret' \in [Proc -> {"idle", "sweep", "poll", "save"}]
        /\ pc'[p] = (IF n = 0 THEN "save" ELSE "wallet") /\ ret'[p] = "save" /\ owed'[p] = n
        /\ \A q \in Proc \ {p} : pc'[q] = pc[q] /\ owed'[q] = owed[q] /\ ret'[q] = ret[q]
    <3> HIDE DEF n
    <3> QED
      BY <1>0, <2>0, AdjustThenType
  <2>3. TypeOK'
    BY <1>0, <1>1, <1>2, <2>1 DEF RefundSuno, TypeOK, rowVars, worldVars, moneyVars
  <2>4. HandInv(p)'
    BY <1>0, <1>1, <2>0, <2>1 DEF HandInv, PollerInv, Adjusting, TypeOK
  <2>5. \A q \in Proc \ {p} : SameHand(q)
    BY <1>0, <1>1, <2>1 DEF SameHand, TypeOK
  <2>6. \A t \in Task : status'[t] # "absent" => t \in site.tasks
    BY <1>2 DEF RefundSuno, rowVars, ProcInv
  <2> QED
    BY <1>0, <2>3, <2>4, <2>5, <2>6, OneHand
<1>3. CASE SaveSuno(p)
  <2>0. seen[p][cur[p]] \in Status /\ pc' = [pc EXCEPT ![p] = "poll"] /\ UNCHANGED <<owed, ret>>
    BY <1>0, <1>1, <1>3 DEF SaveSuno, Goto, TypeOK
  <2>1. status' = status \/ \E s \in Status : status' = [status EXCEPT ![cur[p]] = s]
    BY <1>0, <1>3, <2>0 DEF SaveSuno, Write, TypeOK, Status, Running, Terminal, rowVars
  <2>2. full' \in [Task -> BOOLEAN]
    BY <1>0, <1>3 DEF SaveSuno, Write, TypeOK, rowVars
  <2>3. TypeOK'
    BY <1>0, <1>1, <2>0, <2>1, <2>2 DEF TypeOK, worldVars, moneyVars
  <2>4. HandInv(p)'
    BY <1>0, <1>1, <2>0 DEF HandInv, PollerInv, Adjusting, TypeOK
  <2>5. \A q \in Proc \ {p} : SameHand(q)
    BY <1>0, <1>1, <2>0 DEF SameHand, TypeOK
  <2>6. \A t \in Task : status'[t] # "absent" => t \in site.tasks
    BY <1>0, <1>1, <2>1 DEF TypeOK, ProcInv
  <2> QED
    BY <1>0, <2>3, <2>4, <2>5, <2>6, OneHand
<1> QED
  BY <1>2, <1>3

LEMMA RoundBase ==
    ASSUME BaseInv, site' = site, NEW p \in Poller \cap site.procs, EndRound(p) \/ Crash(p)
    PROVE  BaseInv'
<1> USE TaskBillingAssumption DEF BaseInv
<1>0. p \in Proc /\ p \notin Fetcher /\ HandInv(p) /\ TypeOK
  BY DEF Proc, ProcInv
<1>1. /\ UNCHANGED <<rowVars, worldVars, walletNet, tokenNet, cur, ret>>
      /\ pc' = [pc EXCEPT ![p] = "idle"]
  BY DEF EndRound, Crash, Goto, moneyVars
<1>2. /\ todo' \in [Proc -> SUBSET Task] /\ todo'[p] = {}
      /\ \A q \in Proc \ {p} : todo'[q] = todo[q]
  BY <1>0 DEF EndRound, Crash, TypeOK
<1>3. seen' \in [Proc -> [Task -> Status]] /\ \A q \in Proc \ {p} : seen'[q] = seen[q]
  <2>1. [t \in Task |-> "absent"] \in [Task -> Status]
    BY DEF Status
  <2>2. seen' = seen \/ seen' = [seen EXCEPT ![p] = [t \in Task |-> "absent"]]
    BY DEF EndRound, Crash
  <2>3. ASSUME NEW g \in [Task -> Status], seen' = [seen EXCEPT ![p] = g]
        PROVE  seen' \in [Proc -> [Task -> Status]] /\ \A q \in Proc \ {p} : seen'[q] = seen[q]
    BY <1>0, <2>3 DEF TypeOK
  <2>4. CASE seen' = seen
    BY <1>0, <2>4 DEF TypeOK
  <2> QED
    BY <2>1, <2>2, <2>3, <2>4, Zenon
<1>4. /\ got' \in [Proc -> Terminal \cup {"IN_PROGRESS", "FAIL_REASON"}]
      /\ owed' \in [Proc -> Int] /\ faulty' \in [Task -> BOOLEAN]
      /\ \A q \in Proc \ {p} : got'[q] = got[q] /\ owed'[q] = owed[q]
  <2>1. CASE EndRound(p)
    BY <1>0, <2>1 DEF EndRound, TypeOK, moneyVars
  <2>2. CASE Crash(p)
    <3>1. faulty' \in [Task -> BOOLEAN]
      BY <1>0, <2>2 DEF Crash, AdjustmentFails, TypeOK
    <3> QED
      BY <1>0, <2>2, <3>1 DEF Crash, TypeOK
  <2> QED
    BY <2>1, <2>2
<1>5. TypeOK'
  BY <1>0, <1>1, <1>2, <1>3, <1>4 DEF TypeOK, rowVars, worldVars
<1>6. HandInv(p)'
  BY <1>0, <1>1, <1>2 DEF HandInv, PollerInv, Adjusting, TypeOK
<1>7. \A q \in Proc \ {p} : SameHand(q)
  BY <1>0, <1>1, <1>2, <1>3, <1>4 DEF SameHand, TypeOK
<1> QED
  BY <1>0, <1>1, <1>5, <1>6, <1>7, OneHand DEF ProcInv, rowVars

LEMMA AdjustBase ==
    ASSUME BaseInv, site' = site, NEW p \in Poller \cap site.procs, Adjust(p)
    PROVE  BaseInv'
<1> USE TaskBillingAssumption DEF BaseInv
<1>0. p \in Proc /\ p \notin Fetcher /\ HandInv(p) /\ TypeOK
  BY DEF Proc, ProcInv
<1>1. /\ UNCHANGED <<rowVars, worldVars, todo, seen, cur, got, owed, ret>>
      /\ Adjusting(p) /\ \E l \in {"token", ret[p]} : pc' = [pc EXCEPT ![p] = l]
  BY DEF Adjust, AdjustFunding, AdjustToken, Adjusting, Goto
<1>2. /\ walletNet' \in [Task -> Int] /\ tokenNet' \in [Task -> Int]
      /\ faulty' \in [Task -> BOOLEAN]
  <2>1. cur[p] \in Task /\ owed[p] \in Int
    BY <1>0 DEF TypeOK
  <2>2. faulty' = faulty \/ faulty' = [faulty EXCEPT ![cur[p]] = TRUE]
    BY DEF Adjust, AdjustFunding, AdjustToken, AdjustmentFails
  <2>3. walletNet' = walletNet \/ walletNet' = [walletNet EXCEPT ![cur[p]] = @ + owed[p]]
    BY DEF Adjust, AdjustFunding, AdjustToken
  <2>4. tokenNet' = tokenNet \/ tokenNet' = [tokenNet EXCEPT ![cur[p]] = @ + owed[p]]
    BY DEF Adjust, AdjustFunding, AdjustToken
  <2>5. faulty' \in [Task -> BOOLEAN]
    BY <1>0, <2>1, <2>2 DEF TypeOK
  <2> QED
    BY <1>0, <2>1, <2>3, <2>4, <2>5 DEF TypeOK
<1>3. TypeOK'
  <2>1. pc' \in [Proc -> {"idle", "sweep", "poll", "apply", "suno", "save", "wallet", "token"}]
    BY <1>0, <1>1 DEF TypeOK
  <2> QED
    BY <1>0, <1>1, <1>2, <2>1 DEF TypeOK, rowVars, worldVars
<1>4. HandInv(p)'
  BY <1>0, <1>1 DEF HandInv, PollerInv, Adjusting, TypeOK
<1>5. \A q \in Proc \ {p} : SameHand(q)
  BY <1>0, <1>1 DEF SameHand, TypeOK
<1> QED
  BY <1>0, <1>1, <1>3, <1>4, <1>5, OneHand DEF ProcInv, rowVars

LEMMA FetcherBase ==
    ASSUME BaseInv, site' = site, NEW f \in Fetcher \cap site.procs, Fetch(f)
    PROVE  BaseInv'
<1> USE TaskBillingAssumption DEF BaseInv
<1>0. f \in Proc /\ f \notin Poller /\ HandInv(f) /\ TypeOK
  BY DEF Proc, ProcInv
<1>1. ASSUME NEW t \in Task, ReadTask(f, t) PROVE BaseInv'
  <2>1. PICK s \in Reports(t) : got' = [got EXCEPT ![f] = s]
    BY <1>1 DEF ReadTask
  <2>2. s \in Terminal \cup {"IN_PROGRESS", "FAIL_REASON"} /\ s # "FAIL_REASON"
    BY <1>0, <1>1, <2>1 DEF ReadTask, Reports, TypeOK, Terminal
  <2>3. /\ cur' = [cur EXCEPT ![f] = t] /\ pc' = [pc EXCEPT ![f] = "apply"]
        /\ seen' = [seen EXCEPT ![f] = [seen[f] EXCEPT ![t] = status[t]]]
        /\ UNCHANGED <<rowVars, worldVars, moneyVars, todo, owed, ret>>
        /\ Platform[t] = "realtime" /\ status[t] # "absent"
    BY <1>1 DEF ReadTask, Goto, Running, Terminal
  <2>4. [seen[f] EXCEPT ![t] = status[t]] \in [Task -> Status]
    BY <1>0 DEF TypeOK
  <2>5. seen' \in [Proc -> [Task -> Status]] /\ \A q \in Proc \ {f} : seen'[q] = seen[q]
    BY <1>0, <2>3, <2>4 DEF TypeOK
  <2>6. TypeOK'
    BY <1>0, <2>1, <2>2, <2>3, <2>5 DEF TypeOK, rowVars, worldVars, moneyVars
  <2>7. HandInv(f)'
    BY <1>0, <2>1, <2>2, <2>3 DEF HandInv, FetcherInv, TypeOK, ProcInv
  <2>8. \A q \in Proc \ {f} : SameHand(q)
    BY <1>0, <2>1, <2>3, <2>5 DEF SameHand, TypeOK
  <2> QED
    BY <1>0, <2>3, <2>6, <2>7, <2>8, OneHand DEF ProcInv, rowVars
<1>2. CASE ApplyRealtime(f)
  <2>1. /\ UNCHANGED <<worldVars, moneyVars, todo, seen, cur, got, owed, ret>>
        /\ pc' = [pc EXCEPT ![f] = "idle"] /\ got[f] # "FAIL_REASON" /\ cur[f] \in site.tasks
    BY <1>0, <1>2 DEF ApplyRealtime, Goto, HandInv, FetcherInv
  <2>2. /\ status' \in [Task -> Status] /\ full' \in [Task -> BOOLEAN]
        /\ \A u \in Task : status'[u] # "absent" => u \in site.tasks
    <3>1. cur[f] \in Task /\ got[f] \in Status
      BY <1>0, <2>1 DEF TypeOK, Status, Running, Terminal
    <3>2. CASE Write(cur[f], got[f], got[f] \in Terminal)
      BY <1>0, <2>1, <3>1, <3>2 DEF Write, TypeOK, ProcInv
    <3>3. CASE UNCHANGED rowVars
      BY <1>0, <3>3 DEF TypeOK, ProcInv, rowVars
    <3> QED
      BY <1>2, <3>2, <3>3 DEF ApplyRealtime
  <2>3. TypeOK'
    BY <1>0, <2>1, <2>2 DEF TypeOK, worldVars, moneyVars
  <2>4. HandInv(f)'
    BY <1>0, <2>1 DEF HandInv, FetcherInv, TypeOK
  <2>5. \A q \in Proc \ {f} : SameHand(q)
    BY <1>0, <2>1 DEF SameHand, TypeOK
  <2> QED
    BY <1>0, <2>2, <2>3, <2>4, <2>5, OneHand
<1> QED
  BY <1>1, <1>2 DEF Fetch

LEMMA BaseNext == BaseInv /\ [Next]_vars => BaseInv'
<1> SUFFICES ASSUME BaseInv, [Next]_vars PROVE BaseInv'
  OBVIOUS
<1>1. CASE UNCHANGED vars
  BY <1>1 DEF vars, rowVars, worldVars, moneyVars, procVars, BaseInv, TypeOK, ProcInv, HandInv,
              PollerInv, FetcherInv, Adjusting
<1>2. ASSUME site' = site, NEW p \in Poller \cap site.procs, Poll(p) PROVE BaseInv'
  BY <1>2, ListBase, ApplyBase, SunoBase, RoundBase, SweepBase, FetchBase, BulkBase DEF Poll
<1> QED
  BY <1>1, <1>2, WorldBase, InsertBase, AdjustBase, RoundBase, FetcherBase DEF Next

LEMMA AlwaysBase == Spec => []BaseInv
BY InitBase, BaseNext, PTL DEF Spec

-----------------------------------------------------------------------------
(* What a task costs.                                                      *)

Adjusts(p, t) == Adjusting(p) /\ cur[p] = t
Idle(t) == \A p \in Poller : ~Adjusts(p, t)
Costs(t, n) == walletNet[t] = n /\ tokenNet[t] = n

(* The bill of a task that has ended, and the adjustment that leads to it. *)
Bill(t) ==
    /\ status[t] = "FAILURE" => Costs(t, 0)
    /\ status[t] = "SUCCESS" => /\ walletNet[t] \in {Quota[t]} \cup (Actual \ {0})
                                /\ tokenNet[t] = walletNet[t]

Due(t, n) ==
    /\ status[t] = "FAILURE" => n = -Quota[t]
    /\ status[t] = "SUCCESS" => n + Quota[t] \in Actual \ {0}

(* A task that has ended: at most one poller adjusts its bill, and as long *)
(* as it does the task has been paid in full or adjusted by half.          *)
Ending(t) ==
    /\ \A p, q \in Poller : Adjusts(p, t) /\ Adjusts(q, t) => p = q
    /\ \A p \in Poller : Adjusts(p, t) =>
          /\ tokenNet[t] = Quota[t]
          /\ walletNet[t] = Quota[t] + (IF pc[p] = "wallet" THEN 0 ELSE owed[p])
          /\ owed[p] >= -Quota[t] /\ ret[p] # "save"
          /\ t \notin dropped => Due(t, owed[p])
    /\ Idle(t) =>
          /\ walletNet[t] >= 0 /\ tokenNet[t] >= 0
          /\ ~faulty[t] /\ t \notin dropped => Bill(t)

(* Videos: paid in full and nobody's until someone ends them.              *)
VideoInv(t) ==
    /\ status[t] = "absent" => Costs(t, 0) /\ Idle(t)
    /\ status[t] \in Running \cup {"charged", "lost"} => Costs(t, Quota[t]) /\ Idle(t)
    /\ status[t] \in Terminal => Ending(t)

(* Free tasks: nothing is ever adjusted.                                   *)
FreeInv(t) == Costs(t, 0) /\ Idle(t)

(* A step that is about other tasks.                                       *)
SameTask(t) ==
    /\ site' = site
    /\ status'[t] = status[t] /\ full'[t] = full[t]
    /\ walletNet'[t] = walletNet[t] /\ tokenNet'[t] = tokenNet[t]
    /\ faulty[t] => faulty'[t]
    /\ t \in dropped => t \in dropped'

SameWork(t) ==
    \A p \in Poller :
        /\ Adjusts(p, t)' <=> Adjusts(p, t)
        /\ Adjusts(p, t) => pc'[p] = pc[p] /\ owed'[p] = owed[p] /\ ret'[p] = ret[p]

LEMMA EndingSame ==
    ASSUME NEW t \in Task, SameTask(t), SameWork(t), Ending(t) PROVE Ending(t)'
<1>1. Bill(t)' <=> Bill(t)
  BY DEF SameTask, Bill, Costs, Actual
<1>2. ASSUME NEW p \in Poller, Adjusts(p, t) PROVE Due(t, owed[p])' <=> Due(t, owed[p])
  BY <1>2 DEF SameTask, SameWork, Due, Actual
<1>3. Idle(t)' <=> Idle(t)
  BY DEF Idle, SameWork
<1> QED
  BY <1>1, <1>2, <1>3 DEF Ending, SameTask, SameWork

LEMMA VideoSame ==
    ASSUME NEW t \in Task, SameTask(t), SameWork(t), VideoInv(t) PROVE VideoInv(t)'
<1>1. Idle(t)' <=> Idle(t)
  BY DEF Idle, SameWork
<1> QED
  BY <1>1, EndingSame DEF VideoInv, SameTask, Costs

(* The winner of a final transition finds the task paid in full and with   *)
(* nobody at its bill.                                                     *)
LEMMA Wins ==
    ASSUME BaseInv, BaseInv', NEW t \in Task, Costs(t, Quota[t]), Idle(t), site' = site,
           walletNet' = walletNet, tokenNet' = tokenNet,
           status'[t] \in Terminal,
           NEW p \in Poller, \A q \in Proc \ {p} : SameHand(q),
           NEW n \in Int, NEW l \in {"sweep", "poll"}, AdjustThen(p, n, l), cur'[p] = t,
           n >= -Quota[t],
           status'[t] = "FAILURE" => n = -Quota[t],
           status'[t] = "SUCCESS" => n = 0 \/ n + Quota[t] \in Actual \ {0}
    PROVE  Ending(t)'
<1> USE TaskBillingAssumption
<1>0. p \in Proc /\ Quota[t] \in Nat /\ TypeOK /\ Actual' = Actual
  BY DEF BaseInv, Proc, Actual
<1>1. pc'[p] = (IF n = 0 THEN l ELSE "wallet") /\ owed'[p] = n /\ ret'[p] = l
  BY <1>0, AdjustThenType
<1>2. \A q \in Poller \ {p} : ~Adjusts(q, t)'
  BY DEF Idle, Adjusts, Adjusting, SameHand, Proc
<1>3. walletNet'[t] = Quota[t] /\ tokenNet'[t] = Quota[t]
  BY DEF Costs
<1>4. CASE n = 0
  <2>1. ~Adjusts(p, t)'
    BY <1>1, <1>4 DEF Adjusts, Adjusting
  <2>2. Bill(t)'
    BY <1>0, <1>3, <1>4 DEF Bill, Costs
  <2> QED
    BY <1>0, <1>2, <1>3, <2>1, <2>2 DEF Ending
<1>5. CASE n # 0
  <2>1. Adjusts(p, t)' /\ pc'[p] = "wallet" /\ ret'[p] # "save"
    BY <1>1, <1>5 DEF Adjusts, Adjusting
  <2>2. Due(t, owed[p])'
    BY <1>0, <1>1, <1>5 DEF Due
  <2>3. ~Idle(t)'
    BY <2>1 DEF Idle
  <2> QED
    BY <1>0, <1>1, <1>2, <1>3, <2>1, <2>2, <2>3 DEF Ending
<1> QED
  BY <1>4, <1>5

(* The two halves of an adjustment; either may fail.                       *)
LEMMA EndingAdjusts ==
    ASSUME BaseInv, BaseInv', NEW t \in Task, Ending(t), status[t] \in Terminal, site' = site,
           NEW p \in Poller, Adjust(p), cur[p] = t
    PROVE  Ending(t)'
<1> USE TaskBillingAssumption
<1>0. /\ p \in Proc /\ Quota[t] \in Nat /\ TypeOK /\ Actual' = Actual /\ PollerInv(p)
      /\ walletNet[t] \in Int /\ tokenNet[t] \in Int /\ owed[p] \in Int /\ pc[p] # ret[p]
      /\ faulty[t] \in BOOLEAN
  <2>1. p \in Proc /\ TypeOK /\ ProcInv /\ Actual' = Actual
    BY DEF BaseInv, Proc, Actual
  <2>2. PollerInv(p)
    BY <2>1 DEF ProcInv, HandInv
  <2>3. pc[p] \in {"wallet", "token"}
    BY DEF Adjust, AdjustFunding, AdjustToken
  <2> QED
    BY <2>1, <2>2, <2>3 DEF TypeOK
<1>1. /\ Adjusts(p, t) /\ pc[p] \in {"wallet", "token"}
      /\ UNCHANGED <<rowVars, worldVars, todo, seen, cur, got, owed, ret>>
  BY DEF Adjust, AdjustFunding, AdjustToken, Adjusts, Adjusting
<1>2. /\ tokenNet[t] = Quota[t]
      /\ walletNet[t] = Quota[t] + (IF pc[p] = "wallet" THEN 0 ELSE owed[p])
      /\ owed[p] >= -Quota[t] /\ ret[p] # "save" /\ ret[p] # "idle"
      /\ t \notin dropped => Due(t, owed[p])
  BY <1>0, <1>1 DEF Ending, PollerInv, Adjusts
<1>3. \A q \in Poller \ {p} : ~Adjusts(q, t)'
  <2>1. \A q \in Poller \ {p} : ~Adjusts(q, t)
    BY <1>1 DEF Ending
  <2>2. \A q \in Poller \ {p} : pc'[q] = pc[q] /\ cur'[q] = cur[q]
    BY <1>0, <1>1 DEF Adjust, AdjustFunding, AdjustToken, Goto, TypeOK, Proc
  <2> QED
    BY <2>1, <2>2 DEF Adjusts, Adjusting
<1>4. CASE pc'[p] = "token"
  <2>1. pc[p] = "wallet" /\ walletNet' = [walletNet EXCEPT ![t] = @ + owed[p]] /\ tokenNet' = tokenNet
    BY <1>0, <1>1, <1>2, <1>4 DEF Adjust, AdjustFunding, AdjustToken, Goto, TypeOK
  <2>2. walletNet'[t] = Quota[t] + owed[p] /\ tokenNet'[t] = Quota[t]
    BY <1>0, <1>2, <2>1 DEF TypeOK
  <2>3. Adjusts(p, t)' /\ ~Idle(t)'
    BY <1>1, <1>4 DEF Adjusts, Adjusting, Idle
  <2>4. t \notin dropped' => Due(t, owed[p])'
    BY <1>0, <1>1, <1>2 DEF Due, rowVars, worldVars
  <2> QED
    BY <1>1, <1>2, <1>3, <1>4, <2>2, <2>3, <2>4 DEF Ending
<1>5. CASE pc'[p] = ret[p]
  <2>1. ~Adjusts(p, t)'
    BY <1>0, <1>2, <1>5 DEF Adjusts, Adjusting, TypeOK
  <2>2. CASE faulty'[t]
    <3>1. walletNet'[t] >= 0 /\ tokenNet'[t] >= 0
      BY <1>0, <1>1, <1>2, <1>5 DEF Adjust, AdjustFunding, AdjustToken, TypeOK
    <3> QED
      BY <1>3, <2>1, <2>2, <3>1 DEF Ending
  <2>3. CASE ~faulty'[t]
    <3>1. pc[p] = "token" /\ tokenNet' = [tokenNet EXCEPT ![t] = @ + owed[p]] /\ walletNet' = walletNet
      BY <1>0, <1>1, <1>2, <1>5, <2>3
         DEF Adjust, AdjustFunding, AdjustToken, AdjustmentFails, Goto, TypeOK
    <3>2. walletNet'[t] = Quota[t] + owed[p] /\ tokenNet'[t] = Quota[t] + owed[p]
      BY <1>0, <1>2, <3>1 DEF TypeOK
    <3>3. status'[t] = status[t] /\ dropped' = dropped
      BY <1>1 DEF rowVars, worldVars
    <3>4. t \notin dropped' => Bill(t)'
      BY <1>0, <1>2, <3>2, <3>3 DEF Due, Bill, Costs
    <3> QED
      BY <1>0, <1>2, <1>3, <2>1, <3>2, <3>4 DEF Ending
  <2> QED
    BY <2>2, <2>3
<1> QED
  BY <1>0, <1>4, <1>5 DEF Adjust, AdjustFunding, AdjustToken, Goto, TypeOK

(* A node that dies leaves its adjustment behind, and the bill as it is.   *)
LEMMA EndingCrash ==
    ASSUME BaseInv, NEW t \in Task, Ending(t), site' = site,
           NEW p \in Poller, Crash(p), Adjusts(p, t)
    PROVE  Ending(t)'
<1> USE TaskBillingAssumption
<1>0. p \in Proc /\ Quota[t] \in Nat /\ TypeOK /\ owed[p] \in Int
  BY DEF BaseInv, Proc, TypeOK
<1>1. \A q \in Poller : ~Adjusts(q, t)'
  BY <1>0 DEF Ending, Crash, Goto, Adjusts, Adjusting, TypeOK, Proc
<1>2. faulty'[t] /\ walletNet' = walletNet /\ tokenNet' = tokenNet
  BY <1>0 DEF Crash, Adjusts, Adjusting, AdjustmentFails, TypeOK
<1>3. walletNet[t] >= 0 /\ tokenNet[t] >= 0
  BY <1>0 DEF Ending
<1> QED
  BY <1>1, <1>2, <1>3 DEF Ending

-----------------------------------------------------------------------------
LEMMA OthersSame ==
    ASSUME BaseInv, NEW p \in Proc, Poll(p) \/ Adjust(p) \/ Crash(p) \/ Fetch(p)
    PROVE  \A q \in Proc \ {p} : SameHand(q)
<1> USE DEF BaseInv, TypeOK, SameHand, Goto, AdjustThen, procVars
<1>1. CASE ListTimedOut(p) \/ ListUnfinished(p)
  BY <1>1 DEF ListTimedOut, ListUnfinished, ReadRows
<1>2. CASE ApplyVideo(p)
  BY <1>2 DEF ApplyVideo
<1>3. CASE RefundSuno(p) \/ SaveSuno(p)
  BY <1>3 DEF RefundSuno, SaveSuno
<1>4. CASE EndRound(p)
  BY <1>4 DEF EndRound
<1>5. ASSUME NEW t \in Task, SweepTask(p, t) PROVE \A q \in Proc \ {p} : SameHand(q)
  BY <1>5 DEF SweepTask
<1>6. ASSUME NEW t \in Task, FetchTask(p, t) \/ FetchFails(p, t)
      PROVE  \A q \in Proc \ {p} : SameHand(q)
  BY <1>6 DEF FetchTask, FetchFails
<1>7. ASSUME NEW c \in Channel, BulkFail(p, c) PROVE \A q \in Proc \ {p} : SameHand(q)
  BY <1>7 DEF BulkFail
<1>8. CASE Adjust(p)
  BY <1>8 DEF Adjust, AdjustFunding, AdjustToken
<1>9. CASE Crash(p)
  BY <1>9 DEF Crash
<1>10. CASE Fetch(p)
  BY <1>10 DEF Fetch, ReadTask, ApplyRealtime
<1> QED
  BY <1>1, <1>2, <1>3, <1>4, <1>5, <1>6, <1>7, <1>8, <1>9, <1>10 DEF Poll

LEMMA WorkSame ==
    ASSUME NEW p, NEW t, \A q \in Proc \ {p} : SameHand(q), ~Adjusts(p, t), ~Adjusts(p, t)'
    PROVE  SameWork(t)
BY DEF SameWork, SameHand, Adjusts, Adjusting, Proc

(* Steps that touch neither the bill nor the status of t.                  *)
LEMMA PollSame ==
    ASSUME BaseInv, BaseInv', site' = site, NEW p \in Poller, NEW t \in Task,
           \/ ListTimedOut(p) \/ ListUnfinished(p) \/ EndRound(p)
           \/ \E u \in Task : FetchTask(p, u) \/ FetchFails(p, u)
           \/ (RefundSuno(p) \/ SaveSuno(p) \/ ApplyVideo(p)) /\ cur[p] # t
           \/ \E u \in Task \ {t} : SweepTask(p, u)
           \/ \E c \in Channel : BulkFail(p, c) /\ t \notin todo[p]
    PROVE  SameTask(t) /\ SameWork(t)
<1> USE DEF BaseInv, TypeOK
<1>0. p \in Proc
  BY DEF Proc
<1>1. /\ SameTask(t) /\ ~Adjusting(p)
      /\ ~Adjusting(p)' \/ cur'[p] # t
  <2> USE DEF SameTask, Adjusting, Goto, AdjustThen, Write, rowVars, worldVars, moneyVars
  <2>1. CASE ListTimedOut(p) \/ ListUnfinished(p) \/ EndRound(p)
    BY <1>0, <2>1 DEF ListTimedOut, ListUnfinished, EndRound
  <2>2. ASSUME NEW u \in Task, FetchTask(p, u) \/ FetchFails(p, u)
        PROVE  SameTask(t) /\ ~Adjusting(p) /\ (~Adjusting(p)' \/ cur'[p] # t)
    BY <1>0, <2>2 DEF FetchTask, FetchFails
  <2>3. CASE (RefundSuno(p) \/ SaveSuno(p)) /\ cur[p] # t
    BY <1>0, <2>3 DEF RefundSuno, SaveSuno
  <2>4. CASE ApplyVideo(p) /\ cur[p] # t
    BY <1>0, <2>4 DEF ApplyVideo
  <2>5. ASSUME NEW u \in Task \ {t}, SweepTask(p, u)
        PROVE  SameTask(t) /\ ~Adjusting(p) /\ (~Adjusting(p)' \/ cur'[p] # t)
    BY <1>0, <2>5 DEF SweepTask
  <2>6. ASSUME NEW c \in Channel, BulkFail(p, c), t \notin todo[p]
        PROVE  SameTask(t) /\ ~Adjusting(p) /\ (~Adjusting(p)' \/ cur'[p] # t)
    <3>1. /\ pc[p] = "poll" /\ pc'[p] = "poll" /\ UNCHANGED moneyVars /\ status'[t] = status[t]
          /\ full'[t] = full[t] /\ (t \in dropped => t \in dropped')
      BY <2>6, BulkTask, Zenon
    <3> QED
      BY <3>1
  <2> QED
    BY <2>1, <2>2, <2>3, <2>4, <2>5, <2>6
<1>2. Poll(p)
  BY DEF Poll
<1> QED
  BY <1>0, <1>1, <1>2, OthersSame, WorkSame DEF Adjusts

(* The adjustments and the crashes that are about other tasks.             *)
LEMMA AdjustSame ==
    ASSUME BaseInv, BaseInv', site' = site, NEW p \in Poller, NEW t \in Task,
           (Adjust(p) /\ cur[p] # t) \/ (Crash(p) /\ ~Adjusts(p, t))
    PROVE  SameTask(t) /\ SameWork(t)
<1> USE DEF BaseInv, TypeOK
<1>0. p \in Proc
  BY DEF Proc
<1>1. SameTask(t)
  BY <1>0 DEF SameTask, Adjust, AdjustFunding, AdjustToken, AdjustmentFails, Crash, Adjusts,
              Adjusting, rowVars, worldVars
<1>2. ~Adjusts(p, t) /\ ~Adjusts(p, t)'
  BY <1>0 DEF Adjust, AdjustFunding, AdjustToken, Crash, Adjusts, Adjusting, Goto
<1> QED
  BY <1>0, <1>1, <1>2, OthersSame, WorkSame

(* The world outside, apart from the submission of t.                      *)
LEMMA WorldSame ==
    ASSUME BaseInv, site' = site, NEW t \in Task, World, ~Submit(t)
    PROVE  SameTask(t) /\ SameWork(t)
<1>1. UNCHANGED procVars
  BY DEF World, Submit, UpstreamEnds, TimePasses
<1>2. SameTask(t)
  BY DEF SameTask, World, Submit, UpstreamEnds, TimePasses, rowVars, moneyVars,
         worldVars, BaseInv, TypeOK
<1> QED
  BY <1>1, <1>2 DEF SameWork, procVars, Adjusts, Adjusting

(* Clients look at other tasks.                                            *)
LEMMA FetcherSame ==
    ASSUME BaseInv, site' = site, NEW f \in Fetcher, NEW t \in Task, Fetch(f),
           Platform[t] # "realtime"
    PROVE  SameTask(t) /\ SameWork(t)
<1> USE TaskBillingAssumption DEF BaseInv, TypeOK
<1>0. f \in Proc /\ f \notin Poller /\ FetcherInv(f)
  BY DEF Proc, ProcInv, HandInv
<1>1. SameTask(t)
  BY <1>0 DEF SameTask, Fetch, ReadTask, ApplyRealtime, Write, FetcherInv, rowVars, worldVars,
              moneyVars
<1>2. \A p \in Poller : SameHand(p)
  BY <1>0, OthersSame DEF Proc
<1> QED
  BY <1>1, <1>2 DEF SameWork, SameHand, Adjusts, Adjusting

-----------------------------------------------------------------------------
(* Videos.                                                                 *)

LEMMA VideoWins ==
    ASSUME BaseInv, BaseInv', site' = site, NEW t \in Task, Platform[t] = "video", VideoInv(t),
           NEW p \in Poller, SweepTask(p, t) \/ (ApplyVideo(p) /\ cur[p] = t)
    PROVE  VideoInv(t)'
<1> USE TaskBillingAssumption DEF BaseInv
<1>0. /\ p \in Proc /\ PollerInv(p) /\ TypeOK /\ Quota[t] \in Nat /\ Poll(p)
      /\ Actual \subseteq Nat /\ pc[p] \in {"sweep", "apply"}
  <2>1. p \in Proc /\ TypeOK /\ Quota[t] \in Nat /\ Poll(p) /\ pc[p] \in {"sweep", "apply"}
    BY DEF Proc, Poll, SweepTask, ApplyVideo
  <2>2. PollerInv(p)
    BY <2>1 DEF ProcInv, HandInv
  <2>3. Actual \subseteq Nat
    BY <2>1 DEF Actual, TypeOK
  <2> QED
    BY <2>1, <2>2, <2>3
<1>1. \A q \in Proc \ {p} : SameHand(q)
  BY <1>0, OthersSame
<1>2. CASE UNCHANGED <<rowVars, moneyVars>> /\ dropped' = dropped /\ pc'[p] \in {"sweep", "poll"}
  <2>1. SameTask(t)
    BY <1>2 DEF SameTask, rowVars, moneyVars
  <2>2. ~Adjusts(p, t) /\ ~Adjusts(p, t)'
    BY <1>0, <1>2 DEF Adjusts, Adjusting
  <2> QED
    BY <1>0, <1>1, <2>1, <2>2, WorkSame, VideoSame
<1>3. ASSUME status[t] \in Running, NEW s \in Terminal \cup {"IN_PROGRESS"}, status'[t] = s,
             UNCHANGED moneyVars, cur'[p] = t,
             NEW n \in Int, NEW l \in {"sweep", "poll"}, AdjustThen(p, n, l), n >= -Quota[t],
             s = "FAILURE" => n = -Quota[t],
             s = "SUCCESS" => n = 0 \/ n + Quota[t] \in Actual \ {0},
             s = "IN_PROGRESS" => n = 0
      PROVE  VideoInv(t)'
  <2>1. Costs(t, Quota[t]) /\ Idle(t)
    BY <1>3 DEF VideoInv
  <2>2. CASE s \in Terminal
    <3>1. Ending(t)'
      BY <1>1, <1>3, <2>1, <2>2, Wins DEF moneyVars
    <3> QED
      BY <1>3, <2>2, <3>1 DEF VideoInv, Terminal, Running
  <2>3. CASE s = "IN_PROGRESS"
    <3>1. Costs(t, Quota[t])'
      BY <1>3, <2>1 DEF Costs, moneyVars
    <3>2. ~Adjusts(p, t)'
      BY <1>0, <1>3, <2>3, AdjustThenType DEF Adjusts, Adjusting
    <3>3. Idle(t)'
      BY <1>1, <2>1, <3>2 DEF Idle, Adjusts, Adjusting, SameHand, Proc
    <3> QED
      BY <1>3, <2>3, <3>1, <3>3 DEF VideoInv, Terminal, Running
  <2> QED
    BY <1>3, <2>2, <2>3
<1>4. CASE SweepTask(p, t)
  <2>1. /\ seen[p][t] \in Running /\ UNCHANGED <<worldVars, moneyVars>> /\ cur'[p] = t
        /\ pc[p] = "sweep"
    BY <1>0, <1>4 DEF SweepTask, PollerInv, TypeOK
  <2>2. CASE UNCHANGED <<rowVars, pc, owed, ret>>
    BY <1>2, <2>1, <2>2 DEF worldVars
  <2>3. CASE status[t] = seen[p][t] /\ Write(t, "FAILURE", TRUE) /\ AdjustThen(p, -Quota[t], "sweep")
    <3>1. status'[t] = "FAILURE"
      BY <1>0, <2>3 DEF Write, TypeOK
    <3> QED
      BY <1>0, <1>3, <2>1, <2>3, <3>1 DEF Terminal
  <2> QED
    BY <1>4, <2>2, <2>3, Zenon DEF SweepTask
<1>5. CASE ApplyVideo(p) /\ cur[p] = t
  <2>1. /\ seen[p][t] \in Running /\ UNCHANGED <<worldVars, moneyVars>> /\ cur'[p] = t
        /\ got[p] \in Terminal \cup {"IN_PROGRESS"}
    BY <1>0, <1>5 DEF ApplyVideo, PollerInv, TypeOK
  <2>2. CASE Goto(p, "poll") /\ UNCHANGED <<rowVars, owed, ret>>
    <3>1. pc'[p] = "poll"
      BY <1>0, <2>2 DEF Goto, TypeOK
    <3> QED
      BY <1>2, <2>1, <2>2, <3>1 DEF worldVars
  <2>3. ASSUME status[t] = seen[p][t], Write(t, got[p], got[p] \in Terminal),
               NEW n \in Int, AdjustThen(p, n, "poll"), n >= -Quota[t],
               got[p] = "FAILURE" => n = -Quota[t],
               got[p] = "SUCCESS" => n = 0 \/ n + Quota[t] \in Actual \ {0},
               got[p] = "IN_PROGRESS" => n = 0
        PROVE  VideoInv(t)'
    <3>1. status'[t] = got[p]
      BY <1>0, <2>3 DEF Write, TypeOK
    <3> QED
      BY <1>3, <2>1, <2>3, <3>1
  <2>4. ASSUME NEW a \in Actual, got[p] = "SUCCESS", status[t] = seen[p][t],
               Write(t, got[p], got[p] \in Terminal),
               AdjustThen(p, IF a = 0 THEN 0 ELSE a - Quota[t], "poll")
        PROVE  VideoInv(t)'
    <3> DEFINE n == IF a = 0 THEN 0 ELSE a - Quota[t]
    <3>1. n \in Int /\ n >= -Quota[t] /\ (n = 0 \/ n + Quota[t] \in Actual \ {0})
      BY <1>0, <2>4
    <3>2. AdjustThen(p, n, "poll")
      BY <2>4
    <3> HIDE DEF n
    <3> QED
      BY <2>3, <2>4, <3>1, <3>2
  <2>5. CASE /\ got[p] = "FAILURE" /\ status[t] = seen[p][t]
             /\ Write(t, got[p], got[p] \in Terminal) /\ AdjustThen(p, -Quota[t], "poll")
    <3>1. -Quota[t] \in Int /\ -Quota[t] >= -Quota[t]
      BY <1>0
    <3> QED
      BY <2>3, <2>5, <3>1
  <2>6. CASE /\ got[p] = "IN_PROGRESS" /\ status[t] = seen[p][t]
             /\ Write(t, got[p], got[p] \in Terminal) /\ AdjustThen(p, 0, "poll")
    <3>1. 0 \in Int /\ 0 >= -Quota[t]
      BY <1>0
    <3> QED
      BY <2>3, <2>6, <3>1
  <2> QED
    BY <1>5, <2>2, <2>4, <2>5, <2>6, Zenon DEF ApplyVideo
<1> QED
  BY <1>4, <1>5

LEMMA VideoBulk ==
    ASSUME BaseInv, BaseInv', site' = site, NEW t \in Task, VideoInv(t),
           NEW p \in Poller, NEW c \in Channel, BulkFail(p, c), t \in todo[p]
    PROVE  VideoInv(t)'
<1> USE TaskBillingAssumption DEF BaseInv
<1>0. /\ p \in Proc /\ TypeOK /\ Quota[t] \in Nat /\ Poll(p) /\ ~Adjusting(p) /\ ~Adjusting(p)'
  BY DEF Proc, Poll, BulkFail, Adjusting
<1>1. SameWork(t)
  BY <1>0, OthersSame, WorkSame DEF Adjusts
<1>2. CASE ChannelOf[t] # c
  <2>1. SameTask(t)
    BY <1>2, BulkTask DEF SameTask, moneyVars
  <2> QED
    BY <1>1, <2>1, VideoSame
<1>3. CASE ChannelOf[t] = c
  <2>1. /\ status'[t] = "FAILURE" /\ t \in dropped'
        /\ UNCHANGED <<moneyVars, owed, ret>>
    BY <1>3, BulkTask
  <2>2. CASE status[t] \in Terminal
    <3>1. Ending(t)
      BY <2>2 DEF VideoInv
    <3>2. Idle(t)' <=> Idle(t)
      BY <1>1 DEF Idle, SameWork
    <3>3. Ending(t)'
      BY <1>1, <2>1, <3>1, <3>2 DEF Ending, SameWork, moneyVars
    <3> QED
      BY <2>1, <3>3 DEF VideoInv, Running
  <2>3. CASE status[t] \notin Terminal
    <3>1. Idle(t) /\ walletNet[t] >= 0 /\ tokenNet[t] >= 0
      BY <1>0, <2>3 DEF VideoInv, Costs, TypeOK, Status
    <3>2. Idle(t)'
      BY <1>1, <3>1 DEF Idle, SameWork
    <3>3. Ending(t)'
      BY <2>1, <3>1, <3>2 DEF Ending, Idle, moneyVars
    <3> QED
      BY <2>1, <3>3 DEF VideoInv, Running
  <2> QED
    BY <2>2, <2>3
<1> QED
  BY <1>2, <1>3

LEMMA VideoStep ==
    ASSUME BaseInv, BaseInv', NEW t \in Task, Platform[t] = "video", VideoInv(t), Next
    PROVE  VideoInv(t)'
<1> USE TaskBillingAssumption
<1>0. site' = site /\ TypeOK /\ Quota[t] \in Nat
  BY DEF Next, BaseInv
<1>s. SameTask(t) /\ SameWork(t) => VideoInv(t)'
  BY VideoSame
<1>1. CASE World
  <2>1. CASE Submit(t)
    <3>1. /\ status[t] = "absent" /\ status'[t] = "charged" /\ UNCHANGED procVars
          /\ walletNet'[t] = Quota[t] /\ tokenNet'[t] = Quota[t]
      BY <1>0, <2>1 DEF Submit, TypeOK
    <3>2. Idle(t)'
      BY <3>1 DEF VideoInv, Idle, Adjusts, Adjusting, procVars
    <3> QED
      BY <3>1, <3>2 DEF VideoInv, Costs, Running, Terminal
  <2> QED
    BY <1>0, <1>1, <1>s, <2>1, WorldSame
<1>2. ASSUME NEW u \in Task, InsertTask(u) PROVE VideoInv(t)'
  <2>1. UNCHANGED procVars /\ UNCHANGED <<worldVars, moneyVars>>
    BY <1>2 DEF InsertTask
  <2>2. SameWork(t)
    BY <2>1 DEF SameWork, procVars, Adjusts, Adjusting
  <2>3. CASE u = t
    <3>1. status[t] = "charged" /\ status'[t] \in {"NOT_START", "lost"}
      BY <1>0, <1>2, <2>3 DEF InsertTask, Write, TypeOK
    <3>2. Idle(t)' /\ Costs(t, Quota[t])'
      BY <2>1, <2>2, <3>1 DEF VideoInv, Idle, SameWork, Costs, moneyVars
    <3> QED
      BY <3>1, <3>2 DEF VideoInv, Running, Terminal
  <2>4. CASE u # t
    <3>1. SameTask(t)
      BY <1>0, <1>2, <2>1, <2>4 DEF SameTask, InsertTask, Write, TypeOK, worldVars, moneyVars
    <3> QED
      BY <1>s, <2>2, <3>1
  <2> QED
    BY <2>3, <2>4
<1>3. ASSUME NEW p \in Poller, Poll(p) PROVE VideoInv(t)'
  <2>1. PollerInv(p)
    BY DEF BaseInv, ProcInv, HandInv, Proc
  <2>2. CASE RefundSuno(p) \/ SaveSuno(p)
    <3>1. cur[p] # t
      BY <2>1, <2>2 DEF PollerInv, RefundSuno, SaveSuno
    <3> QED
      BY <1>0, <1>s, <2>2, <3>1, PollSame
  <2>3. CASE ListTimedOut(p) \/ ListUnfinished(p) \/ EndRound(p)
    BY <1>0, <1>s, <2>3, PollSame
  <2>4. CASE ApplyVideo(p)
    BY <1>0, <1>s, <2>4, PollSame, VideoWins
  <2>5. ASSUME NEW u \in Task, FetchTask(p, u) \/ FetchFails(p, u) PROVE VideoInv(t)'
    BY <1>0, <1>s, <2>5, PollSame
  <2>6. ASSUME NEW u \in Task, SweepTask(p, u) PROVE VideoInv(t)'
    <3>1. CASE u = t
      BY <1>0, <2>6, <3>1, VideoWins
    <3>2. CASE u # t
      BY <1>0, <1>s, <2>6, <3>2, PollSame
    <3> QED
      BY <3>1, <3>2
  <2>7. ASSUME NEW c \in Channel, BulkFail(p, c) PROVE VideoInv(t)'
    BY <1>0, <1>s, <2>7, PollSame, VideoBulk
  <2> QED
    BY <1>3, <2>2, <2>3, <2>4, <2>5, <2>6, <2>7 DEF Poll
<1>4. ASSUME NEW p \in Poller, Adjust(p) \/ Crash(p) PROVE VideoInv(t)'
  <2>0. status'[t] = status[t]
    BY <1>4 DEF Adjust, AdjustFunding, AdjustToken, Crash, rowVars
  <2>1. CASE Adjusts(p, t)
    <3>1. status[t] \in Terminal /\ Ending(t)
      BY <1>0, <2>1 DEF VideoInv, Idle, TypeOK, Status
    <3>2. Ending(t)'
      BY <1>0, <1>4, <2>1, <3>1, EndingAdjusts, EndingCrash DEF Adjusts
    <3> QED
      BY <2>0, <3>1, <3>2 DEF VideoInv, Terminal, Running
  <2>2. CASE ~Adjusts(p, t)
    <3>1. Adjust(p) => cur[p] # t
      BY <2>2 DEF Adjust, AdjustFunding, AdjustToken, Adjusts, Adjusting
    <3> QED
      BY <1>0, <1>4, <1>s, <2>2, <3>1, AdjustSame
  <2> QED
    BY <2>1, <2>2
<1>5. ASSUME NEW f \in Fetcher, Fetch(f) PROVE VideoInv(t)'
  BY <1>0, <1>5, <1>s, FetcherSame
<1> QED
  BY <1>1, <1>2, <1>3, <1>4, <1>5 DEF Next

-----------------------------------------------------------------------------
(* Free tasks.                                                             *)
LEMMA MinusZero == ASSUME NEW n \in Nat, n <= 0 PROVE -n = 0
OBVIOUS

LEMMA FreeStep ==
    ASSUME BaseInv, BaseInv', NEW t \in Task, Platform[t] # "suno", FreeInv(t), Next,
           Quota[t] = 0, Actual \subseteq {0}
    PROVE  FreeInv(t)'
<1>0. site' = site /\ TypeOK /\ Idle(t) /\ Costs(t, 0)
  BY DEF Next, BaseInv, FreeInv
<1>s. SameTask(t) /\ SameWork(t) => FreeInv(t)'
  BY DEF FreeInv, SameTask, SameWork, Costs, Idle
<1>m. ASSUME UNCHANGED <<walletNet, tokenNet>>, NEW p \in Poller, Poll(p), ~Adjusts(p, t)'
      PROVE  FreeInv(t)'
  <2>1. \A q \in Poller \ {p} : SameHand(q)
    BY <1>m, OthersSame DEF Proc
  <2>2. Idle(t)'
    BY <1>0, <1>m, <2>1 DEF Idle, SameHand, Adjusts, Adjusting
  <2> QED
    BY <1>0, <1>m, <2>2 DEF FreeInv, Costs
<1>1. CASE World
  <2>1. CASE Submit(t)
    BY <1>0, <2>1 DEF Submit, TypeOK, FreeInv, Costs, Idle, procVars, Adjusts, Adjusting
  <2> QED
    BY <1>0, <1>1, <1>s, <2>1, WorldSame
<1>2. ASSUME NEW u \in Task, InsertTask(u) PROVE FreeInv(t)'
  BY <1>0, <1>2 DEF InsertTask, FreeInv, Costs, Idle, moneyVars, procVars, Adjusts, Adjusting
<1>3. ASSUME NEW p \in Poller, Poll(p) PROVE FreeInv(t)'
  <2>1. PollerInv(p) /\ p \in Proc
    BY DEF BaseInv, ProcInv, HandInv, Proc
  <2>2. CASE RefundSuno(p) \/ SaveSuno(p)
    <3>1. cur[p] # t
      BY <2>1, <2>2 DEF PollerInv, RefundSuno, SaveSuno
    <3> QED
      BY <1>0, <1>s, <2>2, <3>1, PollSame
  <2>3. CASE ListTimedOut(p) \/ ListUnfinished(p) \/ EndRound(p)
    BY <1>0, <1>s, <2>3, PollSame
  <2>4. CASE ApplyVideo(p)
    <3>1. CASE cur[p] # t
      BY <1>0, <1>s, <2>4, <3>1, PollSame
    <3>2. CASE cur[p] = t
      <4>1. UNCHANGED <<walletNet, tokenNet>>
        BY <2>4 DEF ApplyVideo, moneyVars
      <4>2. \A a \in Actual : (IF a = 0 THEN 0 ELSE a - Quota[t]) = 0
        OBVIOUS
      <4>3. pc'[p] = "poll"
        BY <1>0, <2>1, <2>4, <3>2, <4>2 DEF ApplyVideo, AdjustThen, Goto, TypeOK
      <4> QED
        BY <1>3, <1>m, <4>1, <4>3 DEF Adjusts, Adjusting
    <3> QED
      BY <3>1, <3>2
  <2>5. ASSUME NEW u \in Task, FetchTask(p, u) \/ FetchFails(p, u) PROVE FreeInv(t)'
    BY <1>0, <1>s, <2>5, PollSame
  <2>6. ASSUME NEW u \in Task, SweepTask(p, u) PROVE FreeInv(t)'
    <3>1. CASE u = t
      <4>1. UNCHANGED <<walletNet, tokenNet>>
        BY <2>6 DEF SweepTask, moneyVars
      <4>2. pc'[p] = "sweep"
        <5>0. -Quota[t] = 0
          <6>1. \A n \in Nat : n <= 0 => -n = 0
            BY MinusZero
          <6> QED
            BY <6>1, Quota[t] \in Nat, Quota[t] <= 0, Zenon
        <5>1. CASE AdjustThen(p, -Quota[t], "sweep")
          <6>1. pc' = [pc EXCEPT ![p] = "sweep"]
            BY <5>0, <5>1 DEF AdjustThen, Goto
          <6> QED
            BY <1>0, <2>1, <6>1 DEF TypeOK
        <5>2. CASE UNCHANGED pc
          BY <2>6, <5>2 DEF SweepTask
        <5> QED
          BY <2>6, <3>1, <5>1, <5>2, Zenon DEF SweepTask
      <4> QED
        BY <1>3, <1>m, <4>1, <4>2 DEF Adjusts, Adjusting
    <3>2. CASE u # t
      BY <1>0, <1>s, <2>6, <3>2, PollSame
    <3> QED
      BY <3>1, <3>2
  <2>7. ASSUME NEW c \in Channel, BulkFail(p, c) PROVE FreeInv(t)'
    BY <1>0, <1>3, <1>m, <2>7 DEF BulkFail, moneyVars, Adjusts, Adjusting
  <2> QED
    BY <1>3, <2>2, <2>3, <2>4, <2>5, <2>6, <2>7 DEF Poll
<1>4. ASSUME NEW p \in Poller, Adjust(p) \/ Crash(p) PROVE FreeInv(t)'
  <2>1. ~Adjusts(p, t)
    BY <1>0 DEF Idle
  <2>2. Adjust(p) => cur[p] # t
    BY <2>1 DEF Adjust, AdjustFunding, AdjustToken, Adjusts, Adjusting
  <2> QED
    BY <1>0, <1>4, <1>s, <2>1, <2>2, AdjustSame
<1>5. ASSUME NEW f \in Fetcher, Fetch(f) PROVE FreeInv(t)'
  <2>1. UNCHANGED moneyVars
    BY <1>5 DEF Fetch, ReadTask, ApplyRealtime
  <2>2. \A p \in Poller : SameHand(p)
    BY <1>5, TaskBillingAssumption, OthersSame DEF Proc
  <2> QED
    BY <1>0, <2>1, <2>2 DEF FreeInv, Costs, Idle, SameHand, Adjusts, Adjusting, moneyVars
<1> QED
  BY <1>1, <1>2, <1>3, <1>4, <1>5 DEF Next

-----------------------------------------------------------------------------
(* Songs.                                                                  *)

(* p has t in hand as updateSunoTasks does, until the row is saved.        *)
InHand(p, t) ==
    cur[p] = t /\ (pc[p] \in {"suno", "save"} \/ (Adjusting(p) /\ ret[p] = "save"))

(* What is listed or in hand is still unfinished, and its refund is as far *)
(* as p is.                                                                *)
SunoHand(p, t) ==
    /\ t \in todo[p] => t \in Unfinished /\ (cur[p] = t => pc[p] \in {"idle", "sweep", "poll"})
    /\ InHand(p, t) =>
          /\ t \in Unfinished
          /\ pc[p] \in {"suno", "wallet"} => Costs(t, Quota[t])
          /\ pc[p] = "token" => walletNet[t] = 0 /\ tokenNet[t] = Quota[t]
          /\ pc[p] = "save" =>
                Costs(t, IF got[p] \in {"FAILURE", "FAIL_REASON"} THEN 0 ELSE Quota[t])
    /\ t \in Unfinished /\ Adjusts(p, t) => ret[p] = "save"

(* Songs are refunded while their row is unfinished; one that came with a  *)
(* reason for its failure and no final status keeps its status, is         *)
(* refunded and never taken up again.                                      *)
SunoInv(t) ==
    /\ status[t] # "lost"
    /\ status[t] = "absent" => Costs(t, 0) /\ Idle(t)
    /\ status[t] = "charged" => Costs(t, Quota[t]) /\ Idle(t)
    /\ \A p \in Poller : SunoHand(p, t)
    /\ status[t] \in Running /\ full[t] => Costs(t, 0) /\ Idle(t)
    /\ t \in Unfinished /\ (\A p \in Poller : ~InHand(p, t)) => Costs(t, Quota[t])
    /\ status[t] \in Terminal => Ending(t)

(* The same, with p the only poller.                                       *)
SunoOf(p, t) ==
    /\ status[t] # "lost"
    /\ status[t] = "absent" => Costs(t, 0) /\ ~Adjusts(p, t)
    /\ status[t] = "charged" => Costs(t, Quota[t]) /\ ~Adjusts(p, t)
    /\ SunoHand(p, t)
    /\ status[t] \in Running /\ full[t] => Costs(t, 0) /\ ~Adjusts(p, t)
    /\ t \in Unfinished /\ ~InHand(p, t) => Costs(t, Quota[t])
    /\ status[t] \in Terminal => Ending(t)

Alone(p) == \A q \in Poller \ {p} : pc[q] = "idle" /\ todo[q] = {}

LEMMA SunoAlone ==
    ASSUME NEW p \in Poller, NEW t, Alone(p), Alone(p)'
    PROVE  (SunoInv(t) <=> SunoOf(p, t)) /\ (SunoInv(t)' <=> SunoOf(p, t)')
<1>1. \A q \in Poller \ {p} : SunoHand(q, t) /\ ~InHand(q, t) /\ ~Adjusts(q, t)
  BY DEF Alone, SunoHand, InHand, Adjusts, Adjusting
<1>2. \A q \in Poller \ {p} : SunoHand(q, t)' /\ ~InHand(q, t)' /\ ~Adjusts(q, t)'
  BY DEF Alone, SunoHand, InHand, Adjusts, Adjusting
<1>3. SunoInv(t) <=> SunoOf(p, t)
  BY <1>1 DEF SunoInv, SunoOf, Idle
<1>4. SunoInv(t)' <=> SunoOf(p, t)'
  BY <1>2 DEF SunoInv, SunoOf, Idle
<1> QED
  BY <1>3, <1>4

LEMMA AloneThere ==
    ASSUME BaseInv, BaseInv', site' = site, NEW p \in Poller \cap site.procs,
           \A q, r \in Poller \cap site.procs : q = r
    PROVE  Alone(p) /\ Alone(p)'
<1>1. \A q \in Poller \ {p} : q \in Proc \ site.procs
  BY DEF Proc
<1> QED
  BY <1>1 DEF Alone, BaseInv, ProcInv, HandInv

LEMMA SunoSame ==
    ASSUME NEW t \in Task, SameTask(t), \A p \in Poller : SameHand(p), SunoInv(t)
    PROVE  SunoInv(t)'
<1>1. SameWork(t)
  BY DEF SameWork, SameHand, Adjusts, Adjusting
<1>2. Idle(t)' <=> Idle(t)
  BY <1>1 DEF Idle, SameWork
<1>3. t \in Unfinished' <=> t \in Unfinished
  BY DEF SameTask, Unfinished
<1>4. \A p \in Poller : (InHand(p, t)' <=> InHand(p, t)) /\ (Adjusts(p, t)' <=> Adjusts(p, t))
  BY DEF SameHand, InHand, Adjusts, Adjusting
<1>5. \A p \in Poller : SunoHand(p, t)'
  BY <1>3, <1>4 DEF SunoInv, SunoHand, SameHand, SameTask, Costs
<1>6. status[t] \in Terminal => Ending(t)'
  BY <1>1, EndingSame DEF SunoInv
<1> QED
  BY <1>2, <1>3, <1>4, <1>5, <1>6 DEF SunoInv, SameTask, Costs

(* A step of the one poller that is about other tasks.                     *)
LEMMA SunoOther ==
    ASSUME NEW t \in Task, NEW p \in Poller, SunoOf(p, t), SameTask(t), SameWork(t),
           ~InHand(p, t), ~InHand(p, t)',
           t \in todo'[p] => t \in Unfinished /\ (cur'[p] = t => pc'[p] \in {"idle", "sweep", "poll"})
    PROVE  SunoOf(p, t)'
<1>1. t \in Unfinished' <=> t \in Unfinished
  BY DEF SameTask, Unfinished
<1>2. Adjusts(p, t)' <=> Adjusts(p, t)
  BY DEF SameWork
<1>3. t \in Unfinished => ~Adjusts(p, t)
  BY DEF SunoOf, SunoHand, InHand, Adjusts
<1>4. SunoHand(p, t)'
  BY <1>1, <1>2, <1>3 DEF SunoHand
<1>5. status[t] \in Terminal => Ending(t)'
  BY EndingSame DEF SunoOf
<1> QED
  BY <1>1, <1>2, <1>4, <1>5 DEF SunoOf, SameTask, Costs

LEMMA SunoLists ==
    ASSUME BaseInv, BaseInv', site' = site, NEW t \in Task, NEW p \in Poller, SunoOf(p, t),
           ListTimedOut(p) \/ ListUnfinished(p) \/ EndRound(p) \/ (\E u \in Task : FetchFails(p, u))
    PROVE  SunoOf(p, t)'
<1> USE DEF BaseInv, TypeOK
<1>0. p \in Proc
  BY DEF Proc
<1>1. SameTask(t) /\ SameWork(t)
  BY PollSame
<1>2. pc[p] \in {"idle", "sweep", "poll"} /\ pc'[p] \in {"idle", "sweep", "poll"}
  BY <1>0 DEF ListTimedOut, ListUnfinished, EndRound, FetchFails, Goto
<1>3. ~InHand(p, t) /\ ~InHand(p, t)'
  BY <1>2 DEF InHand, Adjusting
<1>4. todo'[p] \subseteq Unfinished \/ todo'[p] \subseteq todo[p]
  BY <1>0 DEF ListTimedOut, ListUnfinished, ReadRows, EndRound, FetchFails
<1>5. t \in todo[p] => t \in Unfinished
  BY DEF SunoOf, SunoHand
<1> QED
  BY <1>1, <1>2, <1>3, <1>4, <1>5, SunoOther

LEMMA SunoFetch ==
    ASSUME BaseInv, BaseInv', site' = site, NEW t \in Task, Platform[t] = "suno",
           NEW p \in Poller, SunoOf(p, t), NEW u \in Task, FetchTask(p, u)
    PROVE  SunoOf(p, t)'
<1> USE DEF BaseInv, TypeOK
<1>0. p \in Proc
  BY DEF Proc
<1>1. SameTask(t) /\ SameWork(t)
  BY PollSame
<1>2. /\ pc[p] = "poll" /\ u \in todo[p] /\ todo'[p] = todo[p] \ {u} /\ cur'[p] = u
      /\ pc'[p] = IF Platform[u] = "suno" THEN "suno" ELSE "apply"
  BY <1>0 DEF FetchTask, Goto
<1>3. ~InHand(p, t)
  BY <1>2 DEF InHand, Adjusting
<1>4. t \in todo[p] => t \in Unfinished
  BY DEF SunoOf, SunoHand
<1>5. CASE u # t
  BY <1>1, <1>2, <1>3, <1>4, <1>5, SunoOther DEF InHand
<1>6. CASE u = t
  <2>1. t \in Unfinished /\ t \in Unfinished' /\ Costs(t, Quota[t])
    BY <1>1, <1>2, <1>3, <1>4, <1>6 DEF SunoOf, SameTask, Unfinished
  <2>2. Costs(t, Quota[t])' /\ pc'[p] = "suno" /\ ~Adjusts(p, t)'
    BY <1>1, <1>2, <1>6, <2>1 DEF SameTask, Costs, Adjusts, Adjusting
  <2>3. SunoHand(p, t)'
    BY <1>2, <1>6, <2>1, <2>2 DEF SunoHand
  <2>4. status'[t] \in Running /\ ~full'[t]
    BY <2>1 DEF Unfinished
  <2> QED
    BY <2>2, <2>3, <2>4 DEF SunoOf, Running, Terminal
<1> QED
  BY <1>5, <1>6

LEMMA SunoSweep ==
    ASSUME BaseInv, BaseInv', site' = site, NEW t \in Task,
           NEW p \in Poller, Alone(p), Alone(p)', SunoOf(p, t), NEW u \in Task, SweepTask(p, u)
    PROVE  SunoOf(p, t)'
<1> USE TaskBillingAssumption DEF BaseInv
<1>0. p \in Proc /\ TypeOK /\ Poll(p) /\ Quota[t] \in Nat
  BY DEF Proc, Poll
<1>1. /\ pc[p] = "sweep" /\ u \in todo[p] /\ todo'[p] = todo[p] \ {u} /\ cur'[p] = u
      /\ UNCHANGED <<worldVars, moneyVars>>
  BY <1>0 DEF SweepTask, TypeOK
<1>2. ~InHand(p, t) /\ ~Adjusts(p, t)
  BY <1>1 DEF InHand, Adjusts, Adjusting
<1>3. t \in todo[p] => t \in Unfinished
  BY DEF SunoOf, SunoHand
<1>4. CASE u # t
  <2>1. SameTask(t) /\ SameWork(t)
    BY <1>4, PollSame
  <2> QED
    BY <1>1, <1>2, <1>3, <1>4, <2>1, SunoOther DEF InHand
<1>5. CASE u = t /\ UNCHANGED <<rowVars, pc, owed, ret>>
  <2>1. SameTask(t)
    BY <1>1, <1>5 DEF SameTask, rowVars, worldVars, moneyVars
  <2>2. ~InHand(p, t)' /\ ~Adjusts(p, t)'
    BY <1>1, <1>5 DEF InHand, Adjusts, Adjusting
  <2>3. SameWork(t)
    BY <1>0, <1>2, <2>2, OthersSame, WorkSame
  <2> QED
    BY <1>1, <1>2, <1>5, <2>1, <2>2, <2>3, SunoOther
<1>6. CASE u = t /\ Write(t, "FAILURE", TRUE) /\ AdjustThen(p, -Quota[t], "sweep")
  <2>1. t \in Unfinished /\ Costs(t, Quota[t])
    BY <1>1, <1>2, <1>3, <1>6 DEF SunoOf
  <2>2. Idle(t)
    BY <1>2 DEF Alone, Idle, Adjusts, Adjusting
  <2>3. status'[t] = "FAILURE"
    BY <1>0, <1>6 DEF Write, TypeOK
  <2>4. -Quota[t] \in Int /\ -Quota[t] >= -Quota[t]
    BY <1>0
  <2>5. Ending(t)'
    BY <1>0, <1>1, <1>6, <2>1, <2>2, <2>3, <2>4, OthersSame, Wins DEF Terminal, moneyVars
  <2>6. pc'[p] \in {"sweep", "wallet"} /\ ret'[p] = "sweep"
    BY <1>0, <1>6, <2>4, AdjustThenType
  <2>7. SunoHand(p, t)'
    BY <1>1, <1>6, <2>3, <2>6 DEF SunoHand, InHand, Unfinished, Running
  <2> QED
    BY <2>3, <2>5, <2>7 DEF SunoOf, Unfinished, Running
<1> QED
  BY <1>4, <1>5, <1>6, Zenon DEF SweepTask

LEMMA SunoBulk ==
    ASSUME BaseInv, BaseInv', site' = site, NEW t \in Task,
           NEW p \in Poller, Alone(p), Alone(p)', SunoOf(p, t), NEW c \in Channel, BulkFail(p, c)
    PROVE  SunoOf(p, t)'
<1> USE TaskBillingAssumption DEF BaseInv
<1>0. p \in Proc /\ TypeOK /\ Poll(p) /\ Quota[t] \in Nat
  BY DEF Proc, Poll
<1>1. /\ pc[p] = "poll" /\ pc'[p] = "poll" /\ todo'[p] \subseteq todo[p]
      /\ UNCHANGED moneyVars
  BY BulkTask
<1>2. /\ ~InHand(p, t) /\ ~Adjusts(p, t) /\ ~InHand(p, t)' /\ ~Adjusts(p, t)'
  BY <1>1 DEF InHand, Adjusts, Adjusting
<1>3. t \in todo[p] => t \in Unfinished
  BY DEF SunoOf, SunoHand
<1>4. SameWork(t)
  BY <1>0, <1>2, OthersSame, WorkSame
<1>5. CASE t \notin todo[p] \/ ChannelOf[t] # c
  <2>1. SameTask(t)
    BY <1>5, BulkTask DEF SameTask, moneyVars
  <2> QED
    BY <1>1, <1>2, <1>3, <1>4, <2>1, SunoOther
<1>6. CASE t \in todo[p] /\ ChannelOf[t] = c
  <2>1. status'[t] = "FAILURE" /\ t \in dropped' /\ t \notin todo'[p]
    BY <1>6, BulkTask
  <2>2. walletNet'[t] >= 0 /\ tokenNet'[t] >= 0
    BY <1>0, <1>1, <1>2, <1>3, <1>6 DEF SunoOf, Costs, moneyVars
  <2>3. \A q \in Poller : ~Adjusts(q, t)'
    BY <1>2 DEF Alone, Adjusts, Adjusting
  <2>4. Ending(t)'
    BY <2>1, <2>2, <2>3 DEF Ending
  <2>5. SunoHand(p, t)'
    BY <1>2, <2>1 DEF SunoHand
  <2> QED
    BY <2>1, <2>4, <2>5 DEF SunoOf, Unfinished, Running
<1> QED
  BY <1>5, <1>6

(* The refund comes first ...                                              *)
LEMMA SunoRefund ==
    ASSUME BaseInv, BaseInv', site' = site, NEW t \in Task,
           NEW p \in Poller, SunoOf(p, t), RefundSuno(p) \/ (SaveSuno(p) /\ cur[p] # t)
    PROVE  SunoOf(p, t)'
<1> USE TaskBillingAssumption DEF BaseInv
<1>0. p \in Proc /\ TypeOK /\ Quota[t] \in Nat
  BY DEF Proc
<1>1. /\ pc[p] \in {"suno", "save"} /\ UNCHANGED <<worldVars, moneyVars, todo, cur, got>>
  BY DEF RefundSuno, SaveSuno
<1>2. t \in todo[p] => t \in Unfinished /\ cur[p] # t
  BY <1>1 DEF SunoOf, SunoHand
<1>3. CASE cur[p] # t
  <2>1. SameTask(t) /\ SameWork(t)
    BY <1>3, PollSame
  <2>2. ~InHand(p, t) /\ ~InHand(p, t)'
    BY <1>1, <1>3 DEF InHand
  <2> QED
    BY <1>1, <1>2, <1>3, <2>1, <2>2, SunoOther
<1>4. CASE RefundSuno(p) /\ cur[p] = t
  <2> DEFINE n == IF got[p] \in {"FAILURE", "FAIL_REASON"} THEN -Quota[t] ELSE 0
  <2>1. n \in Int /\ AdjustThen(p, n, "save") /\ pc[p] = "suno" /\ UNCHANGED rowVars
    BY <1>0, <1>4 DEF RefundSuno
  <2>2. pc'[p] = (IF n = 0 THEN "save" ELSE "wallet") /\ ret'[p] = "save"
    <3> HIDE DEF n
    <3> QED
      BY <1>0, <2>1, AdjustThenType
  <2>3. InHand(p, t) /\ t \in Unfinished /\ Costs(t, Quota[t])
    BY <1>4, <2>1 DEF InHand, SunoOf, SunoHand
  <2>4. t \in Unfinished' /\ Costs(t, Quota[t])' /\ t \notin todo'[p]
    BY <1>1, <1>2, <1>4, <2>1, <2>3 DEF Unfinished, Costs, rowVars, moneyVars
  <2>5. n = 0 /\ got[p] \in {"FAILURE", "FAIL_REASON"} => Quota[t] = 0
    BY <1>0
  <2>6. SunoHand(p, t)'
    BY <1>1, <2>2, <2>4, <2>5 DEF SunoHand
  <2>7. InHand(p, t)'
    BY <1>1, <1>4, <2>2 DEF InHand, Adjusting
  <2> QED
    BY <2>4, <2>6, <2>7 DEF SunoOf, Unfinished, Running, Terminal
<1> QED
  BY <1>3, <1>4

(* ... and then the row is saved.                                          *)
LEMMA SunoSave ==
    ASSUME BaseInv, BaseInv', site' = site, NEW t \in Task, ~MayFail,
           NEW p \in Poller, Alone(p), Alone(p)', SunoOf(p, t), SaveSuno(p), cur[p] = t
    PROVE  SunoOf(p, t)'
<1> USE TaskBillingAssumption DEF BaseInv
<1>0. p \in Proc /\ TypeOK /\ Quota[t] \in Nat /\ PollerInv(p)
  BY DEF Proc, ProcInv, HandInv
<1>1. /\ pc[p] = "save" /\ pc'[p] = "poll" /\ seen[p][t] \in Running
      /\ UNCHANGED <<worldVars, moneyVars, todo, cur, got>>
      /\ status'[t] = (IF got[p] = "FAIL_REASON" THEN seen[p][t] ELSE got[p])
      /\ full'[t] = (got[p] # "IN_PROGRESS")
  BY <1>0 DEF SaveSuno, Write, Goto, PollerInv, TypeOK
<1>2. /\ t \notin todo'[p] /\ ~InHand(p, t)' /\ \A q \in Poller : ~Adjusts(q, t)'
  <2>1. t \notin todo[p]
    BY <1>1 DEF SunoOf, SunoHand
  <2> QED
    BY <1>1, <2>1 DEF InHand, Adjusts, Adjusting, Alone
<1>3. SunoHand(p, t)'
  BY <1>2 DEF SunoHand
<1>4. Costs(t, IF got[p] \in {"FAILURE", "FAIL_REASON"} THEN 0 ELSE Quota[t])'
  BY <1>1 DEF SunoOf, SunoHand, InHand, Costs, moneyVars
<1>5. got[p] \in {"SUCCESS", "FAILURE", "IN_PROGRESS", "FAIL_REASON"}
  BY <1>0 DEF TypeOK, Terminal
<1>6. status'[t] \in Terminal => Ending(t)'
  <2>1. status'[t] \in Terminal => got[p] = status'[t]
    BY <1>1 DEF Running, Terminal
  <2>2. status'[t] \in Terminal => Bill(t)'
    BY <1>1, <1>4, <2>1 DEF Bill, Costs, Terminal
  <2>3. walletNet'[t] >= 0 /\ tokenNet'[t] >= 0
    BY <1>0, <1>4 DEF Costs
  <2> QED
    BY <1>2, <2>2, <2>3 DEF Ending
<1> QED
  BY <1>1, <1>2, <1>3, <1>4, <1>5, <1>6 DEF SunoOf, Unfinished, Running, Terminal

LEMMA SunoAdjust ==
    ASSUME BaseInv, BaseInv', site' = site, NEW t \in Task, ~MayFail,
           NEW p \in Poller, Alone(p), Alone(p)', SunoOf(p, t), Adjust(p)
    PROVE  SunoOf(p, t)'
<1> USE TaskBillingAssumption DEF BaseInv
<1>0. p \in Proc /\ TypeOK /\ Quota[t] \in Nat /\ PollerInv(p)
  BY DEF Proc, ProcInv, HandInv
<1>1. /\ Adjusting(p) /\ UNCHANGED <<rowVars, worldVars, todo, seen, cur, got, owed, ret>>
      /\ pc[p] \in {"wallet", "token"}
  BY DEF Adjust, AdjustFunding, AdjustToken, Adjusting
<1>2. t \in todo[p] => t \in Unfinished /\ cur[p] # t
  BY <1>1 DEF SunoOf, SunoHand
<1>u. (t \in Unfinished' <=> t \in Unfinished) /\ status'[t] = status[t] /\ full'[t] = full[t]
  BY <1>1 DEF Unfinished, rowVars
<1>3. CASE cur[p] # t
  <2>1. SameTask(t) /\ SameWork(t)
    BY <1>3, AdjustSame
  <2>2. ~InHand(p, t) /\ ~InHand(p, t)'
    BY <1>1, <1>3 DEF InHand
  <2> QED
    BY <1>1, <1>2, <1>3, <2>1, <2>2, SunoOther
<1>4. CASE cur[p] = t /\ t \in Unfinished
  <2>1. /\ Adjusts(p, t) /\ InHand(p, t) /\ ret[p] = "save" /\ owed[p] = -Quota[t]
        /\ got[p] \in {"FAILURE", "FAIL_REASON"}
    BY <1>0, <1>1, <1>4 DEF SunoOf, SunoHand, Adjusts, InHand, PollerInv
  <2>2. CASE pc[p] = "wallet"
    <3>1. pc'[p] = "token" /\ walletNet'[t] = walletNet[t] + owed[p] /\ tokenNet' = tokenNet
      BY <1>0, <1>4, <2>2 DEF Adjust, AdjustFunding, AdjustToken, Goto, TypeOK
    <3>2. Costs(t, Quota[t])
      BY <2>1, <2>2 DEF SunoOf, SunoHand
    <3>3. walletNet'[t] = 0 /\ tokenNet'[t] = Quota[t]
      BY <1>0, <2>1, <3>1, <3>2 DEF Costs
    <3>4. SunoHand(p, t)' /\ InHand(p, t)'
      BY <1>1, <1>2, <1>4, <1>u, <2>1, <3>1, <3>3 DEF SunoHand, InHand, Adjusting
    <3> QED
      BY <1>4, <1>u, <3>4 DEF SunoOf, Unfinished, Running, Terminal
  <2>3. CASE pc[p] = "token"
    <3>1. pc'[p] = "save" /\ tokenNet'[t] = tokenNet[t] + owed[p] /\ walletNet' = walletNet
      BY <1>0, <1>4, <2>1, <2>3 DEF Adjust, AdjustFunding, AdjustToken, Goto, TypeOK
    <3>2. walletNet[t] = 0 /\ tokenNet[t] = Quota[t]
      BY <2>1, <2>3 DEF SunoOf, SunoHand
    <3>3. Costs(t, 0)'
      BY <1>0, <2>1, <3>1, <3>2 DEF Costs
    <3>4. SunoHand(p, t)' /\ InHand(p, t)'
      BY <1>1, <1>2, <1>4, <1>u, <2>1, <3>1, <3>3 DEF SunoHand, InHand, Adjusting, Adjusts
    <3> QED
      BY <1>4, <1>u, <3>4 DEF SunoOf, Unfinished, Running, Terminal
  <2> QED
    BY <1>1, <2>2, <2>3
<1>5. CASE cur[p] = t /\ t \notin Unfinished
  <2>1. Adjusts(p, t)
    BY <1>1, <1>5 DEF Adjusts
  <2>2. status[t] \in Terminal /\ Ending(t) /\ ~InHand(p, t)
    BY <1>0, <1>5, <2>1 DEF SunoOf, SunoHand, Unfinished, TypeOK, Status
  <2>3. Ending(t)'
    BY <1>5, <2>2, EndingAdjusts
  <2>4. ret[p] # "save" /\ ret[p] # "idle"
    BY <1>0, <1>1, <2>1, <2>2 DEF InHand, PollerInv, Adjusts
  <2>5. pc'[p] \in {"token", "sweep", "poll"}
    BY <1>0, <2>4 DEF Adjust, AdjustFunding, AdjustToken, Goto, TypeOK
  <2>6. SunoHand(p, t)'
    BY <1>1, <1>2, <1>5, <1>u, <2>4, <2>5 DEF SunoHand, InHand
  <2> QED
    BY <1>5, <1>u, <2>2, <2>3, <2>6 DEF SunoOf, Unfinished, Running, Terminal
<1> QED
  BY <1>3, <1>4, <1>5

LEMMA SunoStep ==
    ASSUME BaseInv, BaseInv', NEW t \in Task, Platform[t] = "suno", SunoInv(t), Next,
           ~MayFail, ~MayCrash, \A p, q \in Poller \cap site.procs : p = q
    PROVE  SunoInv(t)'
<1> USE TaskBillingAssumption
<1>0. site' = site /\ TypeOK /\ Quota[t] \in Nat
  BY DEF Next, BaseInv
<1>1. CASE World
  <2>1. UNCHANGED procVars
    BY <1>1 DEF World, Submit, UpstreamEnds, TimePasses
  <2>2. CASE Submit(t)
    <3>1. /\ status[t] = "absent" /\ status'[t] = "charged"
          /\ walletNet'[t] = Quota[t] /\ tokenNet'[t] = Quota[t]
      BY <1>0, <2>2 DEF Submit, TypeOK
    <3>2. Idle(t)' /\ t \notin Unfinished /\ t \notin Unfinished'
      BY <2>1, <3>1 DEF SunoInv, Idle, Adjusts, Adjusting, procVars, Unfinished, Running
    <3>3. \A p \in Poller : SunoHand(p, t)'
      BY <2>1, <3>2 DEF SunoInv, SunoHand, InHand, Adjusting, procVars
    <3> QED
      BY <3>1, <3>2, <3>3 DEF SunoInv, Costs, Running, Terminal
  <2>3. CASE ~Submit(t)
    BY <1>0, <1>1, <2>1, <2>3, WorldSame, SunoSame DEF SameHand, procVars
  <2> QED
    BY <2>2, <2>3
<1>2. ASSUME NEW u \in Task, InsertTask(u) PROVE SunoInv(t)'
  <2>1. UNCHANGED procVars /\ UNCHANGED <<worldVars, moneyVars>>
    BY <1>2 DEF InsertTask
  <2>2. CASE u = t
    <3>1. status[t] = "charged" /\ status'[t] = "NOT_START" /\ ~full'[t]
      BY <1>0, <1>2, <2>2 DEF InsertTask, Write, TypeOK
    <3>2. Idle(t)' /\ Costs(t, Quota[t])'
      BY <2>1, <3>1 DEF SunoInv, Idle, Adjusts, Adjusting, procVars, Costs, moneyVars
    <3>3. t \notin Unfinished
      BY <3>1 DEF Unfinished, Running
    <3>4. \A p \in Poller : ~InHand(p, t)' /\ t \notin todo'[p]
      BY <2>1, <3>3 DEF SunoInv, SunoHand, InHand, Adjusting, procVars
    <3>5. \A p \in Poller : SunoHand(p, t)'
      BY <3>2, <3>4 DEF SunoHand, Idle
    <3> QED
      BY <3>1, <3>2, <3>4, <3>5 DEF SunoInv, Running, Terminal
  <2>3. CASE u # t
    <3>1. SameTask(t)
      BY <1>0, <1>2, <2>1, <2>3 DEF SameTask, InsertTask, Write, TypeOK, worldVars, moneyVars
    <3> QED
      BY <2>1, <3>1, SunoSame DEF SameHand, procVars
  <2> QED
    BY <2>2, <2>3
<1>3. ASSUME NEW p \in Poller \cap site.procs, Poll(p) \/ Adjust(p) \/ Crash(p) PROVE SunoInv(t)'
  <2>1. Alone(p) /\ Alone(p)' /\ PollerInv(p)
    BY <1>0, AloneThere DEF BaseInv, ProcInv, HandInv, Proc
  <2>2. SunoOf(p, t)
    BY <2>1, SunoAlone
  <2>3. CASE ListTimedOut(p) \/ ListUnfinished(p) \/ EndRound(p)
    BY <1>0, <2>1, <2>2, <2>3, SunoLists, SunoAlone
  <2>4. CASE RefundSuno(p) \/ SaveSuno(p)
    BY <1>0, <2>1, <2>2, <2>4, SunoRefund, SunoSave, SunoAlone
  <2>5. ASSUME NEW u \in Task, SweepTask(p, u) \/ FetchTask(p, u) \/ FetchFails(p, u)
        PROVE  SunoInv(t)'
    BY <1>0, <2>1, <2>2, <2>5, SunoSweep, SunoFetch, SunoLists, SunoAlone
  <2>6. ASSUME NEW c \in Channel, BulkFail(p, c) PROVE SunoInv(t)'
    BY <1>0, <2>1, <2>2, <2>6, SunoBulk, SunoAlone
  <2>7. CASE Adjust(p)
    BY <1>0, <2>1, <2>2, <2>7, SunoAdjust, SunoAlone
  <2>8. CASE ApplyVideo(p)
    <3>0. p \in Proc /\ pc[p] = "apply" /\ cur[p] # t /\ UNCHANGED <<todo, cur>>
      BY <2>1, <2>8 DEF ApplyVideo, PollerInv, Proc
    <3>1. SameTask(t) /\ SameWork(t)
      BY <1>0, <2>8, <3>0, PollSame
    <3>2. ~InHand(p, t) /\ ~InHand(p, t)'
      BY <3>0 DEF InHand
    <3>3. SunoOf(p, t)'
      BY <2>2, <3>0, <3>1, <3>2, SunoOther DEF SunoOf, SunoHand
    <3> QED
      BY <2>1, <3>3, SunoAlone
  <2> QED
    BY <1>3, <2>3, <2>4, <2>5, <2>6, <2>7, <2>8 DEF Poll, Crash
<1>4. ASSUME NEW f \in Fetcher, Fetch(f) PROVE SunoInv(t)'
  <2>1. SameTask(t)
    BY <1>0, <1>4, FetcherSame
  <2>2. \A p \in Poller : SameHand(p)
    BY <1>4, OthersSame DEF Proc
  <2> QED
    BY <2>1, <2>2, SunoSame
<1> QED
  BY <1>1, <1>2, <1>3, <1>4 DEF Next

-----------------------------------------------------------------------------
(* All tasks of a site.                                                    *)

TaskInv(t) ==
    /\ t \notin site.tasks => Costs(t, 0)
    /\ t \in site.tasks => /\ Platform[t] = "video" => VideoInv(t)
                           /\ Platform[t] = "suno" => SunoInv(t)
                           /\ Platform[t] = "realtime" => FreeInv(t)

BillInv == \A t \in Task : TaskInv(t)

(* What a site's tasks may rely on.                                        *)
LEMMA SoundHere ==
    ASSUME SoundSites, BaseInv, NEW t \in Task, t \in site.tasks
    PROVE  /\ Platform[t] \in TaskPlatform /\ Quota[t] \in Nat
           /\ Platform[t] = "suno" =>
                 ~MayFail /\ ~MayCrash /\ \A p, q \in Poller \cap site.procs : p = q
           /\ Platform[t] = "realtime" => Quota[t] = 0 /\ Actual \subseteq {0}
<1>1. site \in Site
  BY DEF BaseInv, TypeOK
<1>2. SoundTask(site, t)
  BY <1>1 DEF SoundSites
<1> QED
  BY <1>1, <1>2, TaskBillingAssumption DEF SoundTask, MayFail, MayCrash, Actual

LEMMA InitBill == ASSUME SoundSites, Init PROVE BillInv
<1> SUFFICES ASSUME NEW t \in Task PROVE TaskInv(t)
  BY DEF BillInv
<1>1. Costs(t, 0) /\ Idle(t) /\ status[t] = "absent" /\ t \notin Unfinished
  BY DEF Init, Costs, Idle, Adjusts, Adjusting, Unfinished, Running, Proc
<1>2. \A p \in Poller : SunoHand(p, t)
  BY <1>1 DEF Init, SunoHand, InHand, Adjusting, Proc
<1> QED
  BY <1>1, <1>2 DEF TaskInv, VideoInv, SunoInv, FreeInv, Running, Terminal

LEMMA BillNext ==
    ASSUME SoundSites, BaseInv, BaseInv', BillInv, [Next]_vars PROVE BillInv'
<1> SUFFICES ASSUME NEW t \in Task PROVE TaskInv(t)'
  BY DEF BillInv
<1>0. TaskInv(t) /\ TypeOK
  BY DEF BillInv, BaseInv
<1>1. CASE UNCHANGED vars
  <2>1. SameTask(t) /\ \A p \in Poller : SameHand(p)
    BY <1>1 DEF vars, rowVars, worldVars, moneyVars, procVars, SameTask, SameHand
  <2>2. SameWork(t)
    BY <2>1 DEF SameWork, SameHand, Adjusts, Adjusting
  <2>3. FreeInv(t) => FreeInv(t)'
    BY <2>1, <2>2 DEF FreeInv, Idle, Costs, SameTask, SameWork
  <2> QED
    BY <1>0, <2>1, <2>2, <2>3, VideoSame, SunoSame DEF TaskInv, Costs, SameTask
<1>2. CASE Next /\ t \in site.tasks
  <2>1. site' = site
    BY <1>2 DEF Next
  <2> QED
    BY <1>0, <1>2, <2>1, SoundHere, VideoStep, SunoStep, FreeStep DEF TaskInv
<1>3. CASE Next /\ t \notin site.tasks
  <2>1. site' = site
    BY <1>3 DEF Next
  <2>2. \A p \in Proc : cur[p] # t
    BY <1>3 DEF BaseInv, ProcInv, HandInv
  <2>3. walletNet'[t] = walletNet[t] /\ tokenNet'[t] = tokenNet[t]
    <3>1. CASE World
      BY <1>0, <1>3, <3>1
         DEF World, Submit, UpstreamEnds, TimePasses, moneyVars, TypeOK
    <3>2. ASSUME NEW p \in Poller, Poll(p) PROVE UNCHANGED moneyVars
      BY <3>2 DEF Poll, ListTimedOut, ListUnfinished, ApplyVideo, RefundSuno, SaveSuno, EndRound,
                  SweepTask, FetchTask, FetchFails, BulkFail
    <3>3. ASSUME NEW p \in Poller, Adjust(p) \/ Crash(p)
          PROVE  walletNet'[t] = walletNet[t] /\ tokenNet'[t] = tokenNet[t]
      BY <1>0, <2>2, <3>3 DEF Adjust, AdjustFunding, AdjustToken, Crash, TypeOK, Proc
    <3>4. ASSUME NEW f \in Fetcher, Fetch(f) PROVE UNCHANGED moneyVars
      BY <3>4 DEF Fetch, ReadTask, ApplyRealtime
    <3>5. ASSUME NEW u \in Task, InsertTask(u) PROVE UNCHANGED moneyVars
      BY <3>5 DEF InsertTask
    <3> QED
      BY <1>3, <3>1, <3>2, <3>3, <3>4, <3>5 DEF Next, moneyVars
  <2> QED
    BY <1>0, <1>3, <2>1, <2>3 DEF TaskInv, Costs
<1> QED
  BY <1>1, <1>2, <1>3

LEMMA AlwaysBilled == ASSUME SoundSites PROVE Spec => [](BaseInv /\ BillInv)
<1>1. Init => BaseInv /\ BillInv
  BY InitBase, InitBill
<1>2. BaseInv /\ BillInv /\ [Next]_vars => (BaseInv /\ BillInv)'
  BY BaseNext, BillNext
<1> QED
  BY <1>1, <1>2, PTL DEF Spec

-----------------------------------------------------------------------------
LEMMA EndingPaid ==
    ASSUME NEW t \in Task, Quota[t] \in Nat, TypeOK, Ending(t)
    PROVE  walletNet[t] >= 0 /\ tokenNet[t] >= 0
<1>1. CASE Idle(t)
  BY <1>1 DEF Ending
<1>2. ASSUME NEW p \in Poller, Adjusts(p, t) PROVE walletNet[t] >= 0 /\ tokenNet[t] >= 0
  <2>1. owed[p] \in Int
    BY DEF TypeOK, Proc
  <2> QED
    BY <1>2, <2>1 DEF Ending
<1> QED
  BY <1>1, <1>2 DEF Idle

LEMMA NotOverRefunded == ASSUME SoundSites, BaseInv, BillInv PROVE NeverOverRefunded
<1> SUFFICES ASSUME NEW t \in Task PROVE walletNet[t] >= 0 /\ tokenNet[t] >= 0
  BY DEF NeverOverRefunded
<1>0. TaskInv(t) /\ TypeOK /\ status[t] \in Status
  BY DEF BillInv, BaseInv, TypeOK
<1>1. CASE t \notin site.tasks
  BY <1>0, <1>1 DEF TaskInv, Costs
<1>2. CASE t \in site.tasks /\ Platform[t] = "video"
  BY <1>0, <1>2, SoundHere, EndingPaid DEF TaskInv, VideoInv, Costs, Status
<1>3. CASE t \in site.tasks /\ Platform[t] = "suno"
  <2>0. SunoInv(t) /\ Quota[t] \in Nat
    BY <1>0, <1>3, SoundHere DEF TaskInv
  <2>1. CASE status[t] \in {"absent", "charged"} \/ (status[t] \in Running /\ full[t])
    BY <2>0, <2>1 DEF SunoInv, Costs
  <2>2. CASE status[t] \in Terminal
    BY <1>0, <2>0, <2>2, EndingPaid DEF SunoInv
  <2>3. CASE t \in Unfinished /\ \A p \in Poller : ~InHand(p, t)
    BY <2>0, <2>3 DEF SunoInv, Costs
  <2>4. ASSUME NEW p \in Poller, InHand(p, t) PROVE walletNet[t] >= 0 /\ tokenNet[t] >= 0
    BY <2>0, <2>4 DEF SunoInv, SunoHand, InHand, Adjusting, Costs
  <2> QED
    BY <1>0, <2>0, <2>1, <2>2, <2>3, <2>4 DEF Status, Unfinished, SunoInv
<1>4. CASE t \in site.tasks /\ Platform[t] = "realtime"
  BY <1>0, <1>4 DEF TaskInv, FreeInv, Costs
<1> QED
  BY <1>1, <1>2, <1>3, <1>4, SoundHere DEF TaskPlatform

LEMMA BilledFinally == ASSUME SoundSites, BaseInv, BillInv PROVE FinalBill
<1> SUFFICES ASSUME NEW t \in Task, status[t] \in Terminal, ~Working(t), ~faulty[t],
                    t \notin dropped
             PROVE  Bill(t)
  BY DEF FinalBill, Bill, Costs
<1>0. TaskInv(t) /\ t \in site.tasks
  BY DEF BillInv, BaseInv, ProcInv, Terminal
<1>1. Idle(t)
  BY DEF Working, Idle, Adjusts, Adjusting
<1>2. CASE Platform[t] \in {"video", "suno"}
  BY <1>0, <1>1, <1>2 DEF TaskInv, VideoInv, SunoInv, Ending
<1>3. CASE Platform[t] = "realtime"
  BY <1>0, <1>3, SoundHere DEF TaskInv, FreeInv, Costs, Bill
<1> QED
  BY <1>0, <1>2, <1>3, SoundHere DEF TaskPlatform

LEMMA StaysFinal ==
    ASSUME SoundSites, BaseInv, BillInv, Next, NEW t \in Task,
           status[t] \in Terminal, Platform[t] # "realtime"
    PROVE  status'[t] = status[t] \/ (status'[t] = "FAILURE" /\ t \in dropped')
<1> USE TaskBillingAssumption
<1>0. TypeOK /\ TaskInv(t) /\ t \in site.tasks
  BY DEF BaseInv, BillInv, ProcInv, Terminal
<1>1. CASE World
  BY <1>0, <1>1 DEF World, Submit, UpstreamEnds, TimePasses, rowVars, TypeOK, Terminal
<1>2. ASSUME NEW u \in Task, InsertTask(u) PROVE status'[t] = status[t]
  BY <1>0, <1>2 DEF InsertTask, Write, TypeOK, Terminal
<1>3. ASSUME NEW p \in Poller, Poll(p)
      PROVE  status'[t] = status[t] \/ (status'[t] = "FAILURE" /\ t \in dropped')
  <2>0. PollerInv(p)
    BY DEF BaseInv, ProcInv, HandInv, Proc
  <2>1. CASE ListTimedOut(p) \/ ListUnfinished(p) \/ EndRound(p) \/ RefundSuno(p)
    BY <2>1 DEF ListTimedOut, ListUnfinished, EndRound, RefundSuno, rowVars
  <2>2. CASE ApplyVideo(p)
    BY <1>0, <2>0, <2>2 DEF ApplyVideo, Write, PollerInv, rowVars, TypeOK, Running, Terminal
  <2>3. CASE SaveSuno(p)
    <3>1. CASE cur[p] # t
      BY <1>0, <2>3, <3>1 DEF SaveSuno, Write, rowVars, TypeOK
    <3>2. CASE cur[p] = t
      <4>1. Platform[t] = "suno" /\ InHand(p, t)
        BY <2>0, <2>3, <3>2 DEF SaveSuno, PollerInv, InHand
      <4>2. t \in Unfinished
        BY <1>0, <4>1 DEF TaskInv, SunoInv, SunoHand
      <4> QED
        BY <4>2 DEF Unfinished, Running, Terminal
    <3> QED
      BY <3>1, <3>2
  <2>4. ASSUME NEW u \in Task, FetchTask(p, u) \/ FetchFails(p, u) PROVE status'[t] = status[t]
    BY <2>4 DEF FetchTask, FetchFails, rowVars
  <2>5. ASSUME NEW u \in Task, SweepTask(p, u) PROVE status'[t] = status[t]
    BY <1>0, <2>0, <2>5 DEF SweepTask, Write, PollerInv, rowVars, TypeOK, Running, Terminal
  <2>6. ASSUME NEW c \in Channel, BulkFail(p, c)
        PROVE  status'[t] = status[t] \/ (status'[t] = "FAILURE" /\ t \in dropped')
    BY <2>6, BulkTask, Zenon
  <2> QED
    BY <1>3, <2>1, <2>2, <2>3, <2>4, <2>5, <2>6 DEF Poll
<1>4. ASSUME NEW p \in Poller, Adjust(p) \/ Crash(p) PROVE status'[t] = status[t]
  BY <1>4 DEF Adjust, AdjustFunding, AdjustToken, Crash, rowVars
<1>5. ASSUME NEW f \in Fetcher, Fetch(f) PROVE status'[t] = status[t]
  BY <1>5, FetcherSame DEF SameTask, Next
<1> QED
  BY <1>1, <1>2, <1>3, <1>4, <1>5 DEF Next

-----------------------------------------------------------------------------
(* No task is given back more than it cost, whatever the timeout sweep and *)
(* the polls of the nodes do at the same time, with failing statements,    *)
(* crashes and channels that are not found for videos.                     *)
THEOREM RefundedOnce == ASSUME SoundSites PROVE Spec => []NeverOverRefunded
<1>1. BaseInv /\ BillInv => NeverOverRefunded
  BY NotOverRefunded
<1> QED
  BY <1>1, AlwaysBilled, PTL

(* Once nobody adjusts it any more, a task that failed cost nothing and    *)
(* one that succeeded its quota or what its completion computed: unless an *)
(* adjustment failed half-way or CacheGetChannel failed and the poller     *)
(* gave the task up, which is never refunded.                              *)
THEOREM BillFollowsStatus == ASSUME SoundSites PROVE Spec => []FinalBill
<1>1. BaseInv /\ BillInv => FinalBill
  BY BilledFinally
<1> QED
  BY <1>1, AlwaysBilled, PTL

(* A failure written by updateVideoSingleTask, updateSunoTasks or the      *)
(* sweep stays for good; a success is overwritten only by the unguarded    *)
(* bulk update after a failed CacheGetChannel, and then by a failure.      *)
THEOREM FinalForGood == ASSUME SoundSites PROVE Spec => FinalStays
<1>1. BaseInv /\ BillInv /\ [Next]_vars =>
        [\A t \in Task :
            status[t] \in Terminal /\ Platform[t] # "realtime" =>
                \/ status'[t] = status[t]
                \/ status'[t] = "FAILURE" /\ t \in dropped']_vars
  BY StaysFinal
<1> QED
  BY <1>1, AlwaysBilled, PTL DEF Spec, FinalStays
=============================================================================
