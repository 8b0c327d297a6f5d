---------------------------- MODULE ChannelTest ----------------------------
(***************************************************************************)
(* The model test dialog of a channel (hooks/channels/useChannelTest and   *)
(* ModelTestModal): single tests, and a batch that tests all models a few  *)
(* at a time and can be stopped.  A batch is a loop of awaits: it can be   *)
(* stopped, the dialog closed, reopened and a second batch started while   *)
(* the first still waits for its answers.                                  *)
(***************************************************************************)
EXTENDS Naturals, Sequences, FiniteSets

CONSTANTS
    Models,        \* currentTestChannel.models, a sequence without repetition
    Limit,         \* concurrencyLimit, 5 in the code
    Loop,          \* bound: the batches a behaviour may start
    MaxTests       \* bound: single tests a behaviour may start

Model == {Models[i] : i \in DOMAIN Models}
Nobody == "single"

VARIABLES
    open,        \* showModelTestModal
    batching,    \* isBatchTesting
    stop,        \* shouldStopBatchTestingRef
    loops,       \* per batch: where it is and the index i of its wave
    tests,       \* tests whose answer is awaited: who waits, model, and the
                 \* isBatchTesting of the render the call came from
    testing,     \* testingModels, the spinners of the rows
    results,     \* the models with an entry in modelTestResults, good or bad
    singles,     \* single tests started
    stopped,     \* history: told to stop, and no batch started since
    overlapped   \* history: two batches ran at the same time

vars == <<open, batching, stop, loops, tests, testing, results, singles, stopped, overlapped>>

Pc == {"idle", "top", "wave", "pause", "summing", "ended"}
Live(l) == loops[l].pc \notin {"idle", "ended"}

TypeOK ==
    /\ {open, batching, stop, stopped, overlapped} \subseteq BOOLEAN
    /\ loops \in [Loop -> [pc : Pc, i : 1..(Len(Models) + Limit)]]
    /\ tests \subseteq [by : Loop \cup {Nobody}, model : Model, seen : BOOLEAN]
    /\ testing \subseteq Model /\ results \subseteq Model
    /\ singles \in 0..MaxTests

Init ==
    /\ open = TRUE /\ batching = FALSE /\ stop = FALSE
    /\ loops = [l \in Loop |-> [pc |-> "idle", i |-> 1]]
    /\ tests = {} /\ testing = {} /\ singles = 0
    /\ results = {}
    /\ stopped = FALSE /\ overlapped = FALSE

Waits(l) == \E x \in tests : x.by = l
Goto(l, pc) == loops' = [loops EXCEPT ![l].pc = pc]

(***************************************************************************)
(* testChannel: nothing is sent when the batch of the caller's own render  *)
(* was stopped.  A call of the batch comes from the render before          *)
(* setIsBatchTesting(true): its isBatchTesting is FALSE for ever.          *)
(***************************************************************************)
TestChannel(ms, by, seen) ==
    IF stop /\ seen
    THEN UNCHANGED <<tests, testing>>
    ELSE /\ tests' = tests \cup {[by |-> by, model |-> m, seen |-> seen] : m \in ms}
         /\ testing' = testing \cup ms

(* The test button of a row.                                               *)
TestOne(m) ==
    /\ open /\ singles < MaxTests /\ m \notin testing
    /\ singles' = singles + 1
    /\ TestChannel({m}, Nobody, batching)
    /\ UNCHANGED <<open, batching, stop, loops, results, stopped, overlapped>>

(* A plausible mistake: an error leaves the function before the spinner is *)
(* taken back.                                                             *)
TestAnswer_ErrorKeepsSpinner(x) ==
    /\ tests' = tests \ {x}
    /\ results' = results \cup {x.model}
    /\ testing' \in {testing, testing \ {x.model}}
    /\ UNCHANGED <<open, batching, stop, loops, singles, stopped, overlapped>>

(* The answer of a test: dropped when the caller sees its batch stopped;   *)
(* else a result, an error being a failure.  finally stops the spinner of  *)
(* the model.                                                              *)
TestAnswer(x) ==
    /\ tests' = tests \ {x}
    /\ testing' = testing \ {x.model}
    /\ results' = IF stop /\ x.seen THEN results ELSE results \cup {x.model}
    /\ UNCHANGED <<open, batching, stop, loops, singles, stopped, overlapped>>

(***************************************************************************)
(* batchTestModels.                                                        *)
(***************************************************************************)
BatchTestModels(l) ==
    /\ open /\ ~batching
    /\ loops[l].pc = "idle"
    /\ batching' = TRUE /\ stop' = FALSE /\ stopped' = FALSE
    /\ results' = {}
    /\ Goto(l, "top")
    /\ overlapped' = (overlapped \/ \E k \in Loop : Live(k))
    /\ UNCHANGED <<open, tests, testing, singles>>

Wave(i) == {Models[j] : j \in i..(IF i + Limit - 1 < Len(Models) THEN i + Limit - 1 ELSE Len(Models))}

(* A plausible mistake: the flag is only looked at after a wave.           *)
NextWave_Unchecked(l) ==
    /\ loops[l].pc = "top"
    /\ IF loops[l].i > Len(Models)
       THEN Goto(l, "summing") /\ UNCHANGED <<tests, testing>>
       ELSE Goto(l, "wave") /\ TestChannel(Wave(loops[l].i), l, FALSE)
    /\ UNCHANGED <<open, batching, stop, results, singles, stopped, overlapped>>

(* The head of the loop: the flag is looked at, then a wave is sent.       *)
NextWave(l) ==
    /\ loops[l].pc = "top"
    /\ IF stop
       THEN /\ Goto(l, "ended")
            /\ batching' = FALSE
            /\ UNCHANGED <<tests, testing>>
       ELSE IF loops[l].i > Len(Models)
       THEN Goto(l, "summing") /\ UNCHANGED <<batching, tests, testing>>
       ELSE /\ Goto(l, "wave")
            /\ TestChannel(Wave(loops[l].i), l, FALSE)
            /\ UNCHANGED batching
    /\ UNCHANGED <<open, stop, results, singles, stopped, overlapped>>

(* Plausible mistakes: every wave ends the batch for the dialog; the index *)
(* is not moved on.                                                        *)
WaveSettled_ClearsFlag(l) ==
    /\ loops[l].pc = "wave" /\ ~Waits(l)
    /\ batching' = FALSE
    /\ loops' = [loops EXCEPT ![l] = [pc |-> "top", i |-> loops[l].i + Limit]]
    /\ UNCHANGED <<open, stop, tests, testing, results, singles, stopped, overlapped>>

WaveSettled_SameWave(l) ==
    /\ loops[l].pc = "wave" /\ ~Waits(l)
    /\ IF stop THEN Goto(l, "ended") /\ batching' = FALSE
               ELSE Goto(l, "pause") /\ UNCHANGED batching
    /\ UNCHANGED <<open, stop, tests, testing, results, singles, stopped, overlapped>>

(* Promise.allSettled, the second look at the flag, and the pause of       *)
(* 100 ms when models are left.                                            *)
WaveSettled(l) ==
    /\ loops[l].pc = "wave" /\ ~Waits(l)
    /\ IF stop
       THEN Goto(l, "ended") /\ batching' = FALSE
       ELSE /\ loops' = [loops EXCEPT ![l] =
                  [pc |-> IF loops[l].i + Limit <= Len(Models) THEN "pause" ELSE "top",
                   i |-> loops[l].i + Limit]]
            /\ UNCHANGED batching
    /\ UNCHANGED <<open, stop, tests, testing, results, singles, stopped, overlapped>>

PauseOver(l) ==
    /\ loops[l].pc = "pause"
    /\ Goto(l, "top")
    /\ UNCHANGED <<open, batching, stop, tests, testing, results, singles, stopped, overlapped>>

(* After 300 ms the results are counted and finally clears the flag.       *)
Summary(l) ==
    /\ loops[l].pc = "summing"
    /\ Goto(l, "ended")
    /\ batching' = FALSE
    /\ UNCHANGED <<open, stop, tests, testing, results, singles, stopped, overlapped>>

(* stopBatchTesting.                                                       *)
StopBatchTesting ==
    /\ open /\ batching
    /\ stop' = TRUE /\ batching' = FALSE /\ testing' = {} /\ stopped' = TRUE
    /\ UNCHANGED <<open, loops, tests, results, singles, overlapped>>

(* handleCloseModal.  While a batch runs it is the stop button too.        *)
HandleCloseModal ==
    /\ open
    /\ open' = FALSE
    /\ stop' = (stop \/ batching)
    /\ stopped' = (stopped \/ batching)
    /\ batching' = FALSE /\ testing' = {}
    /\ UNCHANGED <<loops, tests, results, singles, overlapped>>

(* The dialog is opened again for the channel.                             *)
Reopen ==
    /\ ~open
    /\ open' = TRUE
    /\ UNCHANGED <<batching, stop, loops, tests, testing, results, singles, stopped, overlapped>>

ClearTestResults ==
    /\ open /\ results # {}
    /\ results' = {}
    /\ UNCHANGED <<open, batching, stop, loops, tests, testing, singles, stopped, overlapped>>

Batch(l) == NextWave(l) \/ WaveSettled(l) \/ PauseOver(l) \/ Summary(l)

Next ==
    \/ \E m \in Model : TestOne(m)
    \/ \E x \in tests : TestAnswer(x)
    \/ \E l \in Loop : BatchTestModels(l)
    \/ \E l \in Loop : NextWave(l)
    \/ \E l \in Loop : WaveSettled(l)
    \/ \E l \in Loop : PauseOver(l)
    \/ \E l \in Loop : Summary(l)
    \/ StopBatchTesting \/ HandleCloseModal \/ Reopen \/ ClearTestResults

Spec == Init /\ [][Next]_vars

(***************************************************************************)
(* Properties.                                                             *)
(***************************************************************************)

(* Once the user has stopped, no batch sends another test until a new one  *)
(* is started, whether the stop comes while a wave is under way, in the    *)
(* pause between two waves or when the dialog is closed.                   *)
NoWaveAfterStop ==
    [][stopped /\ stopped' => {x \in tests' : x.by # Nobody} \subseteq tests]_vars

(* No row keeps a spinner for a test that is over, whoever else tested the *)
(* same model, stopped or closed the dialog meanwhile.                     *)
RowSpinners == \A m \in testing : \E x \in tests : x.model = m

(* A batch that was not told to stop can be stopped: isBatchTesting, which *)
(* offers the stop button and stops on close, stays set until its end.     *)
(* (Not when an earlier batch was stopped and still waits: its finally     *)
(* clears the flag of the later one.)                                      *)
StopOffered ==
    ~overlapped => \A l \in Loop : Live(l) => batching \/ stopped

(* Every batch ends: batchTestModels never waits for ever, stopped or not, *)
(* also when a second batch was started beside it.                         *)
BatchEnds == \A l \in Loop : []<>~Live(l)
=============================================================================
