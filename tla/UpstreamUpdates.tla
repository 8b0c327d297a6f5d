-------------------------- MODULE UpstreamUpdates --------------------------
(***************************************************************************)
(* The models a channel offers against the models its provider lists       *)
(* (controller/channel_upstream_update.go) and the dialog that handles the *)
(* differences (useChannelUpstreamUpdates, ChannelUpstreamUpdateModal).    *)
(* A check writes the differences into the channel's settings; the user    *)
(* adds, removes or ignores them.  Every operation reads a row, may wait   *)
(* for the provider, and writes the settings it read back as a whole.      *)
(***************************************************************************)
EXTENDS Naturals, Sequences, FiniteSets

CONSTANTS
    ChannelOrder,  \* the enabled channels by id
    FirstRows,     \* their rows at first
    Lists,         \* what the provider of each may list
    Aliases,       \* per channel: the redirect sources of its model mapping
    Targets,       \* per channel: the redirect targets
    Edits,         \* what the user may write as the models in the edit dialog
    MaxOps         \* bound: operations and new lists of a provider

Channel == {ChannelOrder[i] : i \in DOMAIN ChannelOrder}
Kind == {"apply", "applyAll", "detect", "detectAll", "task", "edit"}
Asked == {"apply", "applyAll", "detect", "detectAll"}   \* by the hook
None == "none"

VARIABLES
    rows,       \* per channel: models, and of the settings detected, removed, ignored, check, auto
    abilities,  \* per channel: the models it is routed for
    upstream,   \* per channel: what the provider lists
    ops,        \* per kind: the operation in flight
    dialog,     \* the dialog: its channel, lists, selection, partialSubmitConfirmed
    flight,     \* the in-flight refs of the hook that are set
    listed,     \* the rows as the table shows them
    kept,       \* history, per channel: what the user ignored
    wanted,     \* history, per channel: what the user added
    blind,      \* history: channels last checked without their model mapping
    crossed,    \* history: channels written from a row that had changed since it was read
    behind,     \* history: channels whose last change of the routes failed
    begun, moves

server == <<rows, abilities, kept, wanted, blind, crossed, behind>>
client == <<dialog, flight, listed>>
vars == <<server, upstream, ops, client, begun, moves>>

Idle == [st |-> "none", todo |-> <<>>, base |-> [c \in Channel |-> FirstRows[c]],
         found |-> None, add |-> {}, rem |-> {}, ign |-> {}]
Closed == [open |-> FALSE, ch |-> ChannelOrder[1], add |-> {}, rem |-> {}, selAdd |-> {},
           selRem |-> {}, sure |-> FALSE]

Init ==
    /\ rows = FirstRows /\ listed = FirstRows
    /\ abilities = [c \in Channel |-> FirstRows[c].models]
    /\ upstream \in [Channel -> UNION {Lists[c] : c \in Channel}]
    /\ \A c \in Channel : upstream[c] \in Lists[c]
    /\ ops = [k \in Kind |-> Idle] /\ dialog = Closed /\ flight = {}
    /\ kept = [c \in Channel |-> {}] /\ wanted = [c \in Channel |-> {}]
    /\ blind = {} /\ crossed = {} /\ behind = {} /\ begun = 0 /\ moves = 0

Model == UNION {l \cup FirstRows[c].models : c \in Channel, l \in UNION {Lists[d] : d \in Channel}}
         \cup UNION {Targets[c] : c \in Channel}

TypeOK ==
    /\ \A c \in Channel : \A f \in {"models", "detected", "removed", "ignored"} :
         rows[c][f] \subseteq Model
    /\ abilities \in [Channel -> SUBSET Model]
    /\ \A k \in Kind : ops[k].st \in {"none", "sent", "run", "write", "reread", "abilities", "answer",
                                      "refused", "refresh"}
    /\ flight \subseteq Asked /\ dialog.ch \in Channel
    /\ crossed \cup behind \subseteq Channel /\ begun \in 0..MaxOps /\ moves \in 0..MaxOps

(***************************************************************************)
(* What a check finds.                                                     *)
(***************************************************************************)

(* A plausible mistake: ignored models are offered again.                  *)
Pending_Ignored(r, list, sources, targets) ==
    [add |-> list \ (r.models \cup targets), rem |-> r.models \ (list \cup sources)]

(* collectPendingUpstreamModelChangesFromModels.                           *)
Pending(r, list, sources, targets) ==
    [add |-> list \ (r.models \cup targets \cup r.ignored),
     rem |-> r.models \ (list \cup sources)]

(* The queries of the periodic task and of the operations on all channels  *)
(* do not select the column model_mapping, so those see no redirects.      *)
SeesMapping(k) == k \in {"detect", "apply", "edit"}

(***************************************************************************)
(* The dialog and the hook.                                                *)
(***************************************************************************)

(* Something may still be asked.  The user leaves the dialog as it is once *)
(* nothing more can be sent from it: what it shows has no effect then.     *)
More == begun + moves < MaxOps

(* One operation of a kind at a time: the bound is that nobody asks again  *)
(* while the server still works on a request that the console has lost.    *)
Send(k, o) ==
    /\ More /\ ops[k].st = "none" /\ begun' = begun + 1
    /\ ops' = [ops EXCEPT ![k] = [o EXCEPT !.st = "sent"]]

OpenUpstreamUpdateModal(c) ==
    /\ More /\ ~dialog.open /\ listed[c].check
    /\ listed[c].detected \cup listed[c].removed # {}
    /\ dialog' = [Closed EXCEPT !.open = TRUE, !.ch = c, !.add = listed[c].detected,
                                !.rem = listed[c].removed]
    /\ UNCHANGED <<server, upstream, ops, flight, listed, begun, moves>>

(* The check boxes; "all" (handleToggleAllCurrent) is one after the other. *)
Flip(m, s) == IF m \in s THEN s \ {m} ELSE s \cup {m}

Toggle(m) ==
    /\ More /\ dialog.open
    /\ \/ m \in dialog.add /\ dialog' = [dialog EXCEPT !.selAdd = Flip(m, @)]
       \/ m \in dialog.rem /\ dialog' = [dialog EXCEPT !.selRem = Flip(m, @)]
    /\ UNCHANGED <<server, upstream, ops, flight, listed, begun, moves>>

CloseUpstreamUpdateModal ==
    /\ More /\ dialog.open /\ dialog' = Closed
    /\ UNCHANGED <<server, upstream, ops, flight, listed, begun, moves>>

(* handleSubmit and applyUpstreamUpdates.  When only one of two lists was  *)
(* handled the user is asked first, once per opening; what is not selected *)
(* of the new models is ignored from now on.                               *)
HandleSubmit ==
    LET partial == /\ dialog.add # {} /\ dialog.rem # {}
                   /\ dialog.selAdd \cup dialog.selRem # {}
                   /\ dialog.selAdd = {} \/ dialog.selRem = {}
    IN  /\ dialog.open /\ "apply" \notin flight
        /\ flight' = flight \cup {"apply"}
        /\ dialog' = [dialog EXCEPT !.sure = @ \/ partial]
        /\ Send("apply", [Idle EXCEPT !.todo = <<dialog.ch>>, !.add = dialog.selAdd,
                                      !.rem = dialog.selRem,
                                      !.ign = dialog.add \ dialog.selAdd])
        /\ UNCHANGED <<server, upstream, listed, moves>>

(* The other operations of the hook, each one at a time.                   *)
Ask(k, todo) ==
    /\ ~dialog.open /\ k \notin flight /\ flight' = flight \cup {k}
    /\ Send(k, [Idle EXCEPT !.todo = todo])
    /\ UNCHANGED <<server, upstream, dialog, listed, moves>>

DetectChannelUpstreamUpdates(c) == Ask("detect", <<c>>)
ApplyAllUpstreamUpdates == Ask("applyAll", ChannelOrder)
DetectAllUpstreamUpdates == Ask("detectAll", ChannelOrder)

(* The answer.  After a success the dialog is closed, whatever it shows    *)
(* now, and the table is loaded again before the operation is over.        *)
Answered(k) ==
    /\ k \in Asked
    /\ \/ /\ ops[k].st = "answer"
          /\ ops' = [ops EXCEPT ![k].st = "refresh"]
          /\ dialog' = IF k = "apply" THEN Closed ELSE dialog
          /\ UNCHANGED flight
       \/ /\ ops[k].st = "refused"
          /\ ops' = [ops EXCEPT ![k] = Idle] /\ flight' = flight \ {k}
          /\ UNCHANGED dialog
    /\ UNCHANGED <<server, upstream, listed, begun, moves>>

(* A plausible mistake: the flag is left set when the request fails.       *)
RequestFails_Stuck(k) ==
    /\ k \in flight /\ ops[k].st \in {"sent", "answer", "refused", "refresh"}
    /\ ops' = [ops EXCEPT ![k] = Idle]
    /\ UNCHANGED <<server, upstream, client, begun, moves>>

(* The request, its answer or the refresh is lost: the catch block, and    *)
(* the flag is taken back.  What the server has received goes on.          *)
RequestFails(k) ==
    /\ k \in flight /\ flight' = flight \ {k}
    /\ \/ /\ ops[k].st \in {"sent", "answer", "refused", "refresh"}
          /\ ops' = [ops EXCEPT ![k] = Idle]
       \/ ops[k].st \in {"sent", "run", "write", "abilities"} /\ UNCHANGED ops
    /\ UNCHANGED <<server, upstream, dialog, listed, begun, moves>>

Refreshed(k) ==
    /\ ops[k].st = "refresh"
    /\ ops' = [ops EXCEPT ![k] = Idle] /\ flight' = flight \ {k}
    /\ listed' = rows
    /\ UNCHANGED <<server, upstream, dialog, begun, moves>>

(***************************************************************************)
(* The server.                                                             *)
(***************************************************************************)

(* runChannelUpstreamModelUpdateTaskOnce, one run at a time.               *)
TaskStarts ==
    /\ ops["task"].st = "none" /\ Send("task", [Idle EXCEPT !.todo = ChannelOrder])
    /\ UNCHANGED <<server, upstream, client, moves>>

(* The edit dialog of a channel loads it.                                  *)
EditStarts(c) ==
    /\ ops["edit"].st = "none" /\ ~dialog.open
    /\ Send("edit", [Idle EXCEPT !.todo = <<c>>])
    /\ UNCHANGED <<server, upstream, client, moves>>

(* The rows are read: one, or all in one query.                            *)
ReadRows(k) ==
    /\ ops[k].st = "sent"
    /\ ops' = [ops EXCEPT ![k].st = "run",
                          ![k].base = [c \in Channel |-> IF \E i \in DOMAIN ops[k].todo :
                                                             ops[k].todo[i] = c
                                                         THEN rows[c] ELSE @[c]]]
    /\ UNCHANGED <<server, upstream, client, begun, moves>>

After(o) == [o EXCEPT !.st = "run", !.todo = Tail(@), !.found = None,
                      !.base[Head(o.todo)] = FirstRows[Head(o.todo)]]
Row(k) == ops[k].base[Head(ops[k].todo)]

(* Operations on all channels pass over a channel without the check, the   *)
(* task over one that was checked a short time ago, "apply all" over one   *)
(* with nothing to do.                                                     *)
Skip(k) ==
    /\ ops[k].st = "run" /\ ops[k].todo # <<>>
    /\ \/ k \in {"applyAll", "detectAll", "task"} /\ ~Row(k).check
       \/ k = "task"
       \/ k = "applyAll" /\ Row(k).detected \cup Row(k).removed = {}
    /\ ops' = [ops EXCEPT ![k] = After(@)]
    /\ UNCHANGED <<server, upstream, client, begun, moves>>

(* The provider answers (fetchChannelUpstreamModelIDs).                    *)
FetchUpstreamModelIDs(k) ==
    /\ k \in {"detect", "detectAll", "task"}
    /\ ops[k].st = "run" /\ ops[k].todo # <<>>
    /\ k # "detect" => Row(k).check
    /\ LET c == Head(ops[k].todo)
           seen(s) == IF SeesMapping(k) THEN s ELSE {}
       IN  ops' = [ops EXCEPT ![k].st = "write",
                              ![k].found = Pending(Row(k), upstream[c], seen(Aliases[c]),
                                                   seen(Targets[c]))]
    /\ UNCHANGED <<server, upstream, client, begun, moves>>

(* A write of the settings as a whole, with or without the models.         *)
Write(k, c, r, withModels) ==
    /\ rows' = [rows EXCEPT ![c] = [r EXCEPT !.models = IF withModels THEN @
                                                         ELSE rows[c].models]]
    /\ crossed' = IF rows[c] = Row(k) THEN crossed ELSE crossed \cup {c}

(* The provider fails: the time of the check is written, with the settings *)
(* that were read; a single check is refused, the others go on.            *)
FetchFails(k) ==
    /\ k \in {"detect", "detectAll", "task"}
    /\ ops[k].st = "run" /\ ops[k].todo # <<>>
    /\ k # "detect" => Row(k).check
    /\ Write(k, Head(ops[k].todo), Row(k), FALSE)
    /\ ops' = [ops EXCEPT ![k] = IF k = "detect" THEN [@ EXCEPT !.st = "refused"]
                                 ELSE After(@)]
    /\ UNCHANGED <<abilities, kept, wanted, blind, behind, upstream, client, begun, moves>>

(* The rest of checkAndPersistChannelUpstreamModelUpdates: only the task   *)
(* adds models by itself.                                                  *)
Persist(k) ==
    LET c == Head(ops[k].todo)
        found == ops[k].found
        auto == k = "task" /\ Row(k).auto /\ found.add # {}
        r == [Row(k) EXCEPT !.models = IF auto THEN @ \cup found.add ELSE @,
                            !.detected = IF auto THEN {} ELSE found.add,
                            !.removed = found.rem]
    IN  /\ k \in {"detect", "detectAll", "task"} /\ ops[k].st = "write"
        /\ Write(k, c, r, auto)
        /\ ops' = [ops EXCEPT ![k] = IF auto
                                     THEN [@ EXCEPT !.st = "abilities", !.base[c] = r]
                                     ELSE After(@)]
        /\ blind' = IF SeesMapping(k) THEN blind \ {c} ELSE blind \cup {c}
        /\ wanted' = [wanted EXCEPT ![c] = @ \cup (IF auto THEN found.add ELSE {})]
        /\ UNCHANGED <<abilities, kept, behind, upstream, client, begun, moves>>

(* A plausible mistake: what was not selected is dropped from the list     *)
(* without looking at what the dialog had shown.                           *)
ApplyUpdates_DropsAll(k) ==
    LET c == Head(ops[k].todo)
        add == ops[k].add \cap Row(k).detected
        rem == ops[k].rem \cap Row(k).removed
        r == [Row(k) EXCEPT !.models = (@ \cup add) \ rem, !.detected = {}, !.removed = @ \ rem,
                            !.ignored = @ \cup (Row(k).detected \ add)]
    IN  /\ k = "apply" /\ ops[k].st = "run" /\ ops[k].todo # <<>>
        /\ Write(k, c, r, TRUE)
        /\ ops' = [ops EXCEPT ![k] = [@ EXCEPT !.st = "abilities", !.base[c] = r]]
        /\ UNCHANGED <<abilities, kept, wanted, blind, behind, upstream, client, begun, moves>>

(* applyChannelUpstreamModelUpdates: only what is still pending counts.    *)
ApplyUpdates(k) ==
    LET c == Head(ops[k].todo)
        all == k = "applyAll"
        add == IF all THEN Row(k).detected ELSE ops[k].add \cap Row(k).detected
        ign == ops[k].ign \cap Row(k).detected
        rem == (IF all THEN Row(k).removed ELSE ops[k].rem \cap Row(k).removed) \ add
        next == (Row(k).models \cup add) \ rem
        differs == next # Row(k).models
        r == [Row(k) EXCEPT !.models = next, !.detected = @ \ (add \cup ign),
                            !.removed = @ \ rem, !.ignored = (@ \cup ign) \ add]
    IN  /\ k \in {"apply", "applyAll"} /\ ops[k].st = "run" /\ ops[k].todo # <<>>
        /\ all => Row(k).check /\ Row(k).detected \cup Row(k).removed # {}
        /\ Write(k, c, r, differs)
        /\ ops' = [ops EXCEPT ![k] = IF differs
                                     THEN [@ EXCEPT !.st = "abilities", !.base[c] = r]
                                     ELSE After(@)]
        /\ kept' = [kept EXCEPT ![c] = (@ \cup ign) \ next]
        /\ wanted' = [wanted EXCEPT ![c] = (@ \cup add) \ rem]
        /\ UNCHANGED <<abilities, blind, behind, upstream, client, begun, moves>>

(* The edit dialog saves: other models, and the settings it had loaded.    *)
EditSaves(ms) ==
    LET c == Head(ops["edit"].todo)
        r == [Row("edit") EXCEPT !.models = ms]
    IN  /\ ops["edit"].st = "run" /\ ops["edit"].todo # <<>>
        /\ Write("edit", c, r, TRUE)
        /\ ops' = [ops EXCEPT !["edit"].st = "reread"]
        /\ kept' = [kept EXCEPT ![c] = @ \ ms] /\ wanted' = [wanted EXCEPT ![c] = {}]
        /\ UNCHANGED <<abilities, blind, behind, upstream, client, begun, moves>>

(* Channel.Update reads the row again before it changes the routes.        *)
Reread ==
    /\ ops["edit"].st = "reread"
    /\ LET c == Head(ops["edit"].todo)
       IN  ops' = [ops EXCEPT !["edit"].st = "abilities", !["edit"].base[c] = rows[c]]
    /\ UNCHANGED <<server, upstream, client, begun, moves>>

(* A plausible mistake: the routes are those of the row as it was read.    *)
UpdateAbilities_Forgotten(k) ==
    /\ ops[k].st = "abilities"
    /\ ops' = [ops EXCEPT ![k] = After(@)]
    /\ UNCHANGED <<server, upstream, client, begun, moves>>

(* The routes of the channel follow, in a transaction of their own.        *)
UpdateAbilities(k) ==
    LET c == Head(ops[k].todo)
    IN  /\ ops[k].st = "abilities"
        /\ abilities' = [abilities EXCEPT ![c] = Row(k).models]
        /\ crossed' = IF rows[c].models = Row(k).models THEN crossed ELSE crossed \cup {c}
        /\ behind' = behind \ {c}
        /\ ops' = [ops EXCEPT ![k] = After(@)]
        /\ UNCHANGED <<rows, kept, wanted, blind, upstream, client, begun, moves>>

(* The write of the row or the transaction of the routes fails: nothing of *)
(* it is done, a single operation is refused, the others go on with the    *)
(* next channel.  The models that were written before the routes stay, and *)
(* no later step tries the routes again.                                   *)
StatementFails(k) ==
    /\ \/ ops[k].st \in {"write", "abilities"}
       \/ ops[k].st = "run" /\ ops[k].todo # <<>> /\ k \in {"apply", "applyAll", "edit"}
    /\ ops' = [ops EXCEPT ![k] = IF k \in {"apply", "detect"} THEN [@ EXCEPT !.st = "refused"]
                                 ELSE After(@)]
    /\ behind' = IF ops[k].st = "abilities" THEN behind \cup {Head(ops[k].todo)} ELSE behind
    /\ UNCHANGED <<rows, abilities, kept, wanted, blind, crossed, upstream, client, begun, moves>>

Finish(k) ==
    /\ ops[k].st = "run" /\ ops[k].todo = <<>>
    /\ ops' = [ops EXCEPT ![k] = IF k \in flight THEN [@ EXCEPT !.st = "answer"] ELSE Idle]
    /\ UNCHANGED <<server, upstream, client, begun, moves>>

(* The provider lists other models.                                        *)
ProviderMoves(c, l) ==
    /\ More /\ moves' = moves + 1
    /\ l \in Lists[c] /\ l # upstream[c] /\ upstream' = [upstream EXCEPT ![c] = l]
    /\ UNCHANGED <<server, ops, client, begun>>

Next ==
    \/ \E c \in Channel : \/ OpenUpstreamUpdateModal(c) \/ EditStarts(c)
                          \/ DetectChannelUpstreamUpdates(c)
    \/ \E m \in dialog.add \cup dialog.rem : Toggle(m)
    \/ CloseUpstreamUpdateModal \/ HandleSubmit
    \/ ApplyAllUpstreamUpdates \/ DetectAllUpstreamUpdates
    \/ TaskStarts
    \/ \E k \in Kind : \/ Answered(k) \/ RequestFails(k) \/ Refreshed(k) \/ ReadRows(k)
                       \/ Skip(k) \/ FetchUpstreamModelIDs(k) \/ FetchFails(k)
                       \/ Persist(k) \/ ApplyUpdates(k) \/ UpdateAbilities(k)
                       \/ StatementFails(k) \/ Finish(k)
    \/ \E ms \in Edits : EditSaves(ms)
    \/ Reread
    \/ \E c \in Channel : \E l \in Lists[c] : ProviderMoves(c, l)

Spec == Init /\ [][Next]_vars

(***************************************************************************)
(* Properties.                                                             *)
(***************************************************************************)

(* What the user decided stays decided, whatever is checked afterwards: an *)
(* ignored model is neither offered again nor added by the task, an added  *)
(* one stays until the user takes it out.  Not where an operation wrote    *)
(* back a row that another one had changed in between.                     *)
DecisionsKept ==
    \A c \in Channel \ crossed :
        /\ kept[c] \cap (rows[c].detected \cup rows[c].models) = {}
        /\ wanted[c] \subseteq rows[c].models

(* "Redirect source models are virtual aliases and should not be removed": *)
(* a check that reads the mapping neither offers them for removal nor the  *)
(* redirect targets as new.  Not where the last check was one of the task  *)
(* or of "detect all", which do not read it, nor after an overwritten row. *)
RedirectsLeft ==
    \A c \in Channel \ (blind \cup crossed) :
        rows[c].removed \cap Aliases[c] = {} /\ rows[c].detected \cap Targets[c] = {}

(* With no operation under way, a channel is routed for its models, unless *)
(* the last change of its routes failed: then the models are written and   *)
(* the routes wait for the next change that succeeds.  Nor when operations *)
(* on one channel overwrote each other.                                    *)
RoutesFollow ==
    \A c \in Channel \ (crossed \cup behind) :
        (\A k \in Kind : ops[k].st \notin {"reread", "abilities"}) => abilities[c] = rows[c].models

(* A model found while the dialog was open is not handled by its answer:   *)
(* it was not shown, so it is neither added nor ignored.                   *)
NewsStayPending ==
    [][\A c \in Channel :
         /\ rows[c] # rows'[c] /\ ops["apply"].st = "run" /\ ops'["apply"] # ops["apply"]
         /\ c \notin crossed'
         => rows[c].detected \ (ops["apply"].add \cup ops["apply"].ign)
              \subseteq rows'[c].detected]_vars

(* The flags of the hook are taken back when their operation is over.      *)
FlagsEnd == \A k \in Asked : k \in flight => ops[k].st # "none"
=============================================================================
