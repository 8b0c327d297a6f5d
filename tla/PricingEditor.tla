--------------------------- MODULE PricingEditor ---------------------------
(***************************************************************************)
(* The prices of the models on the settings page: the visual editor        *)
(* (useModelPricingEditorState), the file editor beside it with its merge  *)
(* of appended models (ModelSettingsFileEditor), the section that loads    *)
(* for both (RatioSetting) and the server's option ModelPrice.  Both       *)
(* editors read the whole option into a form of their own and write the    *)
(* whole option back.                                                      *)
(***************************************************************************)
EXTENDS Naturals, Sequences, FiniteSets, SequencesExt, ModelPricing

CONSTANTS
    NameOrder,    \* the model names, sorted
    Spaced,       \* a key of the file that is the first name with a blank
    Candidates,   \* the models of the enabled channels
    Starts,       \* what the option holds at first, with bounds: how much the
                  \* user changes and how often is saved
    Default,      \* the prices that are built into the server
    Typed,        \* entries the user writes into the file
    Appended      \* what the user appends to it

Name == ToSet(NameOrder)
Unlimited == "inf"
Text == {"", ".", "1"}
Mode == {"per-token", "per-request", "tiered"}

VARIABLES
    catalog,      \* the option ModelPrice at the server
    prices,       \* the prices it charges
    loaded,       \* inputs.ModelPrice of the section
    known,        \* the section has loaded once
    candidates,   \* channelModels: "none" before the answer
    models,       \* the rows of the visual editor
    selected,     \* selectedModelName, "" when there is none
    checked,      \* selectedModelNames
    filter,       \* statusFilter
    text,         \* jsonText of the file editor: its keys, or broken
    merge,        \* pendingMerge and its index
    saving,       \* per editor: idle, the PUT is out, or the refresh
    put,          \* per editor: the PUT in flight
    get, snap,    \* the shared GET, and what the server read for it
    waiting,      \* who waits for it
    touched,      \* history, per editor: the models the user changed since the load
    drift,        \* history: the text was edited while a merge is pending
    lost, stale,  \* history: a request failed or was refused; a GET was joined late
    changes, stores  \* how many changes and saves are left

screen == <<models, selected, checked, filter>>
file == <<text, merge, drift>>
server == <<catalog, prices>>
requests == <<saving, put, get, snap, waiting, lost, stale>>
vars == <<server, loaded, known, candidates, screen, file, requests, touched, changes, stores>>

Empty == [n \in Name |-> NoEntry]

EmptyModel == [mode |-> "per-token", fixed |-> "", unit |-> "call", in |-> "", out |-> "",
               rest |-> "", media |-> "", tiers |-> <<>>, has |-> FALSE]
Absent == [EmptyModel EXCEPT !.mode = "absent"]
EmptyTier == [max |-> Unlimited, in |-> "", out |-> "", rest |-> ""]

(***************************************************************************)
(* Between texts and numbers.                                              *)
(***************************************************************************)
HasValue(t) == t # ""
ToNumber(t) == IF t \in {"", ".", Unlimited} THEN Null ELSE t
Format(n) == IF n = Null THEN "" ELSE n
TierHasPrice(t) == \E f \in PerTier : HasValue(t[f])

(* A plausible mistake: the unit of a fixed price is not read.             *)
BuildModelState_NoUnit(e) ==
    [mode |-> IF e.call # Null THEN "per-request" ELSE "per-token",
     fixed |-> Format(e.call), unit |-> "call", in |-> Format(e.in), out |-> Format(e.out),
     rest |-> Format(e.rest), media |-> Format(e.media), tiers |-> <<>>,
     has |-> e.kind = "price"]

(* The row of the visual editor for an entry.                              *)
BuildModelState(e) ==
    LET tiered == e.tiered /\ e.tiers # <<>>
    IN  [mode |-> IF e.call # Null THEN "per-request" ELSE IF tiered THEN "tiered"
                  ELSE "per-token",
         fixed |-> Format(e.call), unit |-> e.unit,
         in |-> Format(e.in), out |-> Format(e.out), rest |-> Format(e.rest),
         media |-> Format(e.media),
         tiers |-> IF ~tiered THEN <<>> ELSE
                   [i \in DOMAIN e.tiers |->
                      [max |-> Or(e.tiers[i].max, Unlimited), in |-> Format(e.tiers[i].in),
                       out |-> Format(e.tiers[i].out), rest |-> Format(e.tiers[i].rest)]],
         has |-> tiered \/ e.call # Null \/ \E f \in Flat : e[f] # Null]

BuildModels(c, names) ==
    [n \in Name |-> IF n \in names \/ c[n].kind # "none" THEN BuildModelState(c[n]) ELSE Absent]

(* What handleSubmit sends for a row: missing prices are 0, a missing      *)
(* output price is the input's.  The first tier is repeated as the prices  *)
(* of the entry, and an entry with tiers gets no media prices.             *)
Numbers(t) ==
    [in |-> Or(ToNumber(t.in), "0"), out |-> Or(ToNumber(t.out), Or(ToNumber(t.in), "0")),
     rest |-> Or(ToNumber(t.rest), "0")]

TierItem(t) == [max |-> ToNumber(t.max)] @@ Numbers(t)
TierSent(t) == TierHasPrice(t) \/ ToNumber(t.max) # Null

Output(m) ==
    CASE m.mode = "per-request" /\ ToNumber(m.fixed) # Null ->
           Entry([call |-> ToNumber(m.fixed), use |-> TRUE, unit |-> m.unit])
      [] m.mode = "tiered" /\ SelectSeq(m.tiers, TierSent) # <<>> ->
           LET sent == SelectSeq(m.tiers, TierSent)
               items == [i \in DOMAIN sent |-> TierItem(sent[i])]
           IN  Entry([tiered |-> TRUE, tiers |-> items] @@ [f \in PerTier |-> items[1][f]])
      [] m.mode = "per-token" /\ \E f \in Flat : ToNumber(m[f]) # Null ->
           Entry(Numbers(m) @@ [media |-> Or(ToNumber(m.media), "0")])
      [] OTHER -> NoEntry

(* UpdateExposedModelPricingByJSONString: the built-in prices, and over    *)
(* them what the option has.                                               *)
Effective(c) == [n \in Name |-> IF c[n].kind = "price" THEN c[n] ELSE Default[n]]

(* normalizeModelPriceJson: names are trimmed, and of two that become      *)
(* equal the later one (here the one with the blank) stays.                *)
Normalized(t) ==
    [n \in Name |-> IF n = NameOrder[1] /\ t[Spaced].kind # "none" THEN t[Spaced] ELSE t[n]]
AsText(c) ==
    [broken |-> FALSE,
     keys |-> [k \in Name \cup {Spaced} |-> IF k \in Name THEN c[k] ELSE NoEntry]]

NoMerge == [on |-> FALSE, base |-> Empty, left |-> Empty, right |-> Empty, names |-> <<>>,
            side |-> [n \in Name |-> ""], index |-> 1]
NoPut == [st |-> "none", value |-> Empty, base |-> Empty, touched |-> {}, known |-> FALSE]
Editor == {"visual", "file"}

Init ==
    /\ \E s \in Starts : catalog = s.catalog /\ changes = s.changes /\ stores = s.stores
    /\ prices = Effective(catalog)
    /\ loaded = Empty /\ known = FALSE /\ candidates = "none"
    /\ models = BuildModels(Empty, {}) /\ selected = "" /\ checked = {} /\ filter = "all"
    /\ text = AsText(Empty) /\ merge = NoMerge /\ drift = FALSE
    /\ saving = [e \in Editor |-> "idle"] /\ put = [e \in Editor |-> NoPut]
    /\ get = "asked" /\ snap = Empty /\ waiting = {"page"} /\ lost = FALSE /\ stale = FALSE
    /\ touched = [e \in Editor |-> {}]

TypeOK ==
    /\ DOMAIN catalog = Name /\ DOMAIN models = Name
    /\ selected \in Name \cup {""} /\ checked \subseteq Name
    /\ filter \in {"all", "configured", "unset"} /\ candidates \in {"none", "known", "failed"}
    /\ saving \in [Editor -> {"idle", "put", "refresh"}]
    /\ \A e \in Editor : put[e].st \in {"none", "sent", "stored", "refused"}
    /\ get \in {"none", "asked", "read"} /\ waiting \subseteq {"page"} \cup Editor
    /\ touched \in [Editor -> SUBSET Name]
    /\ changes \in Nat /\ stores \in Nat

(***************************************************************************)
(* The visual editor.                                                      *)
(***************************************************************************)
Listed(ms) == {n \in Name : ms[n].mode # "absent"}
Visible(ms, sel, flt) ==
    {n \in Listed(ms) : \/ n = sel \/ flt = "all"
                        \/ flt = "configured" /\ ms[n].has
                        \/ flt = "unset" /\ ~ms[n].has}

(* The rows after a change and the effects that follow it: only visible    *)
(* rows stay checked, and when the selected one is gone the first visible  *)
(* row is selected (which one comes first is left open).                   *)
Show(ms, sel, flt) ==
    /\ models' = ms /\ filter' = flt
    /\ LET seen == Visible(ms, sel, flt)
       IN  IF sel \in seen THEN selected' = sel
           ELSE IF seen = {} THEN selected' = ""
           ELSE selected' \in seen
    /\ checked' = checked \cap Visible(ms, selected', flt)

(* A change by the user in the visual editor.  The spinner of the section  *)
(* takes the clicks; it does not take the keyboard, but before the first   *)
(* load there is nothing to type into.                                     *)
Clickable == waiting = {}

Changed(ns) ==
    /\ "page" \notin waiting
    /\ changes > 0 /\ changes' = changes - 1
    /\ touched' = [touched EXCEPT !["visual"] = @ \cup ns]
    /\ UNCHANGED <<server, loaded, known, candidates, file, requests, stores>>

Upsert(m) == Show([models EXCEPT ![selected] = m], selected, filter) /\ Changed({selected})
FlatHas(m) == \E f \in Flat : HasValue(m[f])
TiersHave(ts) == \E i \in DOMAIN ts : TierHasPrice(ts[i])
Row == models[selected]

SetSelectedModelName(n) ==
    /\ Clickable /\ n \in Visible(models, selected, filter) /\ n # selected
    /\ Show(models, n, filter)
    /\ UNCHANGED <<server, loaded, known, candidates, file, requests, touched, changes, stores>>

SetChecked(ns) ==
    /\ Clickable /\ ns \subseteq Visible(models, selected, filter) /\ ns # checked
    /\ checked' = ns
    /\ UNCHANGED <<models, selected, filter>> /\ Changed({})

SetStatusFilter(f) == Clickable /\ f # filter /\ Show(models, selected, f) /\ Changed({})

HandleNumericFieldChange(f, v) ==
    /\ selected # ""
    /\ \/ /\ Row.mode = "per-request" /\ f = "fixed" /\ v # Row.fixed
          /\ Upsert([Row EXCEPT !.fixed = v, !.has = HasValue(v)])
       \/ /\ Row.mode = "per-token" /\ f \in Flat /\ v # Row[f]
          /\ LET m == [Row EXCEPT ![f] = v] IN Upsert([m EXCEPT !.has = FlatHas(m)])

(* A plausible mistake: the badge of the row is not brought up to date.    *)
HandleBillingModeChange_OldBadge(v) ==
    /\ Clickable /\ selected # "" /\ v # Row.mode
    /\ Upsert([Row EXCEPT !.mode = v,
                          !.fixed = IF v = "per-request" THEN @ ELSE "",
                          !.in = IF v = "per-token" THEN @ ELSE "",
                          !.out = IF v = "per-token" THEN @ ELSE "",
                          !.rest = IF v = "per-token" THEN @ ELSE "",
                          !.media = IF v = "per-token" THEN @ ELSE ""])

(* Only the prices of the new mode are kept.                               *)
HandleBillingModeChange(v) ==
    LET of(mode, x, blank) == IF v = mode THEN x ELSE blank
        ts == IF Row.tiers # <<>> THEN Row.tiers
              ELSE <<[EmptyTier EXCEPT !.max = "1"], EmptyTier>>
        m == [mode |-> v, fixed |-> of("per-request", Row.fixed, ""),
              unit |-> of("per-request", Row.unit, "call"), in |-> of("per-token", Row.in, ""),
              out |-> of("per-token", Row.out, ""), rest |-> of("per-token", Row.rest, ""),
              media |-> of("per-token", Row.media, ""),
              tiers |-> of("tiered", ts, <<>>)]
    IN  /\ Clickable /\ selected # "" /\ v # Row.mode
        /\ Upsert(m @@ [has |-> CASE v = "per-request" -> HasValue(m.fixed)
                                  [] v = "tiered" -> TiersHave(m.tiers)
                                  [] v = "per-token" -> FlatHas(m)])

HandleFixedPriceUnitChange(u) ==
    /\ Clickable /\ selected # "" /\ Row.mode = "per-request" /\ u # Row.unit
    /\ Upsert([Row EXCEPT !.unit = u])

HandleTierChange(i, f, v) ==
    /\ selected # "" /\ Row.mode = "tiered" /\ i \in DOMAIN Row.tiers /\ Row.tiers[i][f] # v
    /\ v = Unlimited => f = "max"
    /\ LET ts == [Row.tiers EXCEPT ![i][f] = v]
       IN  Upsert([Row EXCEPT !.tiers = ts, !.has = TiersHave(ts)])

AddTier ==
    /\ Clickable /\ selected # "" /\ Row.mode = "tiered"
    /\ Upsert([Row EXCEPT !.tiers = Append(@, EmptyTier)])

RemoveTier(i) ==
    /\ Clickable /\ selected # "" /\ Row.mode = "tiered" /\ i \in DOMAIN Row.tiers
    /\ LET ts == RemoveAt(Row.tiers, i)
       IN  Upsert([Row EXCEPT !.tiers = ts, !.has = TiersHave(ts)])

AddModel(n) ==
    /\ Clickable /\ n \notin Listed(models)
    /\ Show([models EXCEPT ![n] = EmptyModel], n, filter) /\ Changed({n})

DeleteModel(n) ==
    /\ Clickable /\ n \in Visible(models, selected, filter)
    /\ Show([models EXCEPT ![n] = Absent], selected, filter) /\ Changed({n})

ApplySelectedModelPricing ==
    /\ Clickable /\ selected # "" /\ checked # {}
    /\ Show([n \in Name |-> IF n \in checked THEN Row ELSE models[n]], selected, filter)
    /\ Changed(checked)

(***************************************************************************)
(* The file editor.                                                        *)
(***************************************************************************)
FileChanged(ns) ==
    /\ "page" \notin waiting
    /\ changes > 0 /\ changes' = changes - 1
    /\ touched' = [touched EXCEPT !["file"] = @ \cup ns]
    /\ UNCHANGED <<server, loaded, known, candidates, screen, requests, stores>>

NameOf(k) == IF k = Spaced THEN NameOrder[1] ELSE k

(* The user types in the text, also while a merge is pending; the text is  *)
(* broken when it is no JSON object.                                       *)
EditText(k, e) ==
    /\ text' = [broken |-> FALSE, keys |-> [text.keys EXCEPT ![k] = e]] /\ text' # text
    /\ drift' = merge.on /\ UNCHANGED merge
    /\ FileChanged({NameOf(k)})

BreakText ==
    /\ ~text.broken /\ text' = [text EXCEPT !.broken = TRUE]
    /\ drift' = merge.on /\ UNCHANGED merge
    /\ FileChanged(Name)

HandleFormat ==
    /\ Clickable /\ ~text.broken /\ text.keys[Spaced].kind # "none"
    /\ text' = AsText(Normalized(text.keys))
    /\ UNCHANGED <<server, loaded, known, candidates, screen, merge, drift, requests, touched,
                   changes, stores>>

(* Names in the order of sortModelPriceObject.                             *)
Sorted(q) ==
    \A i, j \in DOMAIN q : i < j =>
        \E a, b \in DOMAIN NameOrder : a < b /\ NameOrder[a] = q[i] /\ NameOrder[b] = q[j]

(* handleAppendModels: new models are added, equal ones are skipped, and   *)
(* for the others the user is asked one by one, in the order of the names; *)
(* until then nothing changes.                                             *)
HandleAppendModels(c) ==
    LET old == Normalized(text.keys)
        base == [n \in Name |-> IF old[n].kind = "none" THEN c[n] ELSE old[n]]
        conflicts == {n \in Name : c[n].kind # "none" /\ old[n].kind # "none" /\ c[n] # old[n]}
    IN  /\ Clickable /\ ~text.broken
        /\ drift' = FALSE
        /\ IF conflicts = {}
           THEN text' = AsText(base) /\ merge' = NoMerge
           ELSE /\ \E names \in SetToSeqs(conflicts) :
                     /\ Sorted(names)
                     /\ merge' = [NoMerge EXCEPT !.on = TRUE, !.base = base, !.left = old,
                                                 !.right = c, !.names = names]
                /\ UNCHANGED text
        /\ FileChanged({n \in Name : c[n].kind # "none"})

MergeStep ==
    /\ Clickable
    /\ UNCHANGED <<server, loaded, known, candidates, screen, requests, touched, changes, stores>>

HandleConflictChoice(s) ==
    /\ merge.on
    /\ merge' = [merge EXCEPT !.side[merge.names[merge.index]] = s,
                              !.index = IF @ < Len(merge.names) THEN @ + 1 ELSE @]
    /\ UNCHANGED <<text, drift>> /\ MergeStep

TurnConflict(i) ==
    /\ merge.on /\ i \in DOMAIN merge.names /\ i \in {merge.index - 1, merge.index + 1}
    /\ merge' = [merge EXCEPT !.index = i]
    /\ UNCHANGED <<text, drift>> /\ MergeStep

(* A plausible mistake: what was not chosen is taken from the right.       *)
HandleApplyConflictChoices_Right ==
    /\ merge.on /\ merge.index = Len(merge.names)
    /\ text' = AsText([n \in Name |-> IF n \in ToSet(merge.names)
                                      THEN (IF merge.side[n] = "left" THEN merge.left[n]
                                            ELSE merge.right[n])
                                      ELSE merge.base[n]])
    /\ merge' = NoMerge /\ drift' = FALSE /\ MergeStep

HandleApplyConflictChoices ==
    /\ merge.on /\ merge.index = Len(merge.names)
    /\ \A n \in ToSet(merge.names) : merge.side[n] # ""
    /\ text' = AsText([n \in Name |-> CASE merge.side[n] = "left" -> merge.left[n]
                                        [] merge.side[n] = "right" -> merge.right[n]
                                        [] OTHER -> merge.base[n]])
    /\ merge' = NoMerge /\ drift' = FALSE /\ MergeStep

HandleCancelConflictChoices ==
    merge.on /\ merge' = NoMerge /\ drift' = FALSE /\ UNCHANGED text /\ MergeStep

(***************************************************************************)
(* Saving and loading.                                                     *)
(***************************************************************************)
Send(e, value) ==
    /\ Clickable /\ saving[e] = "idle" /\ stores > 0 /\ stores' = stores - 1
    /\ saving' = [saving EXCEPT ![e] = "put"]
    /\ put' = [put EXCEPT ![e] = [st |-> "sent", value |-> value, base |-> loaded,
                                  touched |-> touched[e], known |-> known]]
    /\ UNCHANGED <<server, loaded, known, candidates, screen, get, snap, waiting, lost, stale,
                   touched, changes>>

(* handleSubmit sends all rows.                                            *)
HandleSubmit == Send("visual", [n \in Name |-> Output(models[n])]) /\ UNCHANGED file

(* handleSave refuses a text that is no JSON and normalizes the others.    *)
HandleSave ==
    /\ ~text.broken
    /\ text' = AsText(Normalized(text.keys)) /\ UNCHANGED <<merge, drift>>
    /\ Send("file", Normalized(text.keys))

(* UpdateOption stores the option before it tries to read prices from it:  *)
(* one bad entry and the answer is a refusal, with the option stored and   *)
(* the old prices still charged.  (The option is OptionMap's, which the    *)
(* editors read; that an error of the table is ignored, and the sync loop  *)
(* then puts the old option back, is in SettingsForm.)                     *)
UpdateOption(e) ==
    LET bad == \E n \in Name : put[e].value[n].kind = "bad"
    IN  /\ put[e].st = "sent"
        /\ catalog' = put[e].value
        /\ prices' = IF bad THEN prices ELSE Effective(put[e].value)
        /\ put' = [put EXCEPT ![e].st = IF bad THEN "refused" ELSE "stored"]
        /\ UNCHANGED <<loaded, known, candidates, screen, file, saving, get, snap, waiting, lost,
                       stale, touched, changes, stores>>

(* A plausible mistake: the editor that saved does not load again.         *)
PutAnswered_NoRefresh(e) ==
    /\ put[e].st \in {"stored", "refused"}
    /\ put' = [put EXCEPT ![e] = NoPut] /\ saving' = [saving EXCEPT ![e] = "idle"]
    /\ touched' = [touched EXCEPT ![e] = {}]
    /\ UNCHANGED <<server, loaded, known, candidates, screen, file, get, snap, waiting, lost, stale,
                   changes, stores>>

(* The answer: after a success the section loads again, sharing a GET that *)
(* is in flight, and the button is free when that is done.                 *)
PutAnswered(e) ==
    /\ put[e].st \in {"stored", "refused"}
    /\ put' = [put EXCEPT ![e] = NoPut]
    /\ IF put[e].st = "stored"
       THEN /\ saving' = [saving EXCEPT ![e] = "refresh"]
            /\ get' = IF get = "none" THEN "asked" ELSE get
            /\ waiting' = waiting \cup {e}
            /\ stale' = (stale \/ get = "read") /\ UNCHANGED lost
       ELSE /\ saving' = [saving EXCEPT ![e] = "idle"] /\ lost' = TRUE
            /\ UNCHANGED <<get, waiting, stale>>
    /\ UNCHANGED <<server, loaded, known, candidates, screen, file, snap, touched, changes, stores>>

(* The PUT fails, before or after it was stored.                           *)
PutFails(e) ==
    /\ put[e].st # "none"
    /\ put' = [put EXCEPT ![e] = NoPut] /\ saving' = [saving EXCEPT ![e] = "idle"]
    /\ lost' = TRUE
    /\ UNCHANGED <<server, loaded, known, candidates, screen, file, get, snap, waiting, stale,
                   touched, changes, stores>>

GetOptions ==
    /\ get = "asked" /\ get' = "read" /\ snap' = catalog
    /\ UNCHANGED <<server, loaded, known, candidates, screen, file, saving, put, waiting, lost,
                   stale, touched, changes, stores>>

Names == IF candidates = "known" THEN Candidates ELSE {}
Rest == [e \in Editor |-> IF e \in waiting THEN "idle" ELSE saving[e]]

(* The options arrive: the visual editor builds its rows anew, the file    *)
(* editor takes the text when the option is not the one it had.            *)
OptionsArrive ==
    /\ get = "read" /\ get' = "none" /\ waiting' = {} /\ saving' = Rest
    /\ loaded' = snap /\ known' = TRUE
    /\ Show(BuildModels(snap, Names), selected, filter)
    /\ IF snap = loaded
       THEN UNCHANGED file /\ touched' = [touched EXCEPT !["visual"] = {}]
       ELSE /\ text' = AsText(snap) /\ merge' = NoMerge /\ drift' = FALSE
            /\ touched' = [e \in Editor |-> {}]
    /\ UNCHANGED <<server, candidates, put, snap, lost, stale, changes, stores>>

(* A plausible mistake: onRefresh does not return when its GET fails.      *)
GetFails_Hangs ==
    /\ get # "none" /\ get' = "none" /\ lost' = TRUE
    /\ UNCHANGED <<server, loaded, known, candidates, screen, file, saving, put, snap, waiting,
                   stale, touched, changes, stores>>

GetFails ==
    /\ get # "none" /\ get' = "none" /\ waiting' = {} /\ saving' = Rest /\ lost' = TRUE
    /\ UNCHANGED <<server, loaded, known, candidates, screen, file, put, snap, stale, touched,
                   changes, stores>>

(* The answer of /api/channel/models_enabled, or its failure: a new list,  *)
(* and the rows are built anew.                                            *)
CandidatesArrive(c) ==
    /\ candidates = "none" /\ candidates' = c
    /\ Show(BuildModels(loaded, IF c = "known" THEN Candidates ELSE {}), selected, filter)
    /\ touched' = [touched EXCEPT !["visual"] = {}]
    /\ UNCHANGED <<server, loaded, known, file, requests, changes, stores>>

Next ==
    \/ \E n \in Name : SetSelectedModelName(n) \/ AddModel(n) \/ DeleteModel(n)
    \/ \E ns \in SUBSET Name : SetChecked(ns)
    \/ \E f \in {"all", "configured", "unset"} : SetStatusFilter(f)
    \/ \E f \in Flat \cup {"fixed"}, v \in Text : HandleNumericFieldChange(f, v)
    \/ \E v \in Mode : HandleBillingModeChange(v)
    \/ \E u \in {"call", "second"} : HandleFixedPriceUnitChange(u)
    \/ \E i \in 1..3, f \in PerTier \cup {"max"}, v \in {"", "1", Unlimited} :
         HandleTierChange(i, f, v)
    \/ AddTier
    \/ \E i \in 1..3 : RemoveTier(i)
    \/ ApplySelectedModelPricing
    \/ \E k \in Name \cup {Spaced}, e \in Typed : EditText(k, e)
    \/ BreakText \/ HandleFormat
    \/ \E c \in Appended : HandleAppendModels(c)
    \/ \E s \in {"left", "right"} : HandleConflictChoice(s)
    \/ \E i \in 1..Len(NameOrder) : TurnConflict(i)
    \/ HandleApplyConflictChoices \/ HandleCancelConflictChoices
    \/ HandleSubmit \/ HandleSave
    \/ \E e \in Editor : UpdateOption(e) \/ PutAnswered(e) \/ PutFails(e)
    \/ GetOptions \/ OptionsArrive \/ GetFails
    \/ \E c \in {"known", "failed"} : CandidatesArrive(c)

Spec == Init /\ [][Next]_vars

(***************************************************************************)
(* Properties.                                                             *)
(***************************************************************************)

(* An entry as the server and the visual editor write it: an output price  *)
(* beside an input price, no price per call that is not in use, and with   *)
(* tiers the prices of the first one and none for images and sounds.       *)
Regular(e) ==
    /\ e.kind # "bad"
    /\ e.call # Null => e.use
    /\ e.use /\ e.call = Null => \A f \in Flat : e[f] \in {"0", Null}
    /\ e.in # Null => e.out # Null
    /\ e.kind = "price" => e.call # Null \/ e.in # Null \/ e.out # Null
    /\ \A i \in DOMAIN e.tiers : e.tiers[i].in # Null /\ e.tiers[i].out # Null
    /\ e.tiered /\ e.tiers # <<>> =>
          /\ Or(e.media, "0") = "0"
          /\ \A f \in {"in", "out"} : Or(e[f], "0") = e.tiers[1][f]

(* Saving the prices of some models changes what no other model costs,     *)
(* although both editors send all of them back from a form of their own.   *)
(* (An entry from the file that is not Regular may cost something else     *)
(* after a save of the visual editor: with tiers it loses its image and    *)
(* audio prices, which the relay does charge.  And an editor that never    *)
(* loaded sends an empty option.)                                          *)
OthersKeepPrice ==
    \A e \in Editor : put[e].st # "none" /\ put[e].known =>
        \A n \in Name \ put[e].touched :
            Regular(put[e].base[n]) => Charge(put[e].value[n]) = Charge(put[e].base[n])

(* Outside of tiers, a row is marked as configured exactly when saving     *)
(* would send a price for it ("." alone is a price that is not one).       *)
BadgeTrue ==
    \A n \in Listed(models) :
        /\ models[n].mode # "tiered"
        /\ \A f \in Flat \cup {"fixed"} : models[n][f] # "."
        => (models[n].has <=> Output(models[n]).kind = "price")

(* A merge ends by changing the appended models only, each to the side     *)
(* that was chosen for it, and leaves everything else in the text as it    *)
(* is, unless the text was edited meanwhile.  (A load, or another append,  *)
(* drops a pending merge.)                                                 *)
MergeAsChosen ==
    [][/\ merge.on /\ ~merge'.on /\ text' # text /\ ~drift
       /\ loaded' = loaded /\ changes' = changes
       => \A n \in Name :
           LET old == Normalized(text.keys)[n]
               new == text'.keys[n]
           IN  CASE merge.right[n].kind = "none" -> new = old
                 [] merge.right[n].kind # "none" /\ old.kind = "none" -> new = merge.right[n]
                 [] OTHER -> new \in {old, merge.right[n]} /\
                             (new # old => merge.side[n] = "right")]_vars

(* When nothing is in flight and nothing was typed, both editors show the  *)
(* option as it is stored, in whatever order they were saved.  Not after a *)
(* request failed or was refused, nor when an editor joined a GET that the *)
(* server had read before.                                                 *)
EditorsShowOption ==
    /\ known /\ get = "none" /\ \A e \in Editor : put[e].st = "none"
    /\ ~lost /\ ~stale
    => /\ touched["visual"] = {} => models = BuildModels(catalog, Names)
       /\ touched["file"] = {} => text = AsText(catalog)

(* No editor keeps its spinner when nothing is in flight.                  *)
SpinnersStop ==
    get = "none" /\ (\A e \in Editor : put[e].st = "none") =>
        waiting = {} /\ \A e \in Editor : saving[e] = "idle"
=============================================================================
