------------------------------ MODULE MCPages ------------------------------
(***************************************************************************)
(* The parts of the web console that must show what the server has, side   *)
(* by side: the paged tables, the settings forms, the key manager of a     *)
(* channel, the dialogs that edit one record, the editors of the model     *)
(* prices, the updates from a provider's model list, the signing in and    *)
(* out in several tabs and the rules of a channel's parameter overrides.   *)
(* They share no state, and a behaviour is about one of them: "part".      *)
(***************************************************************************)
EXTENDS Naturals, Sequences, FiniteSets, TLC, SettingsCatalog, ModelPricing

CONSTANTS Page, Size, MaxCalls, MaxWrites, Mounted, MaxEdits, MaxSaves, MaxFaults,
          InitialKeys, NewKeys, MaxOps, MaxFailures,
          Record, MaxUses,
          NameOrder, Spaced, Candidates, Starts, Default, Typed, Appended,
          ChannelOrder, FirstRows, Lists, Aliases, Targets, Edits, MaxUpdates,
          Tab, User, MaxClicks,
          Overrides, Texts, Patches, MaxChanges

VARIABLES
    part,
    table, form, query, searchMode, page, size, shown, selected, loading, searching, counter,
    calls, wire, write, version, issued, writes, last, typed, failed, joined, crossed,
    forms, option, database, synced, dropped, inputs, row, keySaved, saving, notice, puts,
    refused, closure, updateArray, get, snap, waiting, edits, saves, faults, lost, partial,
    stale,
    record, ops, lists, dialog, listed, busy, started, spare, failure, failures,
    torn, excused,
    kind, visible, target, values, kept, spinning, loads, fetches, offer, submits, timers,
    stored, opens, count, mixed, blanked, refusals,
    catalog, prices, loaded, known, candidates, models, chosen, checked, filter, text, merge,
    storing, put, fetch, fetched, awaiting, touched, drift, missed, late, changes, stores,
    rows, abilities, upstream, tasks, choice, flight, shownRows, ignoredByUser, wanted, blind,
    overwritten, behind, begun, moves,
    cookie, storage, tabs, requests, acted, confused, signedOut, clicks,
    override, ruling, field, view, rules, jsonText, jsonError, loadedOps, origin, given, ghost,
    changed

Tables == INSTANCE ConsoleTable
Settings == INSTANCE SettingsForm
Manager == INSTANCE MultiKeys
Editor == INSTANCE EditDialog
          WITH loading <- spinning, crossed <- mixed, failed <- refusals
Pricing == INSTANCE PricingEditor
           WITH selected <- chosen, saving <- storing, get <- fetch, snap <- fetched,
                waiting <- awaiting, lost <- missed, stale <- late
Updates == INSTANCE UpstreamUpdates
           WITH ops <- tasks, dialog <- choice, listed <- shownRows, kept <- ignoredByUser,
                crossed <- overwritten, MaxOps <- MaxUpdates
Browser == INSTANCE BrowserTabs
           WITH calls <- requests, crossed <- confused, out <- signedOut
Data == INSTANCE ParamOverride
Rules == INSTANCE RuleEditor
         WITH shown <- ruling, value <- field, mode <- view, loaded <- loadedOps

paged == <<table, form, query, searchMode, page, size, shown, selected, loading, searching,
           counter, calls, wire, write, version, issued, writes, last, typed, failed, joined,
           crossed>>
settings == <<forms, option, database, synced, dropped, inputs, row, keySaved, saving, notice,
              puts, refused, closure, updateArray, get, snap, waiting, edits, saves, faults,
              lost, partial, stale>>
manager == <<record, ops, lists, dialog, listed, busy, started, spare, failure,
             failures, torn, excused>>
editor == <<kind, visible, target, values, kept, spinning, loads, fetches, offer, submits,
            timers, stored, opens, count, mixed, blanked, refusals>>
pricing == <<catalog, prices, loaded, known, candidates, models, chosen, checked, filter, text,
             merge, storing, put, fetch, fetched, awaiting, touched, drift, missed, late,
             changes, stores>>
updates == <<rows, abilities, upstream, tasks, choice, flight, shownRows, ignoredByUser, wanted,
             blind, overwritten, behind, begun, moves>>
browser == <<cookie, storage, tabs, requests, acted, confused, signedOut, clicks>>
ruler == <<override, ruling, field, view, rules, jsonText, jsonError, loadedOps, origin, given,
           ghost, changed>>
vars == <<part, paged, settings, manager, editor, pricing, updates, browser, ruler>>

(* The channel starts with keys that are all different, and the keys that  *)
(* are added are new.                                                      *)
ASSUME KeysAssumption ==
    /\ InitialKeys \in Seq(Manager!AnyKey) /\ InitialKeys # <<>>
    /\ \A i, j \in DOMAIN InitialKeys : InitialKeys[i] = InitialKeys[j] => i = j
    /\ \A i \in DOMAIN InitialKeys : InitialKeys[i] \notin NewKeys

(* A form counts as loaded after a save nothing, its ordinary field or     *)
(* both.  One that needs its key only when it is enabled looks at the      *)
(* answers, always sends its ordinary field, as it is, and does not count  *)
(* its secret as loaded.                                                   *)
ASSUME FormsAssumption ==
    \A fs \in Mounted : \A s \in DOMAIN fs :
        /\ fs[s].rebases \in {{}, {"a"}, Field}
        /\ fs[s].needsKey = "enabled" =>
              /\ fs[s].secret /\ fs[s].checked /\ fs[s].all /\ ~fs[s].normalizes
              /\ fs[s].rebases # Field

(* No record is called as a new one or as what the user typed.             *)
ASSUME RecordAssumption == Record \cap {Editor!New, Editor!Own} = {}

(* The rows of the channels at first, with no redirect among the           *)
(* differences.                                                            *)
ASSUME ChannelsAssumption ==
    /\ ChannelOrder \in Seq(Updates!Channel) \ {<<>>} /\ DOMAIN FirstRows = Updates!Channel
    /\ \A c \in Updates!Channel :
          /\ DOMAIN FirstRows[c]
               = {"models", "detected", "removed", "ignored", "check", "auto"}
          /\ FirstRows[c].removed \cap Aliases[c] = {}
          /\ FirstRows[c].detected \cap Targets[c] = {}

(* The prices at first and what the user types and appends have an entry   *)
(* for every model, with nothing in the ones that are missing.             *)
ASSUME PricesAssumption ==
    LET Whole(f) == /\ DOMAIN f = Pricing!Name
                    /\ \A n \in Pricing!Name : f[n].kind = "none" => f[n] = NoEntry
    IN  /\ NameOrder \in Seq(Pricing!Name) \ {<<>>} /\ Spaced \notin Pricing!Name
        /\ \A s \in Starts : Whole(s.catalog) /\ s.changes \in Nat
        /\ \A c \in Appended : Whole(c)
        /\ \A e \in Typed : e.kind = "none" => e = NoEntry

OnlyPage == CHOOSE f \in Mounted : TRUE
OnlyStart == CHOOSE s \in Starts : TRUE

Init ==
    /\ part \in {"table", "settings", "keys", "edit", "prices", "updates", "tabs", "rules"}
    /\ Tables!Init /\ Settings!Init /\ Manager!Init /\ Editor!Init /\ Pricing!Init
    /\ Updates!Init /\ Browser!Init /\ Rules!Init
    /\ part # "table" => table = "channels"
    /\ part # "settings" => forms = OnlyPage /\ \A s \in DOMAIN forms : option[s]["b"] = "v1"
    /\ part # "edit" => kind = "tag"
    /\ part # "prices" => catalog = OnlyStart.catalog
    /\ part # "updates" => \A c \in DOMAIN upstream : upstream[c] = CHOOSE l \in Lists[c] : TRUE
    /\ part # "rules" => override = Data!None

(* A step of one part; "others" are the variables of the other parts.      *)
Of(p, A, others) == part = p /\ A /\ UNCHANGED <<part, others>>

Next ==
    \/ Of("table", Tables!Next,
          <<settings, manager, editor, pricing, updates, browser, ruler>>)
    \/ Of("settings", Settings!Next,
          <<paged, manager, editor, pricing, updates, browser, ruler>>)
    \/ Of("keys", Manager!Next,
          <<paged, settings, editor, pricing, updates, browser, ruler>>)
    \/ Of("edit", Editor!Next,
          <<paged, settings, manager, pricing, updates, browser, ruler>>)
    \/ Of("prices", Pricing!Next,
          <<paged, settings, manager, editor, updates, browser, ruler>>)
    \/ Of("updates", Updates!Next,
          <<paged, settings, manager, editor, pricing, browser, ruler>>)
    \/ Of("tabs", Browser!Next,
          <<paged, settings, manager, editor, pricing, updates, ruler>>)
    \/ Of("rules", Rules!Next,
          <<paged, settings, manager, editor, pricing, updates, browser>>)

Spec == Init /\ [][Next]_vars

(* The settings pages: one form of each behaviour, and two in one section. *)
Pair(f, g) == (1 :> f) @@ (2 :> g)

SettingsPages ==
    {1 :> f : f \in {SettingModelDeployment, SettingsRequestRateLimit, GroupRatioSettings,
                     SettingsPaymentGatewayEpay, SettingsMonitoring,
                     SettingsPaymentGatewayAlipay, SettingsGeneral}}
    \cup
    {Pair(SettingClaudeModel, SettingGeminiModel)}

TwoKeys == <<"k1", "k2">>

(* The model prices: per token, with and without an output price, per      *)
(* second, free by a built-in flag, and in two tiers, without and with a   *)
(* price for images.                                                       *)
Tokens == Entry([in |-> "1", out |-> "1", rest |-> "0", media |-> "1"])
InputOnly == Entry([in |-> "1"])
PerSecond == Entry([call |-> "1", use |-> TRUE, unit |-> "second"])
FreeCalls == Entry([use |-> TRUE, in |-> "0", out |-> "0"])
Tiers == Entry(
           [tiered |-> TRUE, in |-> "1", out |-> "1",
            tiers |-> <<[max |-> "1", in |-> "1", out |-> "1", rest |-> "0"],
                        [max |-> Null, in |-> "0", out |-> "1", rest |-> Null]>>])

ImageTiers == [Tiers EXCEPT !.media = "1"]

ModelNames == <<"m", "n">>
PerModel(e, f) == ("m" :> e) @@ ("n" :> f)
Start(e, f, c, s) == [catalog |-> PerModel(e, f), changes |-> c, stores |-> s]
PriceStarts == {Start(InputOnly, NoEntry, 1, 2), Start(Tiers, FreeCalls, 1, 1),
                Start(PerSecond, NoEntry, 2, 1), Start(ImageTiers, Tokens, 1, 1)}
BuiltIn == PerModel(FreeCalls, NoEntry)
TypedEntries == {NoEntry, Tokens, Bad}
AppendedModels == {PerModel(Tokens, NoEntry), PerModel(Tokens, InputOnly)}

(* Two channels: for one, the user handles the differences, and its model  *)
(* "s" stands for the provider's "t"; the other is kept up to date.        *)
PerChannel(a, b) == ("A" :> a) @@ ("B" :> b)
ChannelRow(ms, new, auto) ==
    [models |-> ms, detected |-> new, removed |-> {}, ignored |-> {}, check |-> TRUE,
     auto |-> auto]
Channels == <<"A", "B">>
ChannelRows == PerChannel(ChannelRow({"a", "s"}, {"x"}, FALSE), ChannelRow({"a"}, {}, TRUE))
ProviderLists == PerChannel({{"a", "t"}, {"t", "x", "y"}}, {{"a", "x"}})
RedirectSources == PerChannel({"s"}, {})
RedirectTargets == PerChannel({"t"}, {})
EditedModels == {{"a", "x"}}

(* Parameter overrides: each kind of operation, with and without a         *)
(* condition; what the rules cannot show (a move), cannot carry (a string  *)
(* that reads as a number, keep_origin), or show as lines.                 *)
Word == Data!Scalar("string", "x")
One == Data!Scalar("number", "1")
If(invert, v) == <<[path |-> Data!Path("p"), mode |-> "full", invert |-> invert, value |-> v]>>
SetQ == Data!Operation("set", Data!Path("q"), Data!NoPath, One, If(FALSE, Word))
Unless == Data!Operation("delete", Data!Path("p"), Data!NoPath, Data!Blank, If(TRUE, One))
CopyQ == Data!Operation("copy", Data!Path("p"), Data!Path("q"), Data!Blank, <<>>)
CopyIf == [CopyQ EXCEPT !.conditions = If(FALSE, Word)]
Swap == Data!Operation("replace", Data!Path("p"), Data!NoPath, Word, <<>>)
Quoted == Data!Operation("set", Data!Path("p"), Data!NoPath, Data!Scalar("string", "1"), <<>>)
PutX == [Quoted EXCEPT !.value = Word]
KeepQ == [SetQ EXCEPT !.more = TRUE]
MoveQ == [CopyQ EXCEPT !.mode = "move"]

Text(f, seq) == [form |-> f, ops |-> seq]
StoredOverrides ==
    {Data!None, Text("ops", <<SetQ, Unless>>), Text("ops", <<CopyQ, CopyIf>>),
     Text("array", <<CopyQ, Swap>>), Text("object", <<Quoted, PutX>>),
     Text("ops", <<MoveQ, SetQ>>), Text("ops", <<KeepQ, CopyIf>>), Text("extra", <<SetQ>>),
     Text("extra", <<CopyQ>>)}
TypedTexts ==
    {Data!None, Text("ops", <<Swap>>), Text("ops", <<MoveQ>>), Text("broken", <<>>),
     Text("lines", <<Data!Line(CopyQ)>>), Text("badlines", <<>>)}
RulePatches ==
    {[condOp |-> "neq"], [condOp |-> "always"], [condPath |-> Data!Path("p")],
     [condValue |-> "1"], [action |-> "copy"], [action |-> "replace"], [action |-> "delete"],
     [targetPath |-> Data!NoPath], [targetPath |-> Data!Path("q")], [setValue |-> "x"],
     [fromPath |-> Data!Path("q")], [replaceFrom |-> "x"]}

(* A part's property; the other parts stay in their initial state.         *)
On(p, P) == part = p => P

(* The types of the parts.                                                 *)
TypeOK ==
    /\ On("table", Tables!TypeOK)
    /\ On("settings", Settings!TypeOK)
    /\ On("keys", Manager!TypeOK)
    /\ On("edit", Editor!TypeOK)
    /\ On("prices", Pricing!TypeOK)
    /\ On("updates", Updates!TypeOK)
    /\ On("tabs", Browser!TypeOK)
    /\ On("rules", Rules!TypeOK)

(* A table shows what it says: when everything is answered, what was asked *)
(* last (where the hook numbers its requests), under the number of that    *)
(* page, not older than the last row action, and with only rows of that    *)
(* answer selected.                                                        *)
RowsCurrent ==
    On("table", /\ Tables!LatestShown /\ Tables!PageOfRows
                /\ Tables!FreshAfterWrite /\ Tables!SelectionOnScreen)

(* No table, form, section, edit dialog, price editor or check of the      *)
(* provider's list keeps its spinner or flag when nothing is in flight,    *)
(* however its requests overlapped.                                        *)
SpinnersEnd ==
    /\ On("table", Tables!SpinnerStops)
    /\ On("settings", Settings!SpinnersStop)
    /\ On("edit", Editor!SpinnerStops)
    /\ On("prices", Pricing!SpinnersStop)
    /\ On("updates", Updates!FlagsEnd)

(* A settings form that looks at the answers says "saved" only when what   *)
(* it submitted is stored, unless an error of the table was ignored, and   *)
(* no save empties a stored secret that a blank one leaves as it is.  A    *)
(* merge of appended model prices changes what was chosen and nothing      *)
(* else.  The dialog of a provider's new models handles only models that   *)
(* it showed.  (Each part's property states its exceptions.)               *)
SavesFaithful ==
    /\ Settings!SavedIsStored /\ Settings!SecretKept
    /\ Pricing!MergeAsChosen
    /\ Updates!NewsStayPending

(* With nothing in flight, the next save of a form sends exactly what      *)
(* differs from the server; and Epay is never enabled without its key.  An *)
(* edit dialog shows the record it was opened for, and stores under an id  *)
(* nothing of another record, unless that one's late answer has filled the *)
(* form.  The price editors show the stored prices, mark as configured     *)
(* what a save would price, and a save changes what no other model costs,  *)
(* apart from prices that the rows do not carry.  What the user decided    *)
(* about a provider's models stays, redirects are left alone and routes    *)
(* follow, unless a check wrote from an outdated row or without the        *)
(* mapping, or the statement for the routes failed.  A tab acts for the    *)
(* user that it shows, unless a late answer mixed it up.  And the override *)
(* rules that nobody touched stay, whatever happens to the others, where   *)
(* the rules can carry them.  (Each part's property states its exceptions.)*)
FormsMatchServer ==
    /\ On("settings", Settings!NextSaveSendsTheRest /\ Settings!EnabledHasKey)
    /\ On("edit", Editor!ShowsTarget /\ Editor!OwnValues)
    /\ On("prices", /\ Pricing!EditorsShowOption /\ Pricing!BadgeTrue
                    /\ Pricing!OthersKeepPrice)
    /\ On("updates", Updates!DecisionsKept /\ Updates!RedirectsLeft /\ Updates!RoutesFollow)
    /\ On("tabs", Browser!ActsAsShown /\ Browser!SignOutShown)
    /\ On("rules", Rules!UntouchedKept /\ Rules!SavesWhatItShows)

(* However key operations overlap, the channel's row has a key and, after  *)
(* an operation of the manager, no status of a key that is gone; and the   *)
(* manager ends up listing the row as it is, unless lists crossed, a       *)
(* request failed or traffic disabled a key.                               *)
KeysListed == On("keys", Manager!RowWellFormed /\ Manager!ListFresh)

(* Deleting, adding and replacing keys leave every other key its status,   *)
(* although statuses are kept by index, when the operation is saved over   *)
(* the row that it has read.                                               *)
StatusFollowsKey == Manager!StatusFollowsKey
=============================================================================
