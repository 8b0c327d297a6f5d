---------------------------- MODULE ConsoleTable ----------------------------
(***************************************************************************)
(* The paged tables of the web console (channels, tokens, users, task      *)
(* logs, usage logs, deployments): six React hooks with the same duties    *)
(* and six ways to do them.  A user types into the search box, searches,   *)
(* turns pages, changes the page size and acts on rows while earlier       *)
(* requests are still in flight; answers come in any order.  helpers/api   *)
(* lets equal GETs that are in flight share one request.                   *)
(*                                                                         *)
(* The rows on screen are represented by the query that fetched them and   *)
(* the version of the data the server read for it.  One table is looked at *)
(* per behaviour: the pages of the console are not mounted together.       *)
(***************************************************************************)
EXTENDS Naturals, FiniteSets

CONSTANTS
    Page,          \* page numbers the user can click
    Size,          \* page sizes the user can choose
    MaxCalls,      \* bound on the loads issued in a behaviour
    MaxWrites      \* bound on the row actions

Table == {"channels", "tokens", "users", "tasks", "usage", "deployments"}

(* The hooks that number their requests and drop superseded answers.       *)
Guarded == {"channels", "usage", "deployments"}

Keyword == {"", "word"}
Number == Page \cup Size
FirstSize == CHOOSE s \in Size : \A z \in Size : s <= z

None == [kw |-> "none", group |-> 0, page |-> 0, size |-> 0, ver |-> 0]

VARIABLES
    table,
    form,        \* the keyword in the search box
    query,       \* deployments: the keyword of the last search
    searchMode,  \* tokens: the rows are a search result
    page,        \* activePage
    size,        \* pageSize
    shown,       \* the rows on screen: their query and version
    selected,    \* deployments: the rows that selectedKeys was taken from
    loading,
    searching,
    counter,     \* requestCounter, loadGenRef, requestSeq
    calls,       \* loads waiting for their answer
    wire,        \* inFlightGetRequests; ver is 0 until the server has read
    write,       \* the row action under way, with the state its closure holds
    version,     \* version of the data at the server
    issued, writes,
    last,        \* history: the query of the last load issued
    typed,       \* history: a keyword was ever typed
    failed,      \* history: a request failed
    joined,      \* history: a load joined a request read before the last write
    crossed      \* history: rows changed while a row action was under way

box == <<form, query, searchMode>>
view == <<page, size, shown, selected>>
spinners == <<loading, searching>>
history == <<last, typed, failed, joined, crossed>>
net == <<counter, calls, wire, issued, last, joined>>
vars == <<table, box, view, spinners, net, write, version, writes, typed, failed, crossed>>

Query == [kw : Keyword, group : {0} \cup Page, page : Number, size : Size]
Call == [kind : {"load", "search"}, q : Query, gen : 0..MaxCalls,
         spin : SUBSET {"loading", "searching"}]
Rows == [kw : Keyword, group : {0} \cup Page, page : Number, size : Size,
         ver : 1..(MaxWrites + 1)] \cup {None}

TypeOK ==
    /\ table \in Table /\ form \in Keyword /\ query \in Keyword
    /\ page \in Number /\ size \in Size
    /\ shown \in Rows /\ selected \in Rows
    /\ {searchMode, loading, searching, typed, failed, joined, crossed} \subseteq BOOLEAN
    /\ counter \in 0..MaxCalls /\ issued \in 0..MaxCalls
    /\ calls \subseteq Call
    /\ \A c \in calls : \E r \in wire : r.kind = c.kind /\ r.q = c.q
    /\ version \in 1..(MaxWrites + 1) /\ writes \in 0..MaxWrites

Q(kw, p, s) == [kw |-> kw, group |-> 0, page |-> p, size |-> s]
RowsOf(q, v) == [kw |-> q.kw, group |-> q.group, page |-> q.page, size |-> q.size, ver |-> v]

(***************************************************************************)
(* What each hook sends.  gen is the number of the request, 0 when the     *)
(* hook does not number it; spin the spinners the call turns on.           *)
(***************************************************************************)

(* loadChannels and searchChannels call each other, depending on whether   *)
(* the search box is empty; only loads are numbered.                       *)
ChannelCall(entry, group, p, s) ==
    [kind |-> IF form = "" THEN "load" ELSE "search",
     q |-> [Q(form, p, s) EXCEPT !.group = group],
     gen |-> IF form = "" THEN counter + 1 ELSE 0,
     spin |-> {IF form = "" THEN "loading" ELSE "searching", entry}]

(* loadTokens; searchTokens goes to the first page of all tokens when the  *)
(* search box is empty.                                                    *)
TokenLoad(p, s) ==
    [kind |-> "load", q |-> Q("", p, s), gen |-> 0, spin |-> {"loading"}]

TokenSearch(p, s) ==
    IF form = "" THEN TokenLoad(1, size)
    ELSE [kind |-> "search", q |-> Q(form, p, s), gen |-> 0, spin |-> {"searching"}]

(* loadUsers and searchUsers.                                              *)
UserCall(kw, p, s) ==
    IF kw = "" THEN TokenLoad(p, s)
    ELSE [kind |-> "search", q |-> Q(kw, p, s), gen |-> 0, spin |-> {"searching"}]

(* loadLogs of the task logs, and of the usage logs.                       *)
TaskCall(p, s) ==
    [kind |-> "load", q |-> Q(form, p, s), gen |-> 0, spin |-> {"loading"}]

UsageCall(p, s) == [TaskCall(p, s) EXCEPT !.gen = counter + 1]

(* fetchDeployments.                                                       *)
DeploymentCall(kw, p, s) ==
    [kind |-> IF kw = "" THEN "load" ELSE "search",
     q |-> Q(kw, p, s),
     gen |-> counter + 1,
     spin |-> {IF kw = "" THEN "loading" ELSE "searching"}]

(***************************************************************************)
(* API.get: a call joins the request in flight with the same URL.          *)
(***************************************************************************)
Flies(c) == \E r \in wire : r.kind = c.kind /\ r.q = c.q

Stale(c) == \E r \in wire : r.kind = c.kind /\ r.q = c.q /\ r.ver \in 1..(version - 1)

SpinFor(cs) ==
    /\ loading' = (loading \/ \E c \in cs : "loading" \in c.spin)
    /\ searching' = (searching \/ \E c \in cs : "searching" \in c.spin)

(* The calls cs are sent; c is the last of them.                           *)
Get(cs, c) ==
    /\ issued + Cardinality(cs) <= MaxCalls
    /\ issued' = issued + Cardinality(cs)
    /\ counter' = IF c.gen = 0 THEN counter ELSE c.gen
    /\ calls' = calls \cup cs
    /\ wire' = wire \cup {[kind |-> d.kind, q |-> d.q, ver |-> 0] : d \in {e \in cs : ~Flies(e)}}
    /\ joined' = (joined \/ \E d \in cs : Stale(d))
    /\ last' = c.q

Send(c) == Get({c}, c) /\ SpinFor({c})

(* The first load of each hook, when its page is mounted.                  *)
FirstCall(t) ==
    [kind |-> "load", q |-> Q("", 1, FirstSize),
     gen |-> IF t \in Guarded THEN 1 ELSE 0, spin |-> {"loading"}]

Init ==
    /\ table \in Table
    /\ form = "" /\ query = "" /\ searchMode = FALSE
    /\ page = 1 /\ size = FirstSize
    /\ shown = None /\ selected = None
    /\ loading = TRUE /\ searching = FALSE
    /\ counter = FirstCall(table).gen
    /\ calls = {FirstCall(table)}
    /\ wire = {[kind |-> "load", q |-> FirstCall(table).q, ver |-> 0]}
    /\ write = None /\ version = 1
    /\ issued = 1 /\ writes = 0
    /\ last = FirstCall(table).q
    /\ typed = FALSE /\ failed = FALSE /\ joined = FALSE /\ crossed = FALSE

(***************************************************************************)
(* The user types, and submits the search form.                            *)
(***************************************************************************)
Type(k) ==
    /\ issued < MaxCalls /\ form # k
    /\ form' = k
    /\ typed' = (typed \/ k # "")
    /\ UNCHANGED <<table, query, searchMode, view, spinners, net, write, version, writes,
                   failed, crossed>>

SearchChannels == Send(ChannelCall("searching", 0, 1, size)) /\ UNCHANGED <<box, view>>

SearchTokens ==
    /\ Send(TokenSearch(1, size))
    /\ searchMode' = (searchMode /\ form # "")
    /\ UNCHANGED <<form, query, view>>

SearchUsers == Send(UserCall(form, 1, size)) /\ UNCHANGED <<box, view>>

RefreshTasks == Send(TaskCall(1, size)) /\ UNCHANGED <<box, view>>

RefreshUsage ==
    /\ Send(UsageCall(1, size))
    /\ page' = 1
    /\ UNCHANGED <<box, size, shown, selected>>

SearchDeployments ==
    /\ Send(DeploymentCall(form, 1, size))
    /\ query' = form /\ page' = 1
    /\ UNCHANGED <<form, searchMode, size, shown, selected>>

Search ==
    /\ \/ table = "channels" /\ SearchChannels
       \/ table = "tokens" /\ SearchTokens
       \/ table = "users" /\ SearchUsers
       \/ table = "tasks" /\ RefreshTasks
       \/ table = "usage" /\ RefreshUsage
       \/ table = "deployments" /\ SearchDeployments
    /\ UNCHANGED <<table, write, version, writes, typed, failed, crossed>>

(***************************************************************************)
(* handlePageChange.  With a keyword the channels hook calls               *)
(* searchChannels without the group: the page lands in the group filter    *)
(* and the page size in the page number.                                   *)
(***************************************************************************)
PageChannels(p) ==
    /\ page' = p
    /\ IF form = "" THEN Send(ChannelCall("loading", 0, p, size))
                    ELSE Send(ChannelCall("searching", p, size, size))
    /\ UNCHANGED <<box, size, shown, selected>>

PageTokens(p) ==
    /\ Send(IF searchMode THEN TokenSearch(p, size) ELSE TokenLoad(p, size))
    /\ searchMode' = (searchMode /\ form # "")
    /\ UNCHANGED <<form, query, view>>

PageUsers(p) ==
    /\ page' = p
    /\ Send(UserCall(form, p, size))
    /\ UNCHANGED <<box, size, shown, selected>>

(* A plausible mistake: the page number changes with the click.            *)
PageTasks_Early(p) ==
    /\ page' = p
    /\ Send(TaskCall(p, size))
    /\ UNCHANGED <<box, size, shown, selected>>

PageTasks(p) == Send(TaskCall(p, size)) /\ UNCHANGED <<box, view>>

PageUsage(p) ==
    /\ page' = p
    /\ Send(UsageCall(p, size))
    /\ UNCHANGED <<box, size, shown, selected>>

PageDeployments(p) ==
    /\ page' = p
    /\ Send(DeploymentCall(query, p, size))
    /\ UNCHANGED <<box, size, shown, selected>>

ChangePage(p) ==
    /\ \/ table = "channels" /\ PageChannels(p)
       \/ table = "tokens" /\ PageTokens(p)
       \/ table = "users" /\ PageUsers(p)
       \/ table = "tasks" /\ PageTasks(p)
       \/ table = "usage" /\ PageUsage(p)
       \/ table = "deployments" /\ PageDeployments(p)
    /\ UNCHANGED <<table, write, version, writes, typed, failed, crossed>>

(***************************************************************************)
(* handlePageSizeChange.  Users and usage logs load the page they were on, *)
(* with the new size; the token hook also loads from its effect on         *)
(* pageSize, whose loadTokens ends the search mode.                        *)
(***************************************************************************)
SizeChannels(s) ==
    /\ size' = s /\ page' = 1
    /\ IF form = "" THEN Send(ChannelCall("loading", 0, 1, s))
                    ELSE Send(ChannelCall("searching", 1, s, size))
    /\ UNCHANGED <<box, shown, selected>>

SizeTokens(s) ==
    LET first == IF searchMode
                 THEN IF form = "" THEN TokenLoad(1, size) ELSE TokenSearch(1, s)
                 ELSE TokenLoad(1, s)
        effect == TokenLoad(1, s)
    IN  /\ size' = s
        /\ searchMode' = FALSE
        /\ Get({first, effect}, effect) /\ SpinFor({first, effect})
        /\ UNCHANGED <<form, query, page, shown, selected>>

SizeUsers(s) ==
    /\ size' = s /\ page' = 1
    /\ Send(UserCall("", page, s))
    /\ UNCHANGED <<box, shown, selected>>

SizeTasks(s) == Send(TaskCall(1, s)) /\ UNCHANGED <<box, view>>

SizeUsage(s) ==
    /\ size' = s /\ page' = 1
    /\ Send(UsageCall(page, s))
    /\ UNCHANGED <<box, shown, selected>>

SizeDeployments(s) ==
    /\ size' = s /\ page' = 1
    /\ Send(DeploymentCall(query, 1, s))
    /\ UNCHANGED <<box, shown, selected>>

ChangeSize(s) ==
    /\ size # s
    /\ \/ table = "channels" /\ SizeChannels(s)
       \/ table = "tokens" /\ SizeTokens(s)
       \/ table = "users" /\ SizeUsers(s)
       \/ table = "tasks" /\ SizeTasks(s)
       \/ table = "usage" /\ SizeUsage(s)
       \/ table = "deployments" /\ SizeDeployments(s)
    /\ UNCHANGED <<table, write, version, writes, typed, failed, crossed>>

(* rowSelection.onChange of the deployments.                               *)
Select ==
    /\ table = "deployments" /\ shown # None
    /\ selected' = shown
    /\ UNCHANGED <<table, box, page, size, shown, spinners, net, write, version, writes, typed,
                   failed, crossed>>

(***************************************************************************)
(* The answers.                                                            *)
(***************************************************************************)

(* The server reads the rows of a request.                                 *)
ServerReads(r) ==
    /\ r.ver = 0
    /\ wire' = (wire \ {r}) \cup {[r EXCEPT !.ver = version]}
    /\ UNCHANGED <<table, box, view, spinners, counter, calls, issued, history, write, version,
                   writes>>

Answered(r) == {c \in calls : c.kind = r.kind /\ c.q = r.q}

(* A plausible mistake: superseded answers are not dropped.                *)
Applies_Always(c) == c \in calls

(* A numbered request is dropped when a later one was issued.              *)
Applies(c) == c.gen # 0 => c.gen = counter

(* A plausible mistake: every call turns off its own spinner only.         *)
TurnsOff_OwnSpinner(c, out) ==
    CASE table \in Guarded -> IF Applies(c) THEN c.spin ELSE {}
      [] OTHER -> IF out = "error" THEN {} ELSE c.spin

(* The spinners a call turns off.  out is "ok", "refused" (the server      *)
(* answers success: false) or "error" (the promise is rejected): only the  *)
(* usage logs and the deployments have a finally, and searchChannels one   *)
(* for its own spinner.                                                    *)
TurnsOff(c, out) ==
    CASE table = "channels" ->
           (c.spin \cap {"searching"})
             \cup (IF Applies(c) /\ out # "error" THEN c.spin ELSE {})
      [] table = "usage" -> IF Applies(c) THEN c.spin ELSE {}
      [] table = "deployments" -> IF Applies(c) THEN {"loading", "searching"} ELSE {}
      [] OTHER -> IF out = "error" THEN {} ELSE c.spin

SpinOff(cs, out) ==
    /\ loading' = (loading /\ \A c \in cs : "loading" \notin TurnsOff(c, out))
    /\ searching' = (searching /\ \A c \in cs : "searching" \notin TurnsOff(c, out))

(* A plausible mistake: new rows keep the old selection.                   *)
Answer_KeepsSelection(r) ==
    /\ r.ver # 0
    /\ IF \E c \in Answered(r) : Applies(c)
       THEN /\ shown' = RowsOf(r.q, r.ver)
            /\ page' = r.q.page
            /\ size' = IF table \in {"tokens", "tasks", "usage"} THEN r.q.size ELSE size
       ELSE UNCHANGED <<shown, page, size>>
    /\ SpinOff(Answered(r), "ok")
    /\ calls' = calls \ Answered(r)
    /\ wire' = wire \ {r}
    /\ crossed' = (crossed \/ write # None)
    /\ UNCHANGED <<table, form, query, searchMode, selected, counter, issued, last, joined, write,
                   version, writes, typed, failed>>

(* Every call that shares the request goes on: syncPageData and its kin    *)
(* take page and, in three hooks, size from the answer.                    *)
Answer(r) ==
    LET cs == Answered(r)
        good == {c \in cs : Applies(c)}
        setsPage == table # "channels" \/ r.kind = "search"
        setsSize == table \in {"tokens", "tasks", "usage"}
    IN  /\ r.ver # 0
        /\ IF good = {}
           THEN UNCHANGED <<view, searchMode>>
           ELSE /\ shown' = RowsOf(r.q, r.ver)
                /\ page' = IF setsPage THEN r.q.page ELSE page
                /\ size' = IF setsSize THEN r.q.size ELSE size
                /\ selected' = IF table = "deployments" THEN None ELSE selected
                /\ searchMode' = (searchMode \/ (table = "tokens" /\ r.kind = "search"))
        /\ SpinOff(cs, "ok")
        /\ calls' = calls \ cs
        /\ wire' = wire \ {r}
        /\ crossed' = (crossed \/ write # None)
        /\ UNCHANGED <<table, form, query, counter, issued, last, joined, write, version, writes,
                       typed, failed>>

(* The token hook's effect on pageSize: an answer that changed the size is *)
(* followed by a load of the first page with that size.                    *)
TokenAnswer(r) ==
    LET effect == TokenLoad(1, r.q.size)
        rest == wire \ {r}
        flies == \E o \in rest : o.kind = "load" /\ o.q = effect.q
    IN  /\ r.ver # 0 /\ issued < MaxCalls
        /\ shown' = RowsOf(r.q, r.ver)
        /\ page' = r.q.page /\ size' = r.q.size
        /\ searchMode' = FALSE
        /\ loading' = TRUE
        /\ searching' = (searching /\ \A c \in Answered(r) : "searching" \notin c.spin)
        /\ calls' = (calls \ Answered(r)) \cup {effect}
        /\ wire' = rest \cup (IF flies THEN {} ELSE {[kind |-> "load", q |-> effect.q, ver |-> 0]})
        /\ issued' = issued + 1 /\ last' = effect.q
        /\ crossed' = (crossed \/ write # None)
        /\ UNCHANGED <<table, form, query, selected, counter, joined, write, version, writes,
                       typed, failed>>

Lands(r) ==
    IF table = "tokens" /\ r.q.size # size THEN TokenAnswer(r) ELSE Answer(r)

(* A plausible mistake: calls that share a failed request are not told.    *)
Fails_ForgetsCalls(r, out) ==
    /\ failed' = TRUE
    /\ SpinOff(Answered(r), out)
    /\ wire' = wire \ {r}
    /\ UNCHANGED <<table, box, view, counter, calls, issued, last, joined, write, version, writes,
                   typed, crossed>>

(* The request is refused or fails: fetchDeployments empties its table,    *)
(* the others leave the rows.                                              *)
Fails(r, out) ==
    /\ failed' = TRUE
    /\ shown' = IF table = "deployments" /\ \E c \in Answered(r) : Applies(c)
                THEN None ELSE shown
    /\ SpinOff(Answered(r), out)
    /\ calls' = calls \ Answered(r)
    /\ wire' = wire \ {r}
    /\ UNCHANGED <<table, box, page, size, selected, counter, issued, last, joined, write,
                   version, writes, typed, crossed>>

(***************************************************************************)
(* Row actions.  The continuation of a click holds the state of the render *)
(* in which the click happened.  manageToken and manageUser patch the rows *)
(* of that render and put them back; start, restart, delete and rename of  *)
(* a deployment refresh the page and query of that render.                 *)
(***************************************************************************)
Click ==
    /\ table \in {"tokens", "users", "deployments"}
    /\ write = None /\ shown # None /\ writes < MaxWrites
    /\ writes' = writes + 1
    /\ write' = [kw |-> query, group |-> 0, page |-> page, size |-> size, ver |-> 0,
                 rows |-> shown]
    /\ loading' = (loading \/ table # "deployments")
    /\ UNCHANGED <<table, box, view, searching, net, version, typed, failed, crossed>>

Commit ==
    /\ write # None /\ write.ver = 0
    /\ version' = version + 1
    /\ write' = [write EXCEPT !.ver = version + 1]
    /\ UNCHANGED <<table, box, view, spinners, net, writes, typed, failed, crossed>>

ManageAnswer ==
    /\ table # "deployments" /\ write # None /\ write.ver # 0
    /\ shown' = write.rows
    /\ loading' = FALSE
    /\ write' = None
    /\ UNCHANGED <<table, box, page, size, selected, searching, net, version, writes, typed,
                   failed, crossed>>

(* A plausible mistake: no refresh after the action.                       *)
DeploymentAnswer_NoRefresh ==
    /\ table = "deployments" /\ write # None /\ write.ver # 0
    /\ write' = None
    /\ UNCHANGED <<table, box, view, spinners, net, version, writes, typed, failed, crossed>>

DeploymentAnswer ==
    /\ table = "deployments" /\ write # None /\ write.ver # 0
    /\ Send(DeploymentCall(write.kw, write.page, write.size))
    /\ write' = None
    /\ UNCHANGED <<table, box, view, version, writes, typed, failed, crossed>>

(* The action is refused, or its answer is lost.                           *)
ClickFails(out) ==
    /\ write # None
    /\ out = "refused" => write.ver = 0
    /\ write' = None /\ failed' = TRUE
    /\ loading' = (loading /\ (table = "deployments" \/ out = "error"))
    /\ UNCHANGED <<table, box, view, searching, net, version, writes, typed, crossed>>

Next ==
    \/ \E k \in Keyword : Type(k)
    \/ Search
    \/ \E p \in Page : ChangePage(p)
    \/ \E s \in Size : ChangeSize(s)
    \/ Select
    \/ \E r \in wire : ServerReads(r)
    \/ \E r \in wire : Lands(r)
    \/ \E r \in wire, out \in {"refused", "error"} : Fails(r, out)
    \/ Click \/ Commit \/ ManageAnswer \/ DeploymentAnswer
    \/ \E out \in {"refused", "error"} : ClickFails(out)

Spec == Init /\ [][Next]_vars

(***************************************************************************)
(* Properties.                                                             *)
(***************************************************************************)
Quiet == calls = {} /\ write = None

(* In the hooks that number their requests, when everything is answered    *)
(* the table shows what was asked last, in whatever order the answers      *)
(* came.  (searchChannels is not numbered: as soon as a keyword is used, a *)
(* slow answer may overwrite a later one.)                                 *)
LatestShown ==
    table \in Guarded /\ Quiet /\ ~failed /\ (table = "channels" => ~typed)
        => shown = RowsOf(last, shown.ver)

(* The page number under the table is the page of the rows, at any moment  *)
(* in the task logs and the token table and once everything is answered in *)
(* the user table, unless a row action was under way when other rows came  *)
(* in: its answer puts the old rows back.                                  *)
PageOfRows ==
    /\ table \in {"tokens", "tasks"} /\ shown # None /\ ~crossed => page = shown.page
    /\ table = "users" /\ Quiet /\ ~failed /\ ~crossed => page = shown.page

(* No spinner runs when nothing is awaited.  Without a failure this holds  *)
(* in every table, however calls overlap and supersede each other; the     *)
(* usage logs and the deployments keep it after failures as well.          *)
SpinnerStops ==
    Quiet /\ (failed => table \in {"usage", "deployments"}) => ~loading /\ ~searching

(* After a successful row action the deployments on screen are not older   *)
(* than the action, even if an earlier load is answered after it, except   *)
(* through a load that joined a request the server had read before.        *)
FreshAfterWrite ==
    table = "deployments" /\ Quiet /\ ~failed /\ ~joined => shown.ver = version

(* The selected deployments are rows of the answer that is on screen, or   *)
(* the table was emptied by a failure.                                     *)
SelectionOnScreen == selected # None /\ shown # None => selected = shown
=============================================================================
