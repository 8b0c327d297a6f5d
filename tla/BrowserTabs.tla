---------------------------- MODULE BrowserTabs ----------------------------
(***************************************************************************)
(* Signing in and out of the console in several tabs of one browser.  The  *)
(* session is in a cookie and the signed-in user in localStorage, which    *)
(* all tabs share.  Each tab keeps what it shows (UserContext) and a copy  *)
(* of the user's id in the header of its API instance, which authHelper    *)
(* compares with the session.                                              *)
(***************************************************************************)
EXTENDS Naturals, FiniteSets

CONSTANTS
    Tab, User,
    MaxClicks     \* bound: what users do in all tabs, and expiries

None == "none"
Someone == User \cup {None}

VARIABLES
    cookie,       \* the user of the session
    storage,      \* the item "user" of localStorage
    tabs,         \* per tab: at, page, and what it shows and sends
    calls,        \* the requests in flight
    acted,        \* history: changes made: whom the tab showed, for whom they were made
    crossed,      \* history: tabs that a late answer, or a change while loading, has mixed up
    out,          \* history: tabs whose user has signed out
    clicks

vars == <<cookie, storage, tabs, calls, acted, crossed, out, clicks>>

TypeOK ==
    /\ {cookie, storage} \subseteq Someone
    /\ tabs \in [Tab -> [at : {"loading", "booted", "ready"}, page : {"login", "console"},
                         shown : Someone, header : Someone, guarded : BOOLEAN]]
    /\ calls \subseteq [tab : Tab, kind : {"self", "login", "logout", "write"},
                        st : {"sent", "answered", "refused"}, user : Someone, header : Someone,
                        guarded : BOOLEAN, current : BOOLEAN, stores : BOOLEAN]
    /\ acted \subseteq [shown : Someone, user : User]
    /\ crossed \subseteq Tab /\ out \subseteq Tab /\ clicks \in 0..MaxClicks

Init ==
    /\ cookie = None /\ storage = None
    /\ tabs = [t \in Tab |-> [at |-> "loading", page |-> "console", shown |-> None,
                              header |-> None, guarded |-> TRUE]]
    /\ calls = {} /\ acted = {} /\ crossed = {} /\ out = {} /\ clicks = 0

Ready(t) == tabs[t].at = "ready"
Click == clicks < MaxClicks /\ clicks' = clicks + 1

(***************************************************************************)
(* The server.                                                             *)
(***************************************************************************)

(* A plausible mistake: the header is not compared with the session.       *)
AuthHelper_AnyHeader(session, header) == session # None

(* authHelper; without a user, the header is -1.                           *)
AuthHelper(session, header) == session # None /\ session = header

-----------------------------------------------------------------------------
(* The cookie is valid for thirty days.                                    *)
CookieExpires ==
    /\ cookie # None /\ Click
    /\ cookie' = None
    /\ UNCHANGED <<storage, tabs, calls, acted, crossed, out>>

(* A request of the tab's API instance, with the cookie of that moment.    *)
Request(t, kind, user, stores) ==
    [tab |-> t, kind |-> kind, st |-> "sent", user |-> user, header |-> tabs[t].header,
     guarded |-> tabs[t].guarded, current |-> TRUE, stores |-> stores]

(* A GET that the instance has in flight already is joined.                *)
AskSelf(t, stores) ==
    LET same == {c \in calls : c.tab = t /\ c.kind = "self" /\ c.current}
    IN  IF same = {} THEN calls \cup {Request(t, "self", cookie, stores)}
        ELSE (calls \ same) \cup {[c EXCEPT !.stores = @ \/ stores] : c \in same}

(* updateAPI makes an instance with no interceptors and no requests.       *)
Outdated(t, cs) == {[c EXCEPT !.current = @ /\ c.tab # t] : c \in cs}

(* The page of the tab is loaded anew, its requests are dropped.           *)
Leave(t, page) ==
    /\ tabs' = [tabs EXCEPT ![t].at = "loading", ![t].page = page]
    /\ calls' = {c \in calls : c.tab # t}

(* The scripts run: api.js reads the id for its header.                    *)
Boot(t) ==
    /\ tabs[t].at = "loading"
    /\ tabs' = [tabs EXCEPT ![t].at = "booted", ![t].shown = None, ![t].header = storage,
                            ![t].guarded = TRUE]
    /\ crossed' = crossed \ {t} /\ out' = out \ {t}
    /\ UNCHANGED <<cookie, storage, calls, acted, clicks>>

(* PrivateRoute, and the first effect of PageLayout: loadUser and          *)
(* refreshUser(true).                                                      *)
Mount(t) ==
    /\ tabs[t].at = "booted"
    /\ tabs' = [tabs EXCEPT ![t].at = "ready", ![t].shown = storage,
                            ![t].page = IF storage = None THEN "login" ELSE @]
    /\ calls' = IF storage = None THEN calls ELSE AskSelf(t, TRUE)
    /\ crossed' = IF storage = tabs[t].header THEN crossed ELSE crossed \cup {t}
    /\ UNCHANGED <<cookie, storage, acted, out, clicks>>

(***************************************************************************)
(* What users do.                                                          *)
(***************************************************************************)
Reload(t) ==
    /\ Ready(t) /\ Click /\ Leave(t, tabs[t].page)
    /\ UNCHANGED <<cookie, storage, acted, crossed, out>>

(* Another page of the console, where PrivateRoute lets the user.          *)
Navigate(t) ==
    LET page == IF storage = None THEN "login" ELSE "console"
    IN  /\ Ready(t) /\ tabs[t].shown # None /\ tabs[t].page # page /\ Click
        /\ tabs' = [tabs EXCEPT ![t].page = page]
        /\ UNCHANGED <<cookie, storage, calls, acted, crossed, out>>

(* refreshUser, when the window gets the focus or the route changes.       *)
RefreshUser(t) ==
    /\ Ready(t) /\ storage # None /\ Click
    /\ calls' = AskSelf(t, TRUE)
    /\ UNCHANGED <<cookie, storage, tabs, acted, crossed, out>>

(* getUserQuota of the top-up page: its answer is only shown.              *)
GetUserQuota(t) ==
    /\ Ready(t) /\ tabs[t].page = "console" /\ Click
    /\ calls' = AskSelf(t, FALSE)
    /\ UNCHANGED <<cookie, storage, tabs, acted, crossed, out>>

(* Any change that is the user's own, such as changePassword.              *)
ChangePassword(t) ==
    /\ Ready(t) /\ tabs[t].page = "console" /\ Click
    /\ acted' = IF AuthHelper(cookie, tabs[t].header) /\ t \notin crossed
                THEN acted \cup {[shown |-> tabs[t].shown, user |-> cookie]} ELSE acted
    /\ calls' = calls \cup {Request(t, "write", cookie, FALSE)}
    /\ UNCHANGED <<cookie, storage, tabs, crossed, out>>

(* handleSubmit of LoginForm; its button spins until the answer.           *)
HandleSubmit(t, u) ==
    /\ Ready(t) /\ tabs[t].page = "login" /\ Click
    /\ \A c \in calls : c.tab = t => c.kind # "login"
    /\ calls' = calls \cup {Request(t, "login", u, FALSE)}
    /\ UNCHANGED <<cookie, storage, tabs, acted, crossed, out>>

(* A plausible mistake: the tab goes on showing the user.                  *)
SignedOut_StillShown(t, cs) ==
    /\ storage' = None
    /\ tabs' = [tabs EXCEPT ![t].page = "login"]
    /\ calls' = cs /\ crossed' = crossed \ {t} /\ out' = out \cup {t}

SignedOut(t, cs) ==
    /\ storage' = None
    /\ tabs' = [tabs EXCEPT ![t].shown = None, ![t].page = "login"]
    /\ calls' = cs /\ crossed' = crossed \ {t} /\ out' = out \cup {t}

(* handleLogout of the navigation bar: the session itself stays.           *)
HandleLogout(t) ==
    /\ Ready(t) /\ tabs[t].shown # None /\ Click
    /\ storage' = None
    /\ tabs' = [tabs EXCEPT ![t].shown = None, ![t].page = "login", ![t].header = None,
                            ![t].guarded = FALSE]
    /\ calls' = Outdated(t, calls)
    /\ crossed' = crossed \ {t} /\ out' = out \cup {t}
    /\ UNCHANGED <<cookie, acted>>

(* handleLogout of the personal settings asks the server first.            *)
HandlePersonalLogout(t) ==
    /\ Ready(t) /\ tabs[t].page = "console" /\ Click
    /\ calls' = calls \cup {Request(t, "logout", None, FALSE)}
    /\ UNCHANGED <<cookie, storage, tabs, acted, crossed, out>>

(***************************************************************************)
(* Answers.                                                                *)
(***************************************************************************)

(* Login and Logout answer with a cookie, which is set before the tab's    *)
(* callback runs.  A login may be refused.                                 *)
SetupLogin(c) ==
    /\ c.kind \in {"login", "logout"} /\ c.st = "sent"
    /\ \/ cookie' = c.user /\ calls' = (calls \ {c}) \cup {[c EXCEPT !.st = "answered"]}
       \/ /\ c.kind = "login"
          /\ calls' = (calls \ {c}) \cup {[c EXCEPT !.st = "refused"]}
          /\ UNCHANGED cookie
    /\ UNCHANGED <<storage, tabs, acted, crossed, out, clicks>>

LoginAnswered(c) ==
    /\ c.kind = "login" /\ c.st # "sent"
    /\ IF c.st = "refused"
       THEN calls' = calls \ {c} /\ UNCHANGED <<storage, tabs, crossed, out>>
       ELSE /\ storage' = c.user
            /\ tabs' = [tabs EXCEPT ![c.tab].shown = c.user, ![c.tab].page = "console",
                                    ![c.tab].header = c.user, ![c.tab].guarded = FALSE]
            /\ calls' = Outdated(c.tab, calls \ {c})
            /\ crossed' = crossed \ {c.tab} /\ out' = out \ {c.tab}
    /\ UNCHANGED <<cookie, acted, clicks>>

(* The answer to the logout, or its failure.                               *)
LogoutAnswered(c) ==
    /\ c.kind = "logout"
    /\ SignedOut(c.tab, calls \ {c})
    /\ UNCHANGED <<cookie, acted, clicks>>

(* The record of the user whose request it was: shown, and mostly stored,  *)
(* also when somebody else has signed in meanwhile, or nobody is any more. *)
SelfAnswered(c) ==
    /\ c.kind = "self" /\ AuthHelper(c.user, c.header)
    /\ tabs' = [tabs EXCEPT ![c.tab].shown = c.user]
    /\ storage' = IF c.stores THEN c.user ELSE storage
    /\ calls' = calls \ {c}
    /\ crossed' = IF tabs[c.tab].header = c.user /\ c.tab \notin out THEN crossed
                  ELSE crossed \cup {c.tab}
    /\ UNCHANGED <<cookie, acted, out, clicks>>

(* 401: the interceptor of the first instance forgets the user and loads   *)
(* the login page; later instances have none.                              *)
Unauthorized(c) ==
    /\ c.kind \in {"self", "write"} /\ ~AuthHelper(c.user, c.header)
    /\ IF c.guarded THEN storage' = None /\ Leave(c.tab, "login")
       ELSE calls' = calls \ {c} /\ UNCHANGED <<storage, tabs>>
    /\ UNCHANGED <<cookie, acted, crossed, out, clicks>>

(* Answered with no effect here, or lost.                                  *)
RequestEnds(c) ==
    /\ c.kind # "logout" /\ c.st = "sent"
    /\ calls' = calls \ {c}
    /\ UNCHANGED <<cookie, storage, tabs, acted, crossed, out, clicks>>

Next ==
    \/ \E t \in Tab : \/ Boot(t) \/ Mount(t) \/ Reload(t) \/ Navigate(t) \/ RefreshUser(t)
                      \/ GetUserQuota(t) \/ ChangePassword(t) \/ HandleLogout(t)
                      \/ HandlePersonalLogout(t) \/ \E u \in User : HandleSubmit(t, u)
    \/ CookieExpires
    \/ \E c \in calls : \/ SetupLogin(c) \/ LoginAnswered(c) \/ LogoutAnswered(c)
                        \/ SelfAnswered(c) \/ Unauthorized(c) \/ RequestEnds(c)

Spec == Init /\ [][Next]_vars

(***************************************************************************)
(* Properties.                                                             *)
(***************************************************************************)

(* However users sign in and out in the tabs of a browser, what is done in *)
(* a tab is done for the user it shows.  Not where the tab had asked for   *)
(* its user before a sign-in or sign-out and was answered after it, or     *)
(* read its header and its user around another tab's sign-in.              *)
ActsAsShown == \A a \in acted : a.shown = a.user

(* After a sign-out a tab shows nobody until somebody signs in there, with *)
(* the same exception.                                                     *)
SignOutShown == \A t \in out : tabs[t].shown = None \/ t \in crossed
=============================================================================
