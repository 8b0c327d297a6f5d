---------------------------- MODULE DesktopShell ----------------------------
(***************************************************************************)
(* The Electron main process (electron/main.js): it spawns the server      *)
(* binary, probes its port until it answers, opens the window and the tray *)
(* icon, keeps running when the window is closed, tells the user when the  *)
(* server crashes, and takes the server down with it when it quits.  A     *)
(* step is one callback of the event loop.                                 *)
(***************************************************************************)
EXTENDS Naturals

CONSTANTS
    MaxRetries     \* checkServerAvailability gives up after so many probes

VARIABLES
    mode,        \* [dev, mac]: development mode; running on macOS
    server,      \* the server: a process, or in dev mode the one started by hand
    handle,      \* serverProcess is not null
    closing,     \* exit code of a 'close' event that is not delivered yet
    attempt,     \* currentAttempt
    probes,      \* requests in flight
    timers,      \* pending setTimeout(tryConnect)
    startup,     \* the promise of startServer
    window,      \* mainWindow
    orphans,     \* windows that mainWindow no longer points to
    tray,
    isQuitting,
    crashDialog, \* the dialog of the 'close' handler
    startDialog, \* the dialog of a failed start
    deadline,    \* the 5 second timer of before-quit is running
    closer,      \* before-quit has added its own 'close' handler
    killed,      \* SIGKILL was sent
    app

probing == <<attempt, probes, timers>>
process == <<server, handle, closing, killed>>
screen == <<window, orphans, tray>>
quitting == <<isQuitting, deadline, closer, app>>
dialogs == <<crashDialog, startDialog>>
vars == <<mode, probing, process, screen, quitting, dialogs, startup>>

Dialog == {"none", "ask", "log", "gone"}

(* A timeout leaves two retries behind, see Timeout: every probe of the    *)
(* first MaxRetries may.                                                   *)
MaxAttempts == 2 * MaxRetries

TypeOK ==
    /\ mode \in [dev : BOOLEAN, mac : BOOLEAN]
    /\ server \in {"none", "starting", "listening", "exited"}
    /\ closing \in {"none", "zero", "error"}
    /\ attempt \in 0..MaxAttempts
    /\ probes \in 0..MaxAttempts /\ timers \in 0..MaxAttempts
    /\ startup \in {"idle", "waiting", "resolved", "rejected"}
    /\ window \in {"none", "shown", "hidden"}
    /\ orphans \in 0..1
    /\ crashDialog \in Dialog /\ startDialog \in Dialog
    /\ app \in {"up", "exited"}
    /\ {handle, tray, isQuitting, deadline, closer, killed} \subseteq BOOLEAN

Init ==
    /\ mode \in [dev : BOOLEAN, mac : BOOLEAN]
    /\ server = IF mode.dev THEN "starting" ELSE "none"
    /\ handle = FALSE /\ closing = "none" /\ killed = FALSE
    /\ attempt = 0 /\ probes = 0 /\ timers = 0
    /\ startup = "idle"
    /\ window = "none" /\ orphans = 0 /\ tray = FALSE
    /\ isQuitting = FALSE /\ deadline = FALSE /\ closer = FALSE /\ app = "up"
    /\ crashDialog = "none" /\ startDialog = "none"

(***************************************************************************)
(* createWindow: mainWindow points to the new window.                      *)
(***************************************************************************)
CreateWindow ==
    /\ window' = "shown"
    /\ orphans' = IF window = "none" THEN orphans ELSE orphans + 1

(* The 'close' and 'closed' handlers of the window: without isQuitting the *)
(* window is only hidden.                                                  *)
CloseWindow ==
    window' = IF window = "none" \/ isQuitting THEN "none" ELSE "hidden"

(* startServer was answered: the rest of whenReady.                        *)
Resolve ==
    IF startup = "waiting"
    THEN /\ startup' = "resolved"
         /\ tray' = TRUE
         /\ CreateWindow
         /\ UNCHANGED startDialog
    ELSE UNCHANGED <<startup, screen, startDialog>>

(* A plausible mistake: the window is opened although the start failed.    *)
Reject_OpensWindow ==
    /\ IF startup = "waiting"
       THEN startup' = "rejected" /\ startDialog' = "ask" /\ window' = "shown"
       ELSE UNCHANGED <<startup, startDialog, window>>
    /\ UNCHANGED <<orphans, tray>>

(* startServer failed: the catch of whenReady asks the user, with advice   *)
(* when analyzeError knows the error.                                      *)
Reject ==
    /\ IF startup = "waiting"
       THEN startup' = "rejected" /\ startDialog' = "ask"
       ELSE UNCHANGED <<startup, startDialog>>
    /\ UNCHANGED screen

(***************************************************************************)
(* app.whenReady: startServer spawns the binary and starts to probe; in    *)
(* dev mode it only probes.  A binary that cannot be spawned raises        *)
(* 'error', and 'close' with a negative code after it.                     *)
(***************************************************************************)
WhenReady ==
    /\ app = "up" /\ startup = "idle"
    /\ startup' = "waiting"
    /\ attempt' = 1 /\ probes' = 1
    /\ IF mode.dev THEN UNCHANGED process
                   ELSE /\ handle' = TRUE /\ server' = "starting"
                        /\ UNCHANGED <<closing, killed>>
    /\ UNCHANGED <<mode, timers, screen, quitting, dialogs>>

SpawnError ==
    /\ app = "up" /\ ~mode.dev /\ startup = "waiting" /\ attempt = 1
    /\ server = "starting"
    /\ server' = "exited" /\ closing' = "error"
    /\ Reject
    /\ UNCHANGED <<mode, probing, handle, killed, quitting, crashDialog>>

(***************************************************************************)
(* checkServerAvailability.  The counter is shared by every chain of       *)
(* retries.  On a timeout req.destroy() raises 'error' as well, and both   *)
(* handlers schedule a retry.                                              *)
(***************************************************************************)

(* Whatever has the port answers: the server, or another program.          *)
Connected ==
    /\ app = "up" /\ probes > 0
    /\ probes' = probes - 1
    /\ Resolve
    /\ UNCHANGED <<mode, attempt, timers, process, quitting, crashDialog>>

(* A plausible mistake: the retries are not counted.                       *)
ProbeFails_NeverGivesUp(retries) ==
    /\ app = "up" /\ probes > 0
    /\ probes' = probes - 1
    /\ timers' = timers + retries
    /\ UNCHANGED <<mode, attempt, process, quitting, dialogs, startup, screen>>

(* A plausible mistake: after the last retry nobody rejects the promise.   *)
ProbeFails_NoReject(retries) ==
    /\ app = "up" /\ probes > 0
    /\ probes' = probes - 1
    /\ timers' = IF attempt >= MaxRetries THEN timers ELSE timers + retries
    /\ UNCHANGED <<mode, attempt, process, quitting, dialogs, startup, screen>>

ProbeFails(retries) ==
    /\ app = "up" /\ probes > 0
    /\ probes' = probes - 1
    /\ IF attempt >= MaxRetries
       THEN Reject /\ UNCHANGED timers
       ELSE timers' = timers + retries /\ UNCHANGED <<startup, startDialog, screen>>
    /\ UNCHANGED <<mode, attempt, process, quitting, crashDialog>>

Refused == server # "listening" /\ ProbeFails(1)

Timeout == ProbeFails(2)

TryConnect ==
    /\ app = "up" /\ timers > 0
    /\ timers' = timers - 1
    /\ attempt' = attempt + 1 /\ probes' = probes + 1
    /\ UNCHANGED <<mode, process, screen, quitting, dialogs, startup>>

(***************************************************************************)
(* The server itself: it comes up, and it may exit at any time, killed by  *)
(* a signal (no code), with code 0, or with another code.                  *)
(***************************************************************************)
ServerListens ==
    /\ server = "starting"
    /\ server' = "listening"
    /\ UNCHANGED <<mode, probing, handle, closing, killed, screen, quitting, dialogs, startup>>

ServerExits ==
    /\ handle /\ server \in {"starting", "listening"}
    /\ server' = "exited"
    /\ closing' \in {"zero", "error"}
    /\ UNCHANGED <<mode, probing, handle, killed, screen, quitting, dialogs, startup>>

(* A plausible mistake: no deadline for a server that ignores SIGTERM.     *)
Quit_NoDeadline(q) ==
    /\ isQuitting' = q
    /\ IF handle
       THEN closer' = TRUE /\ UNCHANGED <<deadline, app, screen>>
       ELSE /\ app' = IF q THEN "exited" ELSE app
            /\ UNCHANGED <<deadline, closer, screen>>

(* before-quit.  With a server: the quit is refused, the server gets       *)
(* SIGTERM, and the application exits when the server has closed or after  *)
(* 5 seconds.  Without one the quit goes on and closes the windows, which  *)
(* refuse unless isQuitting is set.                                        *)
Quit(q) ==
    /\ isQuitting' = q
    /\ IF handle
       THEN /\ deadline' = TRUE /\ closer' = TRUE
            /\ UNCHANGED <<app, screen>>
       ELSE /\ IF q \/ (window = "none" /\ orphans = 0)
               THEN app' = "exited" /\ window' = "none" /\ orphans' = 0
               ELSE /\ window' = IF window = "none" THEN "none" ELSE "hidden"
                    /\ UNCHANGED <<app, orphans>>
            /\ UNCHANGED <<deadline, closer, tray>>

(* The 'close' event: first the handler of startServer, then the one of    *)
(* before-quit.                                                            *)
ServerClosed ==
    /\ app = "up" /\ closing # "none"
    /\ closing' = "none"
    /\ IF closing = "error"
       THEN crashDialog' = "ask" /\ UNCHANGED window
       ELSE CloseWindow /\ UNCHANGED crashDialog
    /\ IF closer THEN handle' = FALSE /\ app' = "exited"
                 ELSE UNCHANGED <<handle, app>>
    /\ UNCHANGED <<mode, probing, server, killed, orphans, tray, isQuitting, deadline,
                   closer, startDialog, startup>>

(* A plausible mistake: the deadline exits without killing.                *)
KillDeadline_NoKill ==
    /\ app = "up" /\ deadline
    /\ deadline' = FALSE /\ app' = "exited"
    /\ UNCHANGED <<mode, probing, process, screen, isQuitting, closer, dialogs, startup>>

KillDeadline ==
    /\ app = "up" /\ deadline
    /\ killed' = handle
    /\ deadline' = FALSE /\ app' = "exited"
    /\ UNCHANGED <<mode, probing, server, handle, closing, screen, isQuitting, closer, dialogs, startup>>

(***************************************************************************)
(* The user.  The dialogs offer to quit or to see the log first; the one   *)
(* of a failed start quits without setting isQuitting.                     *)
(***************************************************************************)
AnswerCrash ==
    /\ app = "up"
    /\ \/ /\ crashDialog = "ask"
          /\ crashDialog' = "log"
          /\ UNCHANGED <<quitting, screen>>
       \/ /\ crashDialog \in {"ask", "log"}
          /\ crashDialog' = "gone"
          /\ Quit(TRUE)
    /\ UNCHANGED <<mode, probing, process, startDialog, startup>>

AnswerStart ==
    /\ app = "up"
    /\ \/ /\ startDialog = "ask"
          /\ startDialog' = "log"
          /\ UNCHANGED <<quitting, screen>>
       \/ /\ startDialog \in {"ask", "log"}
          /\ startDialog' = "gone"
          /\ Quit(isQuitting)
    /\ UNCHANGED <<mode, probing, process, crashDialog, startup>>

TrayQuit ==
    /\ app = "up" /\ tray
    /\ Quit(TRUE)
    /\ UNCHANGED <<mode, probing, process, dialogs, startup>>

(* The quit item of the menu Electron installs by itself.                  *)
MenuQuit ==
    /\ app = "up" /\ startup # "idle"
    /\ window = "shown" \/ mode.mac
    /\ Quit(isQuitting)
    /\ UNCHANGED <<mode, probing, process, dialogs, startup>>

(* The tray menu and the tray icon.                                        *)
TrayShow ==
    /\ app = "up" /\ tray
    /\ IF window = "none" THEN CreateWindow
                          ELSE window' = "shown" /\ UNCHANGED orphans
    /\ UNCHANGED <<mode, probing, process, tray, quitting, dialogs, startup>>

TrayClick ==
    /\ app = "up" /\ tray
    /\ \/ window = "none" /\ CreateWindow
       \/ window = "shown" /\ window' = "hidden" /\ UNCHANGED orphans
       \/ window = "hidden" /\ window' = "shown" /\ UNCHANGED orphans
    /\ UNCHANGED <<mode, probing, process, tray, quitting, dialogs, startup>>

(* The window is closed by the user.  The handler of an orphan hides the   *)
(* window that mainWindow points to.                                       *)
UserCloses ==
    /\ app = "up"
    /\ window = "shown" \/ (orphans > 0 /\ window # "none" /\ ~isQuitting)
    /\ CloseWindow
    /\ UNCHANGED <<mode, probing, process, orphans, tray, quitting, dialogs, startup>>

(* macOS: the dock icon is clicked and the application has no window.      *)
Activate ==
    /\ app = "up" /\ mode.mac /\ startup # "idle"
    /\ window = "none" /\ orphans = 0
    /\ CreateWindow
    /\ UNCHANGED <<mode, probing, process, tray, quitting, dialogs, startup>>

Probing == Connected \/ Refused \/ Timeout \/ TryConnect
User == \/ AnswerCrash \/ AnswerStart \/ TrayQuit \/ MenuQuit
        \/ TrayShow \/ TrayClick \/ UserCloses \/ Activate

Next ==
    \/ WhenReady \/ SpawnError
    \/ Connected \/ Refused \/ Timeout \/ TryConnect
    \/ ServerListens \/ ServerExits \/ ServerClosed \/ KillDeadline
    \/ AnswerCrash \/ AnswerStart \/ TrayQuit \/ MenuQuit
    \/ TrayShow \/ TrayClick \/ UserCloses \/ Activate

Spec == Init /\ [][Next]_vars

(***************************************************************************)
(* Properties.                                                             *)
(***************************************************************************)

(* When the application has exited, the server it spawned has exited too   *)
(* or was sent SIGKILL: whichever way the user quits, and whether or not   *)
(* the server heeds SIGTERM, none is left running.                         *)
NoServerLeft == app = "exited" /\ handle => server = "exited" \/ killed

(* Outside macOS a window is only opened once a probe of the port was      *)
(* answered, and never without the tray icon that brings a hidden window   *)
(* back.  (On macOS Activate may open one before.  The probe does not ask  *)
(* who answers.)                                                           *)
WindowHasServer ==
    ~mode.mac /\ window # "none" => startup = "resolved" /\ tray

(* startServer is answered: the probes find the server or give up, however *)
(* many chains of retries the timeouts have left.                          *)
StartupSettles == []<>(startup # "waiting" \/ app = "exited")

(* Once isQuitting is set the application ends, even when the server       *)
(* ignores SIGTERM and when it had died before: then no 'close' event      *)
(* comes any more and only the 5 second timer ends it.                     *)
QuitEnds == []<>(isQuitting => app = "exited")
=============================================================================
