---------------------------- MODULE StreamScanner ----------------------------
(***************************************************************************)
(* StreamScannerHandler: one call relays one upstream stream.  It runs as  *)
(* a loop that waits, a scanner that reads the upstream, a data handler    *)
(* and a pinger with its short-lived writers.  All of them end by way of   *)
(* one buffered channel of stop tokens, which whoever comes first takes.   *)
(*                                                                         *)
(* A timer may fire at any moment, and a line is one that carries data.    *)
(***************************************************************************)
EXTENDS Naturals

CONSTANTS
    MaxLines,     \* bound: lines of the upstream
    DataCap       \* bound: capacity of dataChan, 10 in the code

VARIABLES
    main,         \* the loop and its deferred clean-up
    scanner, handler, ping, writer,   \* the goroutines
    pong,         \* the result of the ping's writer
    mutex,        \* who holds writeMutex
    tokens, stopClosed,               \* stopChan
    buffer, dataClosed,               \* dataChan
    ctxDone,      \* the call's own context was cancelled
    bodyClosed,
    client,       \* the client is connected
    received, handled,                \* lines read, lines given to dataHandler
    ended,        \* the scanner saw the end of the upstream
    refused,      \* history: dataHandler returned false or panicked
    timedOut,     \* history: the streaming timeout or the drain deadline
    overdue       \* history: the clean-up did not wait for the goroutines any longer

chans == <<tokens, stopClosed, buffer, dataClosed>>
procs == <<main, scanner, handler, ping, writer, pong, mutex>>
world == <<ctxDone, bodyClosed, client>>
counts == <<received, handled, ended>>
history == <<refused, timedOut, overdue>>
vars == <<procs, chans, world, counts, history>>

TypeOK ==
    /\ main \in {"select", "notify", "wait", "returned"}
    /\ scanner \in {"scan", "check", "send", "exit", "gone"}
    /\ handler \in {"range", "lock", "handle", "exit", "gone"}
    /\ ping \in {"select", "writing", "gone"} /\ writer \in {"none", "lock", "write"}
    /\ pong \in {"none", "ok", "err"} /\ mutex \in {"free", "handler", "writer"}
    /\ tokens \in 0..3 /\ buffer \in 0..DataCap
    /\ {stopClosed, dataClosed, ctxDone, bodyClosed, client, ended, refused, timedOut,
        overdue} \subseteq BOOLEAN
    /\ received \in 0..MaxLines /\ handled \in 0..MaxLines

(* Pings may be switched off.                                              *)
Init ==
    /\ main = "select" /\ scanner = "scan" /\ handler = "range"
    /\ ping \in {"select", "gone"} /\ writer = "none" /\ pong = "none" /\ mutex = "free"
    /\ tokens = 0 /\ stopClosed = FALSE /\ buffer = 0 /\ dataClosed = FALSE
    /\ ctxDone = FALSE /\ bodyClosed = FALSE /\ client = TRUE
    /\ received = 0 /\ handled = 0 /\ ended = FALSE
    /\ refused = FALSE /\ timedOut = FALSE /\ overdue = FALSE

(***************************************************************************)
(* stopChan.  A send blocks while the channel is full; on a closed channel *)
(* it panics, and SafeSendBool recovers.                                   *)
(***************************************************************************)

(* A plausible mistake: the channel has no room for everyone's token.      *)
StopCap_Two == 2

StopCap == 3

CanSend == tokens < StopCap \/ stopClosed

SafeSendBool ==
    /\ CanSend
    /\ tokens' = IF stopClosed THEN tokens ELSE tokens + 1

Stopped == tokens > 0 \/ stopClosed

TakeStop ==
    /\ Stopped
    /\ tokens' = IF tokens > 0 THEN tokens - 1 ELSE 0

(***************************************************************************)
(* The loop.                                                               *)
(***************************************************************************)
ClientLeaves ==
    /\ client
    /\ client' = FALSE
    /\ UNCHANGED <<procs, chans, ctxDone, bodyClosed, counts, history>>

(* A plausible mistake: the loop returns when the client has gone.         *)
Return_Client ==
    /\ main = "select"
    /\ \/ TakeStop /\ UNCHANGED timedOut
       \/ ~client /\ UNCHANGED <<timedOut, tokens>>
       \/ timedOut' = TRUE /\ UNCHANGED tokens
    /\ main' = "notify"
    /\ ctxDone' = TRUE
    /\ UNCHANGED <<scanner, handler, ping, writer, pong, mutex, stopClosed, buffer, dataClosed,
                   bodyClosed, client, counts, refused, overdue>>

(* The loop returns, and the first deferred call cancels the context: on a *)
(* stop token or the streaming timeout, which becomes due when nothing was *)
(* read for a while.  A client that leaves only adds the drain deadline:   *)
(* the upstream is read on for what it says of usage.                      *)
Return ==
    /\ main = "select"
    /\ \/ TakeStop /\ UNCHANGED timedOut
       \/ timedOut' = TRUE /\ UNCHANGED tokens
    /\ main' = "notify"
    /\ ctxDone' = TRUE
    /\ UNCHANGED <<scanner, handler, ping, writer, pong, mutex, stopClosed, buffer, dataClosed,
                   bodyClosed, client, counts, refused, overdue>>

Notify ==
    /\ main = "notify"
    /\ SafeSendBool
    /\ main' = "wait"
    /\ UNCHANGED <<scanner, handler, ping, writer, pong, mutex, stopClosed, buffer, dataClosed,
                   world, counts, history>>

(* A plausible mistake: the data handler is not in the wait group.         *)
AllDone_NotHandler == scanner \in {"exit", "gone"} /\ ping = "gone"

(* The wait group: every goroutine leaves it before its last token.        *)
AllDone == scanner \in {"exit", "gone"} /\ handler \in {"exit", "gone"} /\ ping = "gone"

(* The clean-up waits for at most five seconds and closes channel and body.*)
Cleanup ==
    /\ main = "wait"
    /\ overdue' = ~AllDone
    /\ stopClosed' = TRUE
    /\ bodyClosed' = TRUE
    /\ main' = "returned"
    /\ UNCHANGED <<scanner, handler, ping, writer, pong, mutex, tokens, buffer, dataClosed, ctxDone,
                   client, counts, refused, timedOut>>

Main == Return \/ Notify \/ Cleanup

(***************************************************************************)
(* The scanner.                                                            *)
(***************************************************************************)
ScanLine ==
    /\ scanner = "scan" /\ ~bodyClosed /\ received < MaxLines
    /\ received' = received + 1
    /\ scanner' = "check"
    /\ UNCHANGED <<main, handler, ping, writer, pong, mutex, chans, world, handled, ended, history>>

Stop ==
    /\ scanner' = "exit"
    /\ dataClosed' = TRUE

(* [DONE], the end or an error of the upstream; or its body was closed.    *)
ScanEnds ==
    /\ scanner = "scan"
    /\ ended' = (ended \/ ~bodyClosed)
    /\ Stop
    /\ UNCHANGED <<main, handler, ping, writer, pong, mutex, tokens, stopClosed, buffer, world,
                   received, handled, history>>

(* Between two lines it looks for the end of the call, not of the client.  *)
Check ==
    /\ scanner = "check"
    /\ \/ TakeStop /\ Stop
       \/ ctxDone /\ Stop /\ UNCHANGED tokens
       \/ ~Stopped /\ ~ctxDone /\ scanner' = "send" /\ UNCHANGED <<tokens, dataClosed>>
    /\ UNCHANGED <<main, handler, ping, writer, pong, mutex, stopClosed, buffer, world, counts,
                   history>>

(* A plausible mistake: the send does not watch for the end of the call.   *)
Send_Blindly ==
    /\ scanner = "send"
    /\ buffer < DataCap
    /\ buffer' = buffer + 1 /\ scanner' = "scan"
    /\ UNCHANGED <<main, handler, ping, writer, pong, mutex, tokens, stopClosed, dataClosed, world,
                   counts, history>>

(* The line goes into dataChan, which may be full.                         *)
Send ==
    /\ scanner = "send"
    /\ \/ /\ buffer < DataCap
          /\ buffer' = buffer + 1 /\ scanner' = "scan"
          /\ UNCHANGED <<tokens, dataClosed>>
       \/ ctxDone /\ Stop /\ UNCHANGED <<tokens, buffer>>
       \/ TakeStop /\ Stop /\ UNCHANGED buffer
    /\ UNCHANGED <<main, handler, ping, writer, pong, mutex, stopClosed, world, counts, history>>

(* A plausible mistake: the scanner ends without a token.                  *)
ScannerExits_Silent ==
    /\ scanner = "exit"
    /\ scanner' = "gone"
    /\ UNCHANGED <<main, handler, ping, writer, pong, mutex, chans, world, counts, history>>

ScannerExits ==
    /\ scanner = "exit"
    /\ SafeSendBool
    /\ scanner' = "gone"
    /\ UNCHANGED <<main, handler, ping, writer, pong, mutex, stopClosed, buffer, dataClosed, world,
                   counts, history>>

(* What the scanner does by itself; the upstream may be silent.            *)
Scanner == Check \/ Send \/ ScannerExits \/ (bodyClosed /\ ScanEnds)

(***************************************************************************)
(* The data handler.                                                       *)
(***************************************************************************)
TakeLine ==
    /\ handler = "range"
    /\ \/ buffer > 0 /\ buffer' = buffer - 1 /\ handler' = "lock"
       \/ buffer = 0 /\ dataClosed /\ handler' = "exit" /\ UNCHANGED buffer
    /\ UNCHANGED <<main, scanner, ping, writer, pong, mutex, tokens, stopClosed, dataClosed, world,
                   counts, history>>

HandlerLocks ==
    /\ handler = "lock" /\ mutex = "free"
    /\ mutex' = "handler" /\ handler' = "handle"
    /\ UNCHANGED <<main, scanner, ping, writer, pong, chans, world, counts, history>>

(* dataHandler: it goes on, it returns false, or it panics and leaves      *)
(* writeMutex locked.                                                      *)
DataHandler ==
    /\ handler = "handle"
    /\ handled' = handled + 1
    /\ \/ handler' = "range" /\ mutex' = "free" /\ UNCHANGED refused
       \/ handler' = "exit" /\ mutex' \in {"free", "handler"} /\ refused' = TRUE
    /\ UNCHANGED <<main, scanner, ping, writer, pong, chans, world, received, ended, timedOut,
                   overdue>>

HandlerExits ==
    /\ handler = "exit"
    /\ SafeSendBool
    /\ handler' = "gone"
    /\ UNCHANGED <<main, scanner, ping, writer, pong, mutex, stopClosed, buffer, dataClosed, world,
                   counts, history>>

Handler == TakeLine \/ HandlerLocks \/ DataHandler \/ HandlerExits

(***************************************************************************)
(* The pinger.  Each ping is written by a goroutine of its own, which is   *)
(* not in the wait group.                                                  *)
(***************************************************************************)
PingTick ==
    /\ ping = "select" /\ main \in {"select", "notify"}
    /\ ping' = "writing" /\ writer' = "lock"
    /\ UNCHANGED <<main, scanner, handler, pong, mutex, chans, world, counts, history>>

WriterLocks ==
    /\ writer = "lock" /\ mutex = "free"
    /\ mutex' = "writer" /\ writer' = "write"
    /\ UNCHANGED <<main, scanner, handler, ping, pong, chans, world, counts, history>>

(* PingData fails when the client has gone, or in the write.               *)
PingData ==
    /\ writer = "write"
    /\ writer' = "none" /\ mutex' = "free"
    /\ \/ ping # "writing" /\ UNCHANGED pong
       \/ ping = "writing" /\ pong' \in {"err"} \cup (IF client THEN {"ok"} ELSE {})
    /\ UNCHANGED <<main, scanner, handler, ping, chans, world, counts, history>>

Pinged ==
    /\ ping = "writing" /\ pong # "none"
    /\ ping' = IF pong = "ok" THEN "select" ELSE "gone"
    /\ pong' = "none"
    /\ UNCHANGED <<main, scanner, handler, writer, mutex, chans, world, counts, history>>

(* It ends with the call or the client, after ten seconds in one ping and  *)
(* after half an hour, and on a token, which may be anyone's.              *)
PingEnds ==
    /\ ping \in {"select", "writing"}
    /\ ping' = "gone" /\ pong' = "none"
    /\ TakeStop \/ UNCHANGED tokens
    /\ UNCHANGED <<main, scanner, handler, writer, mutex, stopClosed, buffer, dataClosed, world,
                   counts, history>>

(* What the goroutines do by themselves: neither the upstream nor the      *)
(* ping's ticker.                                                          *)
Goroutines == Scanner \/ Handler \/ WriterLocks \/ PingData \/ Pinged \/ PingEnds

-----------------------------------------------------------------------------
Next ==
    \/ Main \/ ClientLeaves
    \/ ScanLine \/ ScanEnds \/ Check \/ Send \/ ScannerExits
    \/ Handler
    \/ PingTick \/ WriterLocks \/ PingData \/ Pinged \/ PingEnds

Spec == Init /\ [][Next]_vars

-----------------------------------------------------------------------------
(* When the call returns, the upstream was read to its end and every line  *)
(* of it was given to dataHandler, also the lines that came after the      *)
(* client had left: the usage in the last one is not lost.  Unless         *)
(* dataHandler refused, a timeout struck, or handling the rest took longer *)
(* than the clean-up waits.                                                *)
ReadToTheEnd ==
    main = "returned" /\ ~refused /\ ~timedOut /\ ~overdue =>
        ended /\ handled = received /\ buffer = 0

(* When the call returns, dataHandler is not called any more and nobody    *)
(* reads the body, unless the clean-up gave up waiting.  (The writer of a  *)
(* ping may still write.)                                                  *)
QuietAfterReturn ==
    main = "returned" /\ ~overdue =>
        handler \in {"exit", "gone"} /\ scanner \in {"exit", "gone"}

(* Nobody waits to put a token into stopChan: it has room for one of each. *)
RoomForTokens ==
    main = "notify" \/ scanner = "exit" \/ handler = "exit" => CanSend

(* The end of the upstream reaches the loop without a timeout: however the *)
(* others take tokens, one is left for it or is still to come.             *)
EndAnnounced ==
    main = "select" /\ ended /\ scanner = "gone" => tokens > 0 \/ handler # "gone"

(* The four together: a stream is relayed completely and ends cleanly.     *)
StreamComplete == ReadToTheEnd /\ QuietAfterReturn /\ RoomForTokens /\ EndAnnounced

(* The call returns, and then all its goroutines end, except the writer of *)
(* a ping behind a mutex that a panic left locked.                         *)
Gone ==
    /\ main = "returned" /\ scanner = "gone" /\ handler = "gone" /\ ping = "gone"
    /\ writer = "none" \/ refused
=============================================================================
