----------------------------- MODULE MCWaiting -----------------------------
(***************************************************************************)
(* Parts of the system that wait for something, side by side: the desktop  *)
(* shell, the model test dialog, the Alipay dialog, the chat with the      *)
(* Clawd agent, the server's stream scanner, and its rate limits.  They    *)
(* share no state, and a behaviour is about one of them: "part".           *)
(***************************************************************************)
EXTENDS Naturals, Sequences, FiniteSets

CONSTANTS MaxRetries, Models, Limit, Loop, MaxTests, MaxOrders, MaxAsks,
          MaxSessions, MaxPieces, MaxLines, DataCap,
          Request, MaxNum, Duration, Expiry, MaxTime

(* A limit lets something through, and lists are kept for the window       *)
(* (RateLimitKeyExpirationDuration in common/constants.go).                *)
ASSUME LimitAssumption ==
    /\ IsFiniteSet(Request) /\ Request # {}
    /\ MaxNum \in Nat \ {0} /\ Duration \in Nat \ {0} /\ MaxTime \in Nat
    /\ Expiry \in Nat /\ Expiry >= Duration

(* The bounds of the other parts: something happens.                       *)
ASSUME PartsAssumption ==
    /\ MaxRetries \in Nat \ {0} /\ MaxOrders \in Nat /\ MaxTests \in Nat
    /\ Len(Models) \in Nat /\ DOMAIN Models = 1..Len(Models) /\ Limit \in Nat \ {0}
    /\ MaxAsks \in Nat /\ MaxSessions \in Nat \ {0} /\ MaxPieces \in Nat
    /\ MaxLines \in Nat /\ DataCap \in Nat

VARIABLES
    part,
    mode, server, handle, closing, attempt, probes, timers, startup, window, orphans, tray,
    isQuitting, crashDialog, startDialog, deadline, closer, killed, app,
    open, batching, stop, loops, tests, testing, results, singles, stopped, overlapped,
    visible, step, status, tradeNo, timer, polling, refreshing, strayed, opening, cancelled,
    renewing, polls, orders, next,
    chatOpen, dot, seen, session, messages, loading, streaming, abortRef, run, wire, agents,
    aborted, asks, silent, lost, crossed,
    main, scanner, handler, ping, writer, pong, mutex, tokens, stopClosed, buffer, dataClosed,
    ctxDone, bodyClosed, client, received, handled, ended, refused, timedOut, overdue,
    limiter, now, list, expires, bucket, at, oldest, passed, early

Shell == INSTANCE DesktopShell
Tests == INSTANCE ChannelTest
Qr == INSTANCE AlipayQR
Chat == INSTANCE ClawdChat WITH open <- chatOpen
Stream == INSTANCE StreamScanner
Limits == INSTANCE RateLimit

shell == <<mode, server, handle, closing, attempt, probes, timers, startup, window, orphans, tray,
           isQuitting, crashDialog, startDialog, deadline, closer, killed, app>>
test == <<open, batching, stop, loops, tests, testing, results, singles, stopped, overlapped>>
qr == <<visible, step, status, tradeNo, timer, polling, refreshing, strayed, opening, cancelled,
        renewing, polls, orders, next>>
chat == <<chatOpen, dot, seen, session, messages, loading, streaming, abortRef, run, wire, agents,
          aborted, asks, silent, lost, crossed>>
stream == <<main, scanner, handler, ping, writer, pong, mutex, tokens, stopClosed, buffer,
            dataClosed, ctxDone, bodyClosed, client, received, handled, ended, refused, timedOut,
            overdue>>
limit == <<limiter, now, list, expires, bucket, at, oldest, passed, early>>
vars == <<part, shell, test, qr, chat, stream, limit>>

Init ==
    /\ part \in {"shell", "test", "qr", "chat", "stream", "limit"}
    /\ Shell!Init /\ Tests!Init /\ Qr!Init /\ Chat!Init /\ Stream!Init /\ Limits!Init
    /\ part # "shell" => ~mode.dev /\ ~mode.mac
    /\ part # "stream" => ping = "gone"
    /\ part # "limit" => limiter = "memory"

OfShell(A) == part = "shell" /\ A /\ UNCHANGED <<part, test, qr, chat, stream, limit>>
OfTest(A) == part = "test" /\ A /\ UNCHANGED <<part, shell, qr, chat, stream, limit>>
OfQr(A) == part = "qr" /\ A /\ UNCHANGED <<part, shell, test, chat, stream, limit>>
OfChat(A) == part = "chat" /\ A /\ UNCHANGED <<part, shell, test, qr, stream, limit>>
OfStream(A) == part = "stream" /\ A /\ UNCHANGED <<part, shell, test, qr, chat, limit>>
OfLimit(A) == part = "limit" /\ A /\ UNCHANGED <<part, shell, test, qr, chat, stream>>

Next ==
    \/ OfShell(Shell!Next) \/ OfTest(Tests!Next) \/ OfQr(Qr!Next) \/ OfChat(Chat!Next)
    \/ OfStream(Stream!Next) \/ OfLimit(Limits!Next)

(* Callbacks and timers of the event loop run, the server answers tests    *)
(* and takes messages for the agent, whose streams the relay ends at the   *)
(* latest after its timeout, and while the dialog polls, not every status  *)
(* request fails.  The goroutines of a stream run, its timers fire, and    *)
(* dataHandler and the writes of a ping return; the upstream may be silent *)
(* for ever.                                                               *)
Spec ==
    /\ Init /\ [][Next]_vars
    /\ WF_vars(OfShell(Shell!Probing)) /\ WF_vars(OfShell(Shell!KillDeadline))
    /\ \A l \in Loop :
        /\ WF_vars(OfTest(Tests!Batch(l)))
        /\ WF_vars(OfTest(\E x \in tests : x.by = l /\ Tests!TestAnswer(x)))
    /\ WF_vars(OfQr(Qr!PollTick))
    /\ \A o \in Qr!Order : SF_vars(OfQr(Qr!PollAnswer(o)))
    /\ WF_vars(OfChat(Chat!Reader)) /\ WF_vars(OfChat(Chat!ServerAccepts))
    /\ WF_vars(OfChat(\E a \in agents : Chat!AgentEnds(a)))
    /\ WF_vars(OfStream(Stream!Main)) /\ WF_vars(OfStream(Stream!Goroutines))

ThreeModels == <<"m1", "m2", "m3">>

(* The types of the parts.                                                 *)
TypeOK ==
    /\ Shell!TypeOK /\ Tests!TypeOK /\ Qr!TypeOK /\ Chat!TypeOK /\ Stream!TypeOK
    /\ Limits!TypeOK

(* What is on screen is so: a window is only opened for a port that        *)
(* answered, and the shell never exits with its server still running; no   *)
(* model spins without a test, and a batch that runs can be stopped        *)
(* (unless two overlapped); Alipay's status is asked for exactly while the *)
(* order on screen is pending (unless a refresh that was answered after a  *)
(* reset put it there: nothing polls that one); the chat shows the answers *)
(* to the questions of its session and announces those that came while it  *)
(* was hidden, the agent working on one at a time.                         *)
ScreensTrue ==
    /\ Shell!NoServerLeft /\ Shell!WindowHasServer
    /\ Tests!RowSpinners /\ Tests!StopOffered
    /\ Qr!PollsOnScreen /\ Qr!PendingIsPolled
    /\ Chat!SessionClean /\ Chat!EveryQuestionAnswered
    /\ Chat!OneRunPerSession /\ Chat!NothingMissed

(* The stream scanner: without refusals and timeouts the upstream is read  *)
(* to its end and handled before the call returns, client or not; then no  *)
(* line is handled any more; and stopChan has room for every token and     *)
(* keeps one for the loop when the upstream has ended.                     *)
StreamComplete == Stream!StreamComplete

(* The rate limits: no window lets more through than the limiter's bound,  *)
(* and no request is refused while fewer than the limit passed.            *)
LimitsHold == Limits!WindowBounded /\ Limits!NoneEarly

(* Nobody waits for ever: the shell's start-up and its quit come to an     *)
(* end, a batch of tests ends and starts no wave after it was told to      *)
(* stop, an order that was paid is seen as paid (with the exception of     *)
(* ScreensTrue), the chat does not stay busy, and a stream's call returns  *)
(* and leaves no goroutine behind, also when the upstream is silent for    *)
(* ever.                                                                   *)
WaitsEnd ==
    /\ Shell!StartupSettles /\ Shell!QuitEnds
    /\ Tests!BatchEnds /\ Tests!NoWaveAfterStop
    /\ Qr!PaidIsSeen /\ Chat!ChatEnds
    /\ part = "stream" ~> Stream!Gone
=============================================================================
