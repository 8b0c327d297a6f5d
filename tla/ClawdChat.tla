----------------------------- MODULE ClawdChat -----------------------------
(***************************************************************************)
(* The chat with the Clawd agent: ClawdChatPanel's handleSend with its     *)
(* stream reader, the mascot's red dot, the relay to the agent service in  *)
(* controller/clawd.go and, from how that uses it, the agent service.      *)
(*                                                                         *)
(* A piece is an event of the stream that adds to the answer.  The reader  *)
(* gives up the event loop at every read and after every piece, and there  *)
(* the user may stop it, start a new session or hide the panel.            *)
(***************************************************************************)
EXTENDS Naturals, Sequences

CONSTANTS
    MaxAsks,      \* bound: messages the user sends
    MaxSessions,  \* bound: sessions the user starts
    MaxPieces     \* bound: pieces of one answer

VARIABLES
    open, dot,    \* chatOpen and hasNewResponse of the mascot
    seen,         \* how many messages there were when the panel was last open
    session,      \* sessionId
    messages,     \* who wrote it, for which question, in which session
    loading,
    streaming,    \* streamingText: the length of the answer on screen
    abortRef,     \* the question whose controller it holds, 0 when none
    run,          \* handleSend between its awaits
    wire,         \* the response: pieces that arrived and were not read, and its end
    agents,       \* runs of the agent: question, session, pieces to come
    aborted,      \* the questions whose controller was aborted
    asks,
    silent,       \* history: questions the agent had no text for
    lost,         \* history: questions whose connection failed
    crossed       \* history: a session was started on an answer that was no longer stoppable

screen == <<messages, loading, streaming, abortRef, run>>
panel == <<open, dot, seen, session>>
history == <<silent, lost, crossed>>
net == <<wire, agents, aborted>>
vars == <<panel, screen, net, asks, history>>

Ask == 1..MaxAsks
Session == 1..MaxSessions
Idle == [at |-> "idle", ask |-> 0, session |-> 1, lines |-> 0, text |-> 0, closure |-> 0]
NoWire == [got |-> 0, closed |-> FALSE]

TypeOK ==
    /\ {open, dot, loading, crossed} \subseteq BOOLEAN
    /\ session \in Session /\ asks \in 0..MaxAsks /\ abortRef \in 0..MaxAsks
    /\ \A i \in DOMAIN messages :
        messages[i] \in [by : {"user", "agent", "note"}, ask : Ask, session : Session]
    /\ seen \in 0..(2 * MaxAsks) /\ streaming \in 0..MaxPieces
    /\ run \in [at : {"idle", "fetch", "json", "read", "lines"}, ask : 0..MaxAsks,
                session : Session, lines : 0..MaxPieces, text : 0..MaxPieces,
                closure : 0..MaxPieces]
    /\ wire \in [got : 0..MaxPieces, closed : BOOLEAN]
    /\ agents \subseteq [ask : Ask, session : Session, left : 0..MaxPieces]
    /\ aborted \subseteq Ask /\ silent \subseteq Ask /\ lost \subseteq Ask

Init ==
    /\ open = FALSE /\ dot = FALSE /\ seen = 0 /\ session = 1
    /\ messages = <<>> /\ loading = FALSE /\ streaming = 0 /\ abortRef = 0 /\ run = Idle
    /\ wire = NoWire /\ agents = {} /\ aborted = {}
    /\ asks = 0 /\ silent = {} /\ lost = {} /\ crossed = FALSE

Message(by) == [by |-> by, ask |-> run.ask, session |-> run.session]

(***************************************************************************)
(* handleSend.                                                             *)
(***************************************************************************)

(* A plausible mistake: a second message may be sent while one streams.    *)
CanSend_Always == TRUE

(* handleSend returns when it is loading.                                  *)
CanSend == ~loading

HandleSend ==
    /\ open /\ CanSend /\ asks < MaxAsks
    /\ asks' = asks + 1
    /\ run' = [at |-> "fetch", ask |-> asks + 1, session |-> session, lines |-> 0, text |-> 0,
               closure |-> streaming]
    /\ messages' = Append(messages, [by |-> "user", ask |-> asks + 1, session |-> session])
    /\ seen' = Len(messages')
    /\ loading' = TRUE /\ streaming' = 0
    /\ abortRef' = asks + 1
    /\ wire' = NoWire
    /\ UNCHANGED <<open, dot, session, agents, aborted, history>>

(* A plausible mistake: the clean-up is not in a finally.                  *)
Finish_Quietly(ms) ==
    /\ messages' = ms
    /\ run' = Idle /\ streaming' = 0 /\ abortRef' = 0
    /\ loading' = (loading /\ Len(ms) = Len(messages))
    /\ dot' = (dot \/ ~open)
    /\ seen' = IF open THEN Len(ms) ELSE seen

(* Its finally block, after "messages" got its last state.                 *)
Finish(ms) ==
    /\ messages' = ms
    /\ run' = Idle /\ streaming' = 0 /\ abortRef' = 0
    /\ loading' = FALSE
    /\ dot' = (dot \/ ~open)
    /\ seen' = IF open THEN Len(ms) ELSE seen

(* The request reaches ClawdChatStream, which calls the agent service.     *)
ServerAccepts ==
    /\ run.at = "fetch" /\ run.ask \notin aborted /\ \A a \in agents : a.ask # run.ask
    /\ wire = NoWire
    /\ agents' = agents \cup {[ask |-> run.ask, session |-> run.session, left |-> MaxPieces]}
    /\ UNCHANGED <<panel, screen, wire, aborted, asks, history>>

(* It refuses: not the root user.  The panel awaits the body.              *)
ServerRefuses ==
    /\ run.at = "fetch" /\ run.ask \notin aborted /\ \A a \in agents : a.ask # run.ask
    /\ wire = NoWire
    /\ run' = [run EXCEPT !.at = "json"]
    /\ UNCHANGED <<panel, messages, loading, streaming, abortRef, net, asks, history>>

(* An error status: its text becomes the answer, also when the body could  *)
(* not be read because the request was aborted.                            *)
Refused ==
    /\ run.at = "json"
    /\ Finish(Append(messages, Message("note")))
    /\ UNCHANGED <<open, session, net, asks, history>>

(* fetch resolves with the first bytes of the response.                    *)
FetchResolves ==
    /\ run.at = "fetch" /\ run.ask \notin aborted /\ wire # NoWire
    /\ run' = [run EXCEPT !.at = "read"]
    /\ UNCHANGED <<panel, messages, loading, streaming, abortRef, net, asks, history>>

(* reader.read() resolves with all that arrived.                           *)
ReadResolves ==
    /\ run.at = "read" /\ run.ask \notin aborted /\ wire.got > 0
    /\ run' = [run EXCEPT !.at = "lines", !.lines = wire.got]
    /\ wire' = [wire EXCEPT !.got = 0]
    /\ UNCHANGED <<panel, messages, loading, streaming, abortRef, agents, aborted, asks, history>>

(* One line of the batch; content waits for a timeout of 0 ms.             *)
Line ==
    /\ run.at = "lines" /\ run.lines > 0
    /\ run' = [run EXCEPT !.lines = @ - 1, !.text = @ + 1]
    /\ streaming' = run.text + 1
    /\ UNCHANGED <<panel, messages, loading, abortRef, net, asks, history>>

NextRead ==
    /\ run.at = "lines" /\ run.lines = 0 /\ run.ask \notin aborted
    /\ run' = [run EXCEPT !.at = "read"]
    /\ UNCHANGED <<panel, messages, loading, streaming, abortRef, net, asks, history>>

Reading == run.at = "read" \/ (run.at = "lines" /\ run.lines = 0)

(* The stream has ended; an abort no longer changes that.                  *)
StreamEnds ==
    /\ Reading /\ wire = [got |-> 0, closed |-> TRUE]
    /\ Finish(IF run.text > 0 THEN Append(messages, Message("agent")) ELSE messages)
    /\ silent' = IF run.text = 0 THEN silent \cup {run.ask} ELSE silent
    /\ UNCHANGED <<open, session, net, asks, lost, crossed>>

(* AbortError.  The text to keep is that of the render which called        *)
(* handleSend, when nothing was streaming.                                 *)
AbortRejects ==
    /\ run.ask \in aborted /\ (run.at = "fetch" \/ Reading)
    /\ Finish(IF run.closure > 0 THEN Append(messages, Message("agent")) ELSE messages)
    /\ UNCHANGED <<open, session, net, asks, history>>

NetworkFails ==
    /\ run.at \in {"fetch", "read"} /\ run.ask \notin aborted
    /\ Finish(Append(messages, Message("note")))
    /\ lost' = lost \cup {run.ask}
    /\ UNCHANGED <<open, session, net, asks, silent, crossed>>

(***************************************************************************)
(* The agent and the relay between the two.                                *)
(***************************************************************************)
Connected(a) == run.ask = a.ask /\ a.ask \notin aborted

(* The next event of the agent: the relay passes it on, or finds the       *)
(* client gone and hangs up on the agent.                                  *)
AgentPiece(a) ==
    /\ a \in agents /\ a.left > 0
    /\ IF Connected(a)
       THEN /\ agents' = (agents \ {a}) \cup {[a EXCEPT !.left = @ - 1]}
            /\ wire' = [wire EXCEPT !.got = @ + 1]
       ELSE agents' = agents \ {a} /\ UNCHANGED wire
    /\ UNCHANGED <<panel, screen, aborted, asks, history>>

(* It is done, it failed, or the relay's five minutes are over.            *)
AgentEnds(a) ==
    /\ a \in agents
    /\ agents' = agents \ {a}
    /\ wire' = IF Connected(a) THEN [wire EXCEPT !.closed = TRUE] ELSE wire
    /\ UNCHANGED <<panel, screen, aborted, asks, history>>

(***************************************************************************)
(* The user.                                                               *)
(***************************************************************************)
HandleStop ==
    /\ open /\ loading /\ abortRef # 0
    /\ aborted' = aborted \cup {abortRef}
    /\ UNCHANGED <<panel, screen, wire, agents, asks, history>>

(* A plausible mistake: the running request is not aborted.                *)
Abort_Forgotten == UNCHANGED aborted

Abort == aborted' = aborted \cup ({abortRef} \ {0})

HandleNewSession ==
    /\ open /\ session < MaxSessions
    /\ Abort
    /\ abortRef' = 0
    /\ messages' = <<>> /\ seen' = 0 /\ streaming' = 0
    /\ session' = session + 1
    /\ crossed' = (crossed \/ run.at \in {"json", "lines"}
                         \/ (run.at # "idle" /\ wire.closed))
    /\ UNCHANGED <<open, dot, loading, run, wire, agents, asks, silent, lost>>

HandleClickMascot ==
    /\ open' = ~open
    /\ dot' = (dot /\ open)
    /\ seen' = Len(messages)
    /\ UNCHANGED <<session, screen, net, asks, history>>

-----------------------------------------------------------------------------
Reader ==
    \/ FetchResolves \/ ReadResolves \/ Line \/ NextRead \/ StreamEnds \/ AbortRejects \/ Refused

Next ==
    \/ HandleSend \/ HandleStop \/ HandleNewSession \/ HandleClickMascot
    \/ Reader \/ ServerAccepts \/ ServerRefuses \/ NetworkFails
    \/ \E a \in agents : AgentPiece(a) \/ AgentEnds(a)

Spec == Init /\ [][Next]_vars

-----------------------------------------------------------------------------
(* The conversation on screen is that of the session: nothing of an older  *)
(* one comes in after a new session was started, unless its answer had     *)
(* been received when that happened.                                       *)
SessionClean ==
    \/ crossed
    \/ /\ \A i \in DOMAIN messages : messages[i].session = session
       /\ streaming > 0 => run.session = session

(* When nothing is running every question on screen has its answer right   *)
(* behind it, unless it was stopped or the agent had no text for it.       *)
EveryQuestionAnswered ==
    ~loading => \A i \in DOMAIN messages :
        messages[i].by = "user" /\ messages[i].ask \notin (aborted \cup silent) =>
            /\ i + 1 \in DOMAIN messages
            /\ messages[i + 1].by # "user" /\ messages[i + 1].ask = messages[i].ask

(* The agent works on one question of a session at a time, except next to  *)
(* one that was stopped or whose connection failed, of which the relay     *)
(* learns with the next event.                                             *)
OneRunPerSession ==
    \A a, b \in agents :
        a.ask < b.ask /\ a.session = b.session => a.ask \in aborted \cup lost

(* What came while the panel was hidden is announced by the red dot.       *)
NothingMissed == ~open /\ Len(messages) > seen => dot

(* The panel does not stay busy, when the event loop goes on, the server   *)
(* takes the request and the relay ends every stream (its client has a     *)
(* timeout).                                                               *)
ChatEnds == loading ~> ~loading
=============================================================================
