--------------------------- MODULE MCTaskBilling ---------------------------
(* Small instances of TaskBilling.                                         *)
EXTENDS TaskBilling, TLC

CONSTANTS t1, t2, t3, t4, c1, c2, c3, p1, p2, f1

Channels == t1 :> c1 @@ t2 :> c2 @@ t3 :> c3 @@ t4 :> c3

(* A video, a song, and Gemini videos that are free and that are not.      *)
Platforms == t1 :> "video" @@ t2 :> "suno" @@ t3 :> "realtime" @@ t4 :> "realtime"
Prices == t1 :> 2 @@ t2 :> 2 @@ t3 :> 0 @@ t4 :> 2

(* Two nodes poll one video; completion may charge more, less, or leave    *)
(* the quota, and everything may fail.                                     *)
TwoNodes ==
    [tasks |-> {t1}, procs |-> {p1, p2}, actual |-> {0, 1, 3},
     miss |-> TRUE, fail |-> TRUE, crash |-> TRUE]

(* One node and a client; only the lookup of a channel fails.              *)
OneNode(ts, actual) ==
    [tasks |-> ts, procs |-> {p1, f1}, actual |-> actual,
     miss |-> TRUE, fail |-> FALSE, crash |-> FALSE]

Sites == {TwoNodes, OneNode({t2, t3}, {0})}
Paid == {OneNode({t4}, {0, 3})}
=============================================================================
