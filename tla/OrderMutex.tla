----------------------------- MODULE OrderMutex -----------------------------
(***************************************************************************)
(* What LockOrder and UnlockOrder promise: a mutex for each order of each  *)
(* node, without a word about entries, pointers and reference counts.  A   *)
(* call waits, is inside alone and leaves; when its node dies it is out.   *)
(* Module TopUp is shown to implement it.                                  *)
(***************************************************************************)
CONSTANTS
    Caller,           \* the calls that take the mutex
    Node,
    NodeOf, OrderOf   \* where each call runs, and the order it is about

VARIABLE phase        \* "idle", "waiting", "inside" or "left", of each call

Init == phase = [p \in Caller |-> "idle"]

Rivals(p) == {q \in Caller : NodeOf[q] = NodeOf[p] /\ OrderOf[q] = OrderOf[p]}

Ask(p) == phase[p] = "idle" /\ phase' = [phase EXCEPT ![p] = "waiting"]

Enter(p) ==
    /\ phase[p] = "waiting"
    /\ \A q \in Rivals(p) : phase[q] # "inside"
    /\ phase' = [phase EXCEPT ![p] = "inside"]

Leave(p) == phase[p] = "inside" /\ phase' = [phase EXCEPT ![p] = "left"]

NodeDies(n) ==
    phase' = [p \in Caller |-> IF NodeOf[p] = n /\ phase[p] \in {"waiting", "inside"}
                               THEN "left" ELSE phase[p]]

Next ==
    \/ \E p \in Caller : Ask(p) \/ Enter(p) \/ Leave(p)
    \/ \E n \in Node : NodeDies(n)

Spec == Init /\ [][Next]_phase

(* Whoever is inside leaves, and a call that could enter again and again   *)
(* enters.                                                                 *)
FairSpec ==
    /\ Spec
    /\ \A p \in Caller : WF_phase(Leave(p)) /\ SF_phase(Enter(p))
=============================================================================
