-------------------------- MODULE MCChannelStatus --------------------------
(* Small instances of ChannelStatus.                                       *)
EXTENDS ChannelStatus

CONSTANTS f1, f2, t1, m1, g1, e1, r1, tick

Cached(W) == [procs |-> W, memory |-> TRUE, multi |-> {}, polling |-> {}]

Uncached(W) ==
    [procs |-> W, memory |-> FALSE, multi |-> Channel, polling |-> Channel]

(* A failure, a test and an administrator that respect the lock; a failure *)
(* with failing statements, a test, and a tag that does not take the lock. *)
(* Without the memory cache, and on a channel with two keys that take      *)
(* turns: a request, the failure of an earlier one, and administrators.    *)
Sites ==
    {Cached({f1, t1, m1, tick}), Cached({f2, t1, g1, tick}),
     Uncached({f1, m1, r1, tick}), Uncached({f1, e1, r1, tick})}

(* The memory cache is on, and a channel has two keys.                     *)
Simple ==
    {[procs |-> {f1, r1, tick}, memory |-> TRUE, multi |-> Channel, polling |-> {}]}
=============================================================================
