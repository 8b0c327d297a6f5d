----------------------------- MODULE MultiKeys -----------------------------
(***************************************************************************)
(* The keys of a multi-key channel: the dialog that lists and manages them *)
(* (MultiKeyManageModal) and its server side (ManageMultiKeys).  Keys are  *)
(* addressed by their index in the list; the status of a key is kept under *)
(* its index too.  The server reads the row before it takes the channel's  *)
(* lock and saves the whole row under it, and the dialog disables only the *)
(* button that was clicked: requests overlap.                              *)
(***************************************************************************)
EXTENDS Naturals, Sequences, FiniteSets, TLC

CONSTANTS
    InitialKeys,   \* the keys of the channel at first, without repetition
    NewKeys,       \* keys that are added or that replace one
    MaxOps,        \* bound on the operations, opening the dialog included
    MaxFailures    \* bound on the requests that fail

ManuallyDisabled == 2
AutoDisabled == 3
Refused == [keys |-> <<>>, status |-> <<>>, size |-> 0]
NoFailure == Refused

VARIABLES
    record,      \* the channel's row: keys, the status of the disabled ones, MultiKeySize
    ops,         \* operations in flight
    lists,       \* get_key_status requests in flight
    dialog,      \* the dialog is visible
    listed,      \* keyStatusList: what was read for it
    busy,        \* operationLoading, editKeyLoading, addKeysLoading
    started,     \* operations started so far
    spare,       \* keys not used yet
    failure,     \* the row a failing request is about to save, without its keys,
                 \* or NoFailure
    failures,    \* failing requests so far
    torn,        \* history: statuses were saved to a shorter key list
    excused      \* history: a request failed, two lists were in flight at once,
                 \* or traffic has disabled a key

traffic == <<failure, failures, torn>>
vars == <<record, ops, lists, dialog, listed, busy, started, spare, traffic, excused>>

Op == {"disable", "enable", "enable_all", "disable_all", "delete", "delete_disabled",
       "update", "add", "look"}
OfOneKey == {"disable", "enable", "delete", "update", "look"}

Without(f, i) == [j \in DOMAIN f \ {i} |-> f[j]]
StatusOf(r, i) == IF i \in DOMAIN r.status THEN r.status[i] ELSE 1

(***************************************************************************)
(* The row that an operation makes of the row it has read, or Refused.     *)
(***************************************************************************)

(* A plausible mistake: statuses stay under the old index.                 *)
Keep_OldIndex(r, kept) ==
    LET new == [n \in 1..Cardinality(kept) |->
                  CHOOSE i \in kept : Cardinality({j \in kept : j <= i}) = n]
    IN  [keys |-> [n \in DOMAIN new |-> r.keys[new[n]]],
         status |-> [i \in DOMAIN r.status \cap kept |-> r.status[i]],
         size |-> Cardinality(kept)]

(* The keys whose index is kept, with their status under the new index.    *)
Keep(r, kept) ==
    LET new == [n \in 1..Cardinality(kept) |->
                  CHOOSE i \in kept : Cardinality({j \in kept : j <= i}) = n]
        marked == {n \in DOMAIN new : StatusOf(r, new[n]) # 1}
    IN  [keys |-> [n \in DOMAIN new |-> r.keys[new[n]]],
         status |-> [n \in marked |-> StatusOf(r, new[n])],
         size |-> Cardinality(kept)]

DeleteKey(r, i) ==
    IF DOMAIN r.keys = {i} THEN Refused ELSE Keep(r, DOMAIN r.keys \ {i})

(* When no key remains, channel.Key is empty and the UPDATE leaves it out: *)
(* the keys in the row stay, the statuses are dropped.                     *)
DeleteDisabledKeys(r) ==
    LET kept == {i \in DOMAIN r.keys : StatusOf(r, i) # AutoDisabled}
    IN  CASE kept = DOMAIN r.keys -> Refused
          [] kept = {} -> [keys |-> record.keys, status |-> <<>>, size |-> 0]
          [] OTHER -> Keep(r, kept)

(* The indices up to MultiKeySize, which may differ from the length of the *)
(* list after SaveWithoutKey: then keys are left out, or statuses written  *)
(* beyond the list.                                                        *)
DisableAllKeys(r) ==
    IF \A i \in 1..r.size : StatusOf(r, i) # 1 THEN Refused
    ELSE [r EXCEPT !.status = @ @@ [i \in 1..r.size |-> ManuallyDisabled]]

(* update_key, get_key and test_key look at the list of the keys, the      *)
(* other operations at MultiKeySize.                                       *)
Indices(o) == IF o.op \in {"update", "look"} THEN DOMAIN o.row.keys ELSE 1..o.row.size

Result(o) ==
    LET r == o.row
    IN  IF o.op \in OfOneKey /\ o.index \notin Indices(o) THEN Refused
        ELSE CASE o.op = "disable" -> [r EXCEPT !.status = (o.index :> ManuallyDisabled) @@ @]
               [] o.op = "enable" -> [r EXCEPT !.status = Without(@, o.index)]
               [] o.op = "enable_all" -> [r EXCEPT !.status = <<>>]
               [] o.op = "disable_all" -> DisableAllKeys(r)
               [] o.op = "delete" -> DeleteKey(r, o.index)
               [] o.op = "delete_disabled" -> DeleteDisabledKeys(r)
               [] o.op = "update" -> [r EXCEPT !.keys[o.index] = o.new]
               [] o.op = "add" -> [r EXCEPT !.keys = Append(@, o.new)]
               [] OTHER -> r

(* Channel.Update counts the keys and drops the statuses beyond the last.  *)
Update(r) ==
    [keys |-> r.keys, status |-> [i \in DOMAIN r.status \cap DOMAIN r.keys |-> r.status[i]],
     size |-> Len(r.keys)]

NoKey == "none"
AnyKey == NewKeys \cup {InitialKeys[i] : i \in DOMAIN InitialKeys}

IsRow(r) ==
    /\ r.keys \in Seq(AnyKey)
    /\ r.size \in 0..(Len(InitialKeys) + MaxOps)
    /\ DOMAIN r.status \subseteq 1..(Len(InitialKeys) + MaxOps)
    /\ \A i \in DOMAIN r.status : r.status[i] \in {ManuallyDisabled, AutoDisabled}

TypeOK ==
    /\ IsRow(record) /\ IsRow(listed)
    /\ \A o \in ops : IsRow(o.row) /\ o.op \in Op /\ o.st \in {"sent", "read", "done", "refused"}
    /\ \A l \in lists : IsRow(l.row)
    /\ {dialog, torn, excused} \subseteq BOOLEAN
    /\ failures \in 0..MaxFailures
    /\ started \in 0..MaxOps /\ spare \subseteq NewKeys

Init ==
    /\ record = [keys |-> InitialKeys, status |-> <<>>, size |-> Len(InitialKeys)]
    /\ ops = {} /\ lists = {}
    /\ dialog = FALSE /\ listed = Refused /\ busy = {}
    /\ started = 0 /\ spare = NewKeys
    /\ failure = NoFailure /\ failures = 0 /\ torn = FALSE /\ excused = FALSE

(***************************************************************************)
(* The dialog.                                                             *)
(***************************************************************************)

(* loadKeyStatus.  The list is the whole one: the page and the filter by   *)
(* status hide some of its rows, and the ones shown keep their own index.  *)
LoadKeyStatus ==
    /\ LET id == CHOOSE n \in 0..Cardinality(lists) : \A l \in lists : l.id # n
       IN  lists' = lists \cup {[id |-> id, read |-> FALSE, row |-> Refused]}
    /\ excused' = (excused \/ lists # {})

Open ==
    /\ ~dialog /\ started < MaxOps
    /\ dialog' = TRUE
    /\ started' = started + 1
    /\ LoadKeyStatus
    /\ UNCHANGED <<record, ops, listed, busy, spare, traffic>>

(* The effect on visible clears the list.  (Bounded like Open: a dialog    *)
(* that is not opened again shows nothing any more.)                       *)
Close ==
    /\ dialog /\ started < MaxOps
    /\ dialog' = FALSE /\ listed' = Refused
    /\ UNCHANGED <<record, ops, lists, busy, started, spare, excused, traffic>>

(* A button of the dialog: those of a row send the index of the row.  It   *)
(* is disabled while its own operation runs.  "look" stands for viewing    *)
(* and testing a key, which only read the row.                             *)
Button(op, i) == IF op \in OfOneKey THEN <<op, i>> ELSE <<op, 0>>

Click(op, i, new) ==
    /\ dialog /\ started < MaxOps
    /\ op \in OfOneKey => i \in DOMAIN listed.keys
    /\ op = "disable" => StatusOf(listed, i) = 1
    /\ op = "enable" => StatusOf(listed, i) # 1
    /\ Button(op, i) \notin busy
    /\ started' = started + 1
    /\ spare' = spare \ {new}
    /\ ops' = ops \cup {[id |-> started, op |-> op, index |-> i, new |-> new, st |-> "sent",
                         row |-> Refused]}
    /\ busy' = busy \cup {Button(op, i)}
    /\ UNCHANGED <<record, lists, dialog, listed, excused, traffic>>

ClickAny ==
    \/ \E op \in {"enable_all", "disable_all", "delete_disabled"} : Click(op, 0, NoKey)
    \/ \E op \in {"disable", "enable", "delete", "look"}, i \in DOMAIN listed.keys :
         Click(op, i, NoKey)
    \/ \E new \in spare : Click("add", 0, new)
    \/ \E new \in spare, i \in DOMAIN listed.keys : Click("update", i, new)

(***************************************************************************)
(* ManageMultiKeys: the row is read, then the lock is taken and the row is *)
(* saved.                                                                  *)
(***************************************************************************)
ReadRow(o) ==
    /\ o.st = "sent"
    /\ ops' = (ops \ {o}) \cup {[o EXCEPT !.st = "read", !.row = record]}
    /\ UNCHANGED <<record, lists, dialog, listed, busy, started, spare, excused, traffic>>

SaveRow(o) ==
    LET refuse == Result(o) = Refused
    IN  /\ o.st = "read"
        /\ record' = IF refuse \/ o.op = "look" THEN record ELSE Update(Result(o))
        /\ torn' = (torn /\ record' = record)
        /\ ops' = (ops \ {o}) \cup {[o EXCEPT !.st = IF refuse THEN "refused" ELSE "done",
                                               !.row = Refused]}
        /\ UNCHANGED <<lists, dialog, listed, busy, started, spare, excused, failure, failures>>

(* A plausible mistake: the list is not loaded again.                      *)
Answered_NoReload(o) ==
    /\ o.st \in {"done", "refused"}
    /\ ops' = ops \ {o}
    /\ busy' = busy \ {Button(o.op, o.index)}
    /\ UNCHANGED <<record, lists, dialog, listed, started, spare, excused, traffic>>

(* The answer: the handler loads the list again when the row was saved.    *)
Answered(o) ==
    /\ o.st \in {"done", "refused"}
    /\ ops' = ops \ {o}
    /\ busy' = busy \ {Button(o.op, o.index)}
    /\ IF o.st = "done" /\ o.op # "look"
       THEN LoadKeyStatus
       ELSE UNCHANGED <<lists, excused>>
    /\ UNCHANGED <<record, dialog, listed, started, spare, traffic>>

OpFails(o) ==
    /\ ops' = ops \ {o}
    /\ busy' = busy \ {Button(o.op, o.index)}
    /\ excused' = TRUE
    /\ UNCHANGED <<record, lists, dialog, listed, started, spare, traffic>>

(* get_key_status at the server, and its answer.                           *)
GetKeyStatus(l) ==
    /\ ~l.read
    /\ lists' = (lists \ {l}) \cup {[l EXCEPT !.read = TRUE, !.row = record]}
    /\ UNCHANGED <<record, ops, dialog, listed, busy, started, spare, excused, traffic>>

ListArrives(l) ==
    /\ l.read
    /\ lists' = lists \ {l}
    /\ listed' = l.row
    /\ UNCHANGED <<record, ops, dialog, busy, started, spare, excused, traffic>>

ListFails(l) ==
    /\ lists' = lists \ {l}
    /\ excused' = TRUE
    /\ UNCHANGED <<record, ops, dialog, listed, busy, started, spare, traffic>>

(***************************************************************************)
(* UpdateChannelStatus after a failed request, without the memory cache    *)
(* (with it the call hangs, see module ChannelStatus): the row is read and *)
(* the key the request used is marked, the first key when it is not there  *)
(* any more; then everything but the keys is saved.  The check of the      *)
(* channel's own status is left out: more failures are tried than the code *)
(* would record.                                                           *)
(***************************************************************************)
IndexOf(r, k) ==
    LET at == {i \in DOMAIN r.keys : r.keys[i] = k}
    IN  IF at = {} THEN 1 ELSE CHOOSE i \in at : \A j \in at : i <= j

FailureReads(k) ==
    /\ failure = NoFailure /\ failures < MaxFailures /\ k \notin spare
    /\ failure' = [record EXCEPT !.keys = <<>>,
                                 !.status = (IndexOf(record, k) :> AutoDisabled) @@ @]
    /\ failures' = failures + 1
    /\ UNCHANGED <<record, ops, lists, dialog, listed, busy, started, spare, torn, excused>>

SaveWithoutKey ==
    /\ failure # NoFailure
    /\ record' = [record EXCEPT !.status = failure.status, !.size = failure.size]
    /\ failure' = NoFailure
    /\ torn' = ~(DOMAIN failure.status \subseteq DOMAIN record.keys)
    /\ excused' = TRUE
    /\ UNCHANGED <<ops, lists, dialog, listed, busy, started, spare, failures>>

Next ==
    \/ Open \/ Close
    \/ ClickAny
    \/ \E o \in ops : ReadRow(o)
    \/ \E o \in ops : SaveRow(o)
    \/ \E o \in ops : Answered(o)
    \/ \E o \in ops : OpFails(o)
    \/ \E l \in lists : GetKeyStatus(l)
    \/ \E l \in lists : ListArrives(l)
    \/ \E l \in lists : ListFails(l)
    \/ \E k \in AnyKey : FailureReads(k)
    \/ SaveWithoutKey

Spec == Init /\ [][Next]_vars

(***************************************************************************)
(* Properties.                                                             *)
(***************************************************************************)

(* However requests overlap, and whichever of them is saved last, the row  *)
(* has a key, and no status refers to a key that is gone, unless the last  *)
(* save was SaveWithoutKey with statuses read before a deletion: the next  *)
(* operation of the manager drops them again.                              *)
RowWellFormed ==
    /\ record.keys # <<>>
    /\ ~torn => DOMAIN record.status \subseteq DOMAIN record.keys

(* An operation that is saved over the row it has read leaves every other  *)
(* key its status: deleting re-indexes the statuses along with the keys,   *)
(* replacing and adding keys does not move them, and delete_disabled       *)
(* removes exactly the keys that were disabled automatically, unless that  *)
(* is all of them.  (When another one was saved in between, its changes    *)
(* are lost and the index may be that of another key.)                     *)
Status(r, k) == StatusOf(r, CHOOSE i \in DOMAIN r.keys : r.keys[i] = k)
Keys(r) == {r.keys[i] : i \in DOMAIN r.keys}
AllAuto(r) == \A i \in DOMAIN r.keys : StatusOf(r, i) = AutoDisabled

StatusFollowsKey ==
    [][\A o \in ops :
         /\ o.st = "read" /\ o.row = record /\ record' # record
         /\ \E n \in ops' : n.id = o.id /\ n.st = "done"
         =>
         /\ o.op \in {"delete", "update", "add"} =>
              \A k \in Keys(record) \cap Keys(record') : Status(record', k) = Status(record, k)
         /\ o.op = "delete" =>
              Keys(record') = {record.keys[i] : i \in DOMAIN record.keys \ {o.index}}
         /\ o.op = "delete_disabled" /\ ~AllAuto(record) =>
              /\ Keys(record') = {k \in Keys(record) : Status(record, k) # AutoDisabled}
              /\ \A k \in Keys(record') : Status(record', k) = Status(record, k)]_vars

(* When nothing is in flight the dialog lists the row as it is, also when  *)
(* operations overlapped.  Not when two loads of the list were in flight   *)
(* together (the older answer may come last), after a failed request, or   *)
(* when traffic has disabled a key since.                                  *)
ListFresh ==
    dialog /\ ops = {} /\ lists = {} /\ ~excused => listed = record
=============================================================================
