----------------------------- MODULE EditDialog -----------------------------
(***************************************************************************)
(* The dialogs that edit one record of a table: EditTokenModal,            *)
(* EditUserModal, EditTagModal and EditChannelModal.  Opening one loads    *)
(* the record, saving sends the form under the record's id.  No load is    *)
(* ever cancelled: its answer fills whatever form is on screen when it     *)
(* comes.  Requests for one URL that is in flight share its answer         *)
(* (helpers/api.js), so the loads in flight are a set.                     *)
(***************************************************************************)
EXTENDS Naturals, FiniteSets

CONSTANTS
    Record,       \* the records of the table
    MaxUses       \* bound: how often the dialog is opened and submitted

Kind == {"token", "user", "tag", "channel"}
New == "new"      \* no id: a record to be added, in the user dialog oneself
Own == "own"      \* what the user typed

VARIABLES
    kind,         \* which dialog
    visible,
    target,       \* the id of the record, or New
    values,       \* the records the form's values come from
    kept,         \* the same for what the dialog keeps outside of its form
    loading,
    loads,        \* the ids whose record is being loaded
    fetches,      \* channels whose upstream models are being fetched (New: by a typed key)
    offer,        \* the channels whose models the selection dialog offers
    submits,      \* submissions: id, values, and what they wait for
    timers,       \* token dialog: closeEdit's pending timers
    stored,       \* per record: where the values the server has come from
    opens, count,
    crossed,      \* history: records whose form another record's answer filled
    blanked,      \* history: the form was emptied behind the user's back
    failed        \* history: a request failed or was refused

screen == <<visible, target, values, kept>>
requests == <<loads, fetches, offer, submits, timers>>
vars == <<kind, screen, loading, requests, stored, opens, count, crossed, blanked, failed>>

Id == Record \cup {New}
Source == Id \cup {Own}

TypeOK ==
    /\ kind \in Kind /\ target \in Id /\ {values, kept} \subseteq SUBSET Source
    /\ {visible, loading, blanked, failed} \subseteq BOOLEAN
    /\ loads \subseteq Id /\ fetches \subseteq Id /\ offer \subseteq Id
    /\ submits \subseteq [n : 1..MaxUses, id : Id, values : SUBSET Source,
                          at : {"missing", "risk", "sent", "stored"}]
    /\ timers \in 0..(2 * MaxUses)
    /\ stored \in [Record -> SUBSET Source] /\ crossed \subseteq Record
    /\ opens \in 0..MaxUses /\ count \in 0..MaxUses

Init ==
    /\ kind \in Kind
    /\ visible = FALSE /\ target = New /\ values = {} /\ kept = {} /\ loading = FALSE
    /\ loads = IF kind = "user" THEN {New} ELSE {}
    /\ fetches = {} /\ offer = {} /\ submits = {} /\ timers = 0
    /\ stored = [x \in Record |-> {x}]
    /\ opens = 0 /\ count = 0
    /\ crossed = {} /\ blanked = FALSE /\ failed = FALSE

(* A confirmation on top takes the clicks.                                 *)
Asking == \E s \in submits : s.at \in {"missing", "risk"}

(***************************************************************************)
(* Opening and closing.                                                    *)
(***************************************************************************)

(* The effects on visible and id: which record they load.                  *)
Loaded(x, v) ==
    CASE kind = "user" -> {x}
      [] kind = "tag" -> {x} \ {New}
      [] OTHER -> IF v THEN {x} \ {New} ELSE {}

(* The form is mounted anew with its initial values.  The quota and groups *)
(* of the user dialog live outside of it and stay; so do the inputs of the *)
(* channel dialog, which closing and the change to a new channel reset.    *)
Show(x, v, spin) ==
    /\ visible' = v /\ target' = x
    /\ values' = {}
    /\ kept' = IF kind = "user" \/ (v /\ x # New) \/ (v /\ x = target) THEN kept ELSE {}
    /\ loads' = loads \cup Loaded(x, v)
    /\ loading' = (spin \/ Loaded(x, v) # {})

Open(x) ==
    /\ ~visible /\ ~Asking /\ offer = {} /\ opens + count < MaxUses
    /\ x = New => kind \in {"token", "channel"}
    /\ opens' = opens + 1
    /\ Show(x, TRUE, loading)
    /\ UNCHANGED <<kind, fetches, offer, submits, timers, stored, count, crossed, blanked, failed>>

(* handleClose.  The token dialog forgets its id half a second later, the  *)
(* user dialog at once and loads the administrator's own record, the tag   *)
(* dialog loads the tag again.  The channel dialog answers its risk        *)
(* confirmation with no, which ends that submission.                       *)
HandleClose(left, spin) ==
    /\ Show(IF kind = "user" THEN New ELSE target, FALSE, spin)
    /\ timers' = IF kind = "token" THEN timers + 1 ELSE timers
    /\ submits' = {s \in left : s.at # "risk"}

Close ==
    /\ visible /\ ~Asking /\ offer = {}
    /\ HandleClose(submits, loading)
    /\ UNCHANGED <<kind, fetches, offer, stored, opens, count, crossed, blanked, failed>>

(* closeEdit's timer: setEditingToken({id: undefined}), also when another  *)
(* token has been opened since: the dialog turns into one for a new token. *)
TimerFires ==
    /\ timers > 0
    /\ timers' = timers - 1
    /\ target' = New
    /\ values' = IF target = New THEN values ELSE {}
    /\ UNCHANGED <<kind, visible, kept, loading, loads, fetches, offer, submits, stored, opens, count,
                   crossed, blanked, failed>>

(***************************************************************************)
(* loadToken, loadUser, fetchTagModels, loadChannel.                       *)
(***************************************************************************)

(* The form on screen gets these values.                                   *)
Fill(v) ==
    /\ values' = IF visible THEN v ELSE values
    /\ crossed' = IF visible /\ target # New /\ ~(v \subseteq {target, Own})
                  THEN crossed \cup {target} ELSE crossed

(* The answer goes into the form on screen, and into what lives outside of *)
(* the form also when the dialog is closed.                                *)
LoadArrives(x) ==
    /\ x \in loads
    /\ loads' = loads \ {x}
    /\ Fill({x})
    /\ kept' = IF kind \in {"user", "channel"} THEN {x} ELSE kept
    /\ loading' = FALSE
    /\ UNCHANGED <<kind, visible, target, fetches, offer, submits, timers, stored, opens, count,
                   blanked, failed>>

(* success: false, or a rejected request.  Only the tag dialog has a       *)
(* finally that turns its spinner off after a rejection.                   *)
LoadFails(x) ==
    /\ x \in loads
    /\ loads' = loads \ {x}
    /\ loading' \in {FALSE, kind # "tag"}
    /\ failed' = TRUE
    /\ UNCHANGED <<kind, screen, fetches, offer, submits, timers, stored, opens, count, crossed,
                   blanked>>

(***************************************************************************)
(* The user.                                                               *)
(***************************************************************************)
(* handleInputChange.  In the channel dialog it changes the inputs, which  *)
(* then replace the form.                                                  *)
HandleInputChange(v) ==
    IF kind = "channel"
    THEN kept' = kept \cup v /\ Fill(values \cup kept \cup v)
    ELSE Fill(values \cup v) /\ UNCHANGED kept

Edit ==
    /\ visible /\ ~Asking /\ offer = {} /\ ~loading /\ Own \notin values
    /\ HandleInputChange({Own})
    /\ UNCHANGED <<kind, visible, target, loading, requests, stored, opens, count, blanked,
                   failed>>

(* fetchUpstreamModelList, answered into the selection dialog, whose       *)
(* confirmation sets the models of the inputs, and of the form on screen.  *)
FetchModels ==
    /\ kind = "channel" /\ visible /\ (target = New => Own \in values) /\ ~Asking /\ offer = {} /\ ~loading
    /\ fetches' = fetches \cup {target}
    /\ loading' = TRUE
    /\ UNCHANGED <<kind, screen, loads, offer, submits, timers, stored, opens, count, crossed,
                   blanked, failed>>

ModelsArrive(x) ==
    /\ x \in fetches
    /\ fetches' = fetches \ {x}
    /\ loading' = FALSE
    /\ offer' = {x}
    /\ UNCHANGED <<kind, screen, loads, submits, timers, stored, opens, count, crossed, blanked,
                   failed>>

ModelsFail(x) ==
    /\ x \in fetches
    /\ fetches' = fetches \ {x}
    /\ loading' \in BOOLEAN
    /\ failed' = TRUE
    /\ UNCHANGED <<kind, screen, loads, offer, submits, timers, stored, opens, count, crossed,
                   blanked>>

SelectModels ==
    /\ offer # {}
    /\ offer' = {}
    /\ HandleInputChange(offer) \/ UNCHANGED <<kept, values, crossed>>
    /\ UNCHANGED <<kind, visible, target, loading, loads, fetches, submits, timers, stored, opens,
                   count, blanked, failed>>

(***************************************************************************)
(* Saving: the form and, from the user dialog, what is kept outside of it. *)
(* A required name keeps an empty form from being sent, except that of a   *)
(* tag.  The channel dialog's button has no loading state, and its         *)
(* submission may first ask about missing models and risky codes.          *)
(***************************************************************************)
Submit(at) ==
    /\ visible /\ ~Asking /\ offer = {} /\ opens + count < MaxUses
    /\ values # {} \/ kind = "tag"
    /\ kind # "channel" => ~loading /\ at = "sent"
    /\ count' = count + 1
    /\ submits' = submits \cup
          {[n |-> count + 1, id |-> target, at |-> at,
            values |-> IF kind = "user" THEN values \cup kept ELSE values]}
    /\ loading' = (loading \/ kind # "channel")
    /\ UNCHANGED <<kind, screen, loads, fetches, offer, timers, stored, opens, crossed, blanked,
                   failed>>

Moved(s, at) == (submits \ {s}) \cup {[s EXCEPT !.at = at]}

(* The answers to confirmMissingModelMappings and confirmStatusCodeRisk;   *)
(* the former may add the missing models to the form.                      *)
Confirm(s, add) ==
    /\ s.at = "missing" \/ (s.at = "risk" /\ ~add)
    /\ \/ s.at = "missing" /\ submits' = Moved(s, "risk")
       \/ submits' = Moved(s, "sent")
       \/ submits' = submits \ {s}
    /\ IF add THEN HandleInputChange(s.values) ELSE UNCHANGED <<kept, values, crossed>>
    /\ UNCHANGED <<kind, visible, target, loading, loads, fetches, offer, timers, stored, opens,
                   count, blanked, failed>>

(* A plausible mistake: the id is read when the request is made, the       *)
(* values before the confirmations.                                        *)
ServerStores_CurrentId(s) ==
    /\ s.at = "sent"
    /\ submits' = Moved(s, "stored")
    /\ stored' = IF target = New THEN stored ELSE [stored EXCEPT ![target] = s.values]
    /\ UNCHANGED <<kind, screen, loading, loads, fetches, offer, timers, opens, count, crossed,
                   blanked, failed>>

(* The server stores a PUT; an empty tag form changes nothing.             *)
ServerStores(s) ==
    /\ s.at = "sent"
    /\ submits' = Moved(s, "stored")
    /\ stored' = IF s.id = New \/ s.values = {} THEN stored ELSE [stored EXCEPT ![s.id] = s.values]
    /\ UNCHANGED <<kind, screen, loading, loads, fetches, offer, timers, opens, count, crossed,
                   blanked, failed>>

(* Its answer closes the dialog, whichever record that shows by now, and   *)
(* turns its spinner off unless closing has started a load.                *)
Saved(s) ==
    /\ s.at = "stored"
    /\ IF visible
       THEN HandleClose(submits \ {s}, kind = "channel" /\ loading)
       ELSE /\ submits' = submits \ {s}
            /\ timers' = IF kind = "token" THEN timers + 1 ELSE timers
            /\ loading' = (kind = "channel" /\ loading)
            /\ kept' = IF kind = "channel" /\ s.id = New THEN {} ELSE kept
            /\ UNCHANGED <<visible, target, values, loads>>
    /\ UNCHANGED <<kind, fetches, offer, stored, opens, count, crossed, blanked, failed>>

(* The PUT is refused: the token dialog empties its form all the same.  Or *)
(* the request is rejected, stored or not, and the spinner of the token    *)
(* and the user dialog stays.                                              *)
NotSaved(s) ==
    /\ s.at \in {"sent", "stored"}
    /\ submits' = submits \ {s}
    /\ failed' = TRUE
    /\ \/ /\ s.at = "sent"
          /\ loading' = (kind = "channel" /\ loading)
          /\ IF kind = "token" THEN values' = {} /\ blanked' = (blanked \/ visible)
             ELSE UNCHANGED <<values, blanked>>
       \/ /\ loading' = (kind # "tag" /\ loading)
          /\ UNCHANGED <<values, blanked>>
    /\ UNCHANGED <<kind, visible, target, kept, loads, fetches, offer, timers, stored, opens,
                   count, crossed>>

-----------------------------------------------------------------------------
Next ==
    \/ \E x \in Id : Open(x) \/ LoadArrives(x) \/ LoadFails(x)
                    \/ ModelsArrive(x) \/ ModelsFail(x)
    \/ Close \/ TimerFires \/ Edit \/ FetchModels \/ SelectModels
    \/ \E at \in {"missing", "risk", "sent"} : Submit(at)
    \/ \E s \in submits :
          \/ ServerStores(s) \/ Saved(s) \/ NotSaved(s)
          \/ \E add \in BOOLEAN : Confirm(s, add)

Spec == Init /\ [][Next]_vars

-----------------------------------------------------------------------------
(* What is stored under an id comes from the record with that id, or was   *)
(* typed: the values of one record are never saved as another's, however   *)
(* openings, answers and saves overlap, unless the form had shown them,    *)
(* filled by an answer that was still under way for the other record, or   *)
(* the user dialog's load failed.                                          *)
OwnValues ==
    \A x \in Record :
        stored[x] \subseteq {x, Own} \/ x \in crossed \/ (kind = "user" /\ failed)

(* Once its load is answered, the dialog shows the record it was opened    *)
(* for, unless a late answer filled it with another one, the form was      *)
(* emptied behind the user's back or a request failed.                     *)
ShowsTarget ==
    visible /\ target \in Record /\ target \notin loads =>
        target \in values \/ target \in crossed \/ blanked \/ failed

(* The spinner stops when nothing is in flight, unless a request failed.   *)
SpinnerStops ==
    loads = {} /\ fetches = {} /\ (\A s \in submits : s.at \in {"missing", "risk"}) =>
        ~loading \/ failed
=============================================================================
