---------------------------- MODULE SettingsForm ----------------------------
(***************************************************************************)
(* The settings page of the console (pages/Setting, components/settings):  *)
(* a section loads /api/option/ once and hands the options to its forms;   *)
(* every form keeps what the user typed (inputs) and what was loaded       *)
(* (inputsRow), sends the fields that differ with one PUT each, all at     *)
(* once, and has its section load everything again when they are stored.   *)
(* The user goes on typing, and saves the next form, while requests are in *)
(* flight; they are refused, fail, or are stored and their answer is lost. *)
(***************************************************************************)
EXTENDS Naturals, FiniteSets, SettingsCatalog

CONSTANTS
    Mounted,       \* the forms on screen together: a set of functions on 1..n
    MaxEdits,      \* bound on the fields the user changes
    MaxSaves,      \* bound on the submissions
    MaxFaults      \* bound on what fails and on the turns of the sync loop

(* "rough" is another spelling of "v2"; the server and the forms that      *)
(* validate refuse "wrong"; "v2" in Epay's field "a" enables it.           *)
Value == {"", "v1", "v2", "rough", "wrong"}
Normalized(v) == IF v = "rough" THEN "v2" ELSE v

VARIABLES
    forms,       \* the forms on screen
    option,      \* OptionMap, what the server works with, per form and field
    database,    \* the option table behind it
    synced,      \* what the sync loop has read of the table
    inputs, row, \* per form: inputs and inputsRow (originAppGateway of Alipay)
    keySaved,    \* per form: a secret is known to be stored
    saving,      \* per form: loading
    notice,      \* per form: what the last submission said
    puts,        \* PUTs in flight
    refused,     \* per form: a PUT of the running submission was refused
    closure,     \* per form: the inputs of the render that submitted
    updateArray, \* per form: the fields that it sent
    get,         \* the shared GET: "none", "asked", or "read" by the server
    snap,        \* what the server read for it
    waiting,     \* the sections that wait for it: their spinner turns
    edits, saves, faults,
    lost,        \* history: a request failed, or the sync loop changed OptionMap
    dropped,     \* history: the table was not written, an error that is ignored
    partial,     \* history, per form: the last save was refused, parts may be stored
    stale        \* history: a section joined a GET that was read before

formState == <<inputs, row, keySaved>>
saveState == <<saving, notice, puts, refused, closure, updateArray>>
getState == <<get, snap, waiting>>
serverState == <<option, database, synced, dropped>>
vars == <<forms, serverState, formState, saveState, getState, edits, saves, faults, lost, partial,
          stale>>

Slot == DOMAIN forms
Sections == {forms[s].section : s \in Slot}

(* A PUT carries its form, field and value; it is live until another PUT   *)
(* of the same submission fails.                                           *)
Put == [slot : {1, 2}, field : Field, value : Value, live : BOOLEAN,
        st : {"sent", "stored", "refused"}]

TypeOK ==
    /\ forms \in Mounted
    /\ {option, database, synced, inputs, row, snap, closure}
          \subseteq [Slot -> [Field -> Value]]
    /\ {keySaved, saving, refused, partial} \subseteq [Slot -> BOOLEAN]
    /\ updateArray \in [Slot -> SUBSET Field]
    /\ notice \in [Slot -> {"none", "saved", "refused", "failed"}]
    /\ puts \subseteq Put
    /\ get \in {"none", "asked", "read"}
    /\ waiting \subseteq Sections
    /\ edits \in 0..MaxEdits /\ saves \in 0..MaxSaves /\ faults \in 0..MaxFaults
    /\ {lost, dropped, stale} \subseteq BOOLEAN

(* What the effect on props.options makes of the options: a secret is      *)
(* shown blank.                                                            *)
Shown(f, o) == [k \in Field |-> IF k = "b" /\ f.secret THEN "" ELSE o[k]]

(* A mounted page: its sections share the first GET.                       *)
Init ==
    /\ forms \in Mounted
    /\ option \in [Slot -> [Field -> {"v1"}] \cup [a : {"v1"}, b : {""}]]
    /\ \A s \in Slot : ~forms[s].secret => option[s]["b"] = "v1"
    /\ database = option /\ synced = option /\ dropped = FALSE
    /\ inputs = [s \in Slot |-> [k \in Field |-> ""]] /\ row = inputs /\ closure = inputs
    /\ keySaved = [s \in Slot |-> FALSE]
    /\ saving = [s \in Slot |-> FALSE] /\ notice = [s \in Slot |-> "none"]
    /\ puts = {} /\ refused = [s \in Slot |-> FALSE] /\ updateArray = [s \in Slot |-> {}]
    /\ get = "asked" /\ snap = option /\ waiting = Sections
    /\ edits = 0 /\ saves = 0 /\ faults = 0
    /\ lost = FALSE /\ partial = [s \in Slot |-> FALSE] /\ stale = FALSE

(***************************************************************************)
(* The user.                                                               *)
(***************************************************************************)

(* A field is edited, also while the form is being saved or loaded: the    *)
(* spinner takes the clicks but not the keyboard.                          *)
Edit(s, k, v) ==
    /\ edits < MaxEdits /\ inputs[s][k] # v
    /\ v = "rough" => forms[s].normalizes
    /\ k = "b" /\ forms[s].secret => v \in {"", "v1", "v2"}
    /\ k = "a" \/ ~forms[s].secret => v # ""
    /\ edits' = edits + 1
    /\ inputs' = [inputs EXCEPT ![s][k] = v]
    /\ UNCHANGED <<forms, serverState, row, keySaved, saveState, getState, saves, faults, lost, partial, stale>>

(* A plausible mistake: a form that sends everything sends its secret too. *)
Changed_WithSecret(s) ==
    {k \in Field : inputs[s][k] # row[s][k]} \cup (IF forms[s].all THEN Field ELSE {})

(* compareObjects: the fields of the form that differ from the loaded      *)
(* ones; Epay sends its ordinary fields anyway.                            *)
Changed(s) ==
    {k \in Field : inputs[s][k] # row[s][k]} \cup (IF forms[s].all THEN {"a"} ELSE {})

(* A plausible mistake: the missing key is not noticed.                    *)
Valid_NoKeyNeeded(s) == forms[s].validates => \A k \in Field : inputs[s][k] # "wrong"

(* The form has nothing against its inputs.                                *)
Valid(s) ==
    /\ forms[s].validates => \A k \in Field : inputs[s][k] # "wrong"
    /\ CASE forms[s].needsKey = "never" -> TRUE
         [] forms[s].needsKey = "always" -> keySaved[s] \/ inputs[s]["b"] # ""
         [] forms[s].needsKey = "enabled" ->
              inputs[s]["a"] = "v2" => keySaved[s] \/ inputs[s]["b"] # ""

Sent(s, k) == IF forms[s].normalizes THEN Normalized(inputs[s][k]) ELSE inputs[s][k]

(* onSubmit, submitAlipay, submitEpay.  The spinners of the form and of    *)
(* its section cover the button.                                           *)
OnSubmit(s) ==
    /\ ~saving[s] /\ forms[s].section \notin waiting /\ saves < MaxSaves
    /\ Changed(s) # {} /\ Valid(s)
    /\ saves' = saves + 1
    /\ puts' = puts \cup {[slot |-> s, field |-> k, value |-> Sent(s, k), live |-> TRUE,
                           st |-> "sent"] : k \in Changed(s)}
    /\ saving' = [saving EXCEPT ![s] = TRUE]
    /\ notice' = [notice EXCEPT ![s] = "none"]
    /\ refused' = [refused EXCEPT ![s] = FALSE]
    /\ closure' = [closure EXCEPT ![s] = inputs[s]]
    /\ updateArray' = [updateArray EXCEPT ![s] = Changed(s)]
    /\ UNCHANGED <<forms, serverState, formState, getState, edits, faults, lost, partial, stale>>

(* A request fails, a statement fails, or the sync loop takes its turn.    *)
Fault == faults < MaxFaults /\ faults' = faults + 1

(***************************************************************************)
(* The server.  UpdateOption: the controller refuses the value and nothing *)
(* changes; or it is saved in the table and taken into OptionMap, and one  *)
(* that does not parse is refused only after that.  An error of the table  *)
(* is ignored: OptionMap has the new value then, and the table the old one.*)
(***************************************************************************)
UpdateOption(p) ==
    /\ p.st = "sent"
    /\ \/ /\ puts' = (puts \ {p}) \cup {[p EXCEPT !.st = "refused"]}
          /\ UNCHANGED <<option, database, dropped, faults>>
       \/ /\ puts' = (puts \ {p}) \cup
                        {[p EXCEPT !.st = IF p.value = "wrong" THEN "refused" ELSE "stored"]}
          /\ option' = [option EXCEPT ![p.slot][p.field] = p.value]
          /\ \/ /\ database' = [database EXCEPT ![p.slot][p.field] = p.value]
                /\ UNCHANGED <<dropped, faults>>
             \/ /\ Fault /\ dropped' = TRUE
                /\ UNCHANGED database
    /\ UNCHANGED <<forms, synced, formState, saving, notice, refused, closure, updateArray, getState,
                   edits, saves, lost, partial, stale>>

(* SyncOptions: the loop reads the rows, and then takes them into          *)
(* OptionMap one by one, also over a value that was stored in between.     *)
SyncReads ==
    /\ synced # database /\ Fault
    /\ synced' = database
    /\ UNCHANGED <<forms, option, database, dropped, formState, saveState, getState, edits, saves,
                   lost, partial, stale>>

SyncWrites(s, k) ==
    /\ option[s][k] # synced[s][k]
    /\ option' = [option EXCEPT ![s][k] = synced[s][k]]
    /\ lost' = TRUE
    /\ UNCHANGED <<forms, database, synced, dropped, formState, saveState, getState, edits, saves,
                   faults, partial, stale>>

(***************************************************************************)
(* onRefresh of a section: an equal GET in flight is shared.               *)
(***************************************************************************)
OnRefresh(section) ==
    /\ waiting' = waiting \cup {section}
    /\ get' = IF get = "none" THEN "asked" ELSE get
    /\ snap' = IF get = "none" THEN option ELSE snap
    /\ stale' = (stale \/ get = "read")

(* The answer of a PUT.  With the last one Promise.all resolves: a checked *)
(* form looks at the answers, the others only say "saved"; then the        *)
(* section is loaded again.  Alipay and Epay also remember that a secret   *)
(* is stored, and Alipay takes its inputs of the submission for loaded.    *)
Others(p) == {q \in puts : q.slot = p.slot /\ q.live /\ q # p}

Saved(s) ==
    /\ notice' = [notice EXCEPT ![s] = "saved"]
    /\ keySaved' = [keySaved EXCEPT ![s] =
                        @ \/ (forms[s].needsKey # "never" /\ closure[s]["b"] # "")]
    /\ row' = [row EXCEPT ![s] =
                   [k \in Field |-> IF k \in forms[s].rebases THEN closure[s][k] ELSE @[k]]]
    /\ partial' = [partial EXCEPT ![s] = FALSE]
    /\ OnRefresh(forms[s].section)

NotSaved(s) ==
    /\ notice' = [notice EXCEPT ![s] = "refused"]
    /\ partial' = [partial EXCEPT ![s] = TRUE]
    /\ UNCHANGED <<row, keySaved, getState, stale>>

(* A plausible mistake: the first answer counts for all.                   *)
PutAnswered_First(p) ==
    LET s == p.slot
    IN  /\ p.live /\ p.st # "sent"
        /\ puts' = {IF q.slot = s THEN [q EXCEPT !.live = FALSE] ELSE q : q \in puts \ {p}}
        /\ refused' = [refused EXCEPT ![s] = p.st = "refused"]
        /\ saving' = [saving EXCEPT ![s] = FALSE]
        /\ IF forms[s].checked /\ p.st = "refused" THEN NotSaved(s) ELSE Saved(s)
        /\ UNCHANGED <<forms, serverState, inputs, closure, updateArray, edits, saves, faults, lost>>

PutAnswered(p) ==
    LET s == p.slot
        no == refused[s] \/ p.st = "refused"
    IN  /\ p.live /\ p.st # "sent"
        /\ puts' = puts \ {p}
        /\ refused' = [refused EXCEPT ![s] = no]
        /\ IF Others(p) # {}
           THEN UNCHANGED <<saving, notice, row, keySaved, getState, partial, stale>>
           ELSE /\ saving' = [saving EXCEPT ![s] = FALSE]
                /\ IF forms[s].checked /\ no THEN NotSaved(s) ELSE Saved(s)
        /\ UNCHANGED <<forms, serverState, inputs, closure, updateArray, edits, saves, faults, lost>>

(* A plausible mistake: the spinner is only taken back after success.      *)
PutFails_KeepsSpinner(p) ==
    /\ Fault /\ lost' = TRUE
    /\ puts' = {IF p.live /\ q.slot = p.slot THEN [q EXCEPT !.live = FALSE] ELSE q : q \in puts \ {p}}
    /\ notice' = IF p.live THEN [notice EXCEPT ![p.slot] = "failed"] ELSE notice
    /\ UNCHANGED <<forms, serverState, formState, saving, refused, closure, updateArray, getState,
                   edits, saves, partial, stale>>

(* A PUT fails for the browser: it did not arrive, its answer is lost, or  *)
(* the server still works on it.  Promise.all rejects at once; the other   *)
(* PUTs of the submission go on.                                           *)
PutFails(p) ==
    /\ Fault /\ lost' = TRUE
    /\ \E rest \in {puts, puts \ {p}} :
          puts' = {IF p.live /\ q.slot = p.slot THEN [q EXCEPT !.live = FALSE] ELSE q : q \in rest}
    /\ saving' = [saving EXCEPT ![p.slot] = @ /\ ~p.live]
    /\ notice' = IF p.live THEN [notice EXCEPT ![p.slot] = "failed"] ELSE notice
    /\ UNCHANGED <<forms, serverState, formState, refused, closure, updateArray, getState, edits,
                   saves, partial, stale>>

(* The answer of a PUT whose submission has failed before.                 *)
LateAnswer(p) ==
    /\ ~p.live /\ p.st # "sent"
    /\ puts' = puts \ {p}
    /\ UNCHANGED <<forms, serverState, formState, saving, notice, refused, closure, updateArray, getState,
                   edits, saves, faults, lost, partial, stale>>

(***************************************************************************)
(* GetOptions, and its answer: every form of the sections that wait takes  *)
(* the options into inputs and inputsRow, whatever was typed there.        *)
(***************************************************************************)
GetOptions ==
    /\ get = "asked"
    /\ get' = "read" /\ snap' = option
    /\ UNCHANGED <<forms, serverState, formState, saveState, waiting, edits, saves, faults, lost, partial, stale>>

Reset(s, old) == IF forms[s].section \in waiting THEN Shown(forms[s], snap[s]) ELSE old

(* A plausible mistake: inputsRow is only set by the first load.           *)
OptionsArrive_InputsOnly ==
    /\ get = "read"
    /\ get' = "none" /\ waiting' = {}
    /\ inputs' = [s \in Slot |-> Reset(s, inputs[s])]
    /\ row' = IF saves = 0 THEN [s \in Slot |-> Reset(s, row[s])] ELSE row
    /\ UNCHANGED <<forms, serverState, keySaved, saveState, snap, edits, saves, faults, lost, partial, stale>>

OptionsArrive ==
    /\ get = "read"
    /\ get' = "none" /\ waiting' = {}
    /\ inputs' = [s \in Slot |-> Reset(s, inputs[s])]
    /\ row' = [s \in Slot |-> Reset(s, row[s])]
    /\ keySaved' = [s \in Slot |-> IF forms[s].section \in waiting /\ forms[s].needsKey # "never"
                                   THEN snap[s]["b"] # "" ELSE keySaved[s]]
    /\ UNCHANGED <<forms, serverState, saveState, snap, edits, saves, faults, lost, partial, stale>>

GetFails ==
    /\ get # "none"
    /\ get' = "none" /\ waiting' = {} /\ Fault /\ lost' = TRUE
    /\ UNCHANGED <<forms, serverState, formState, saveState, snap, edits, saves, partial, stale>>

Next ==
    \/ \E s \in Slot, k \in Field, v \in Value : Edit(s, k, v)
    \/ \E s \in Slot : OnSubmit(s)
    \/ \E p \in puts : UpdateOption(p)
    \/ SyncReads
    \/ \E s \in Slot, k \in Field : SyncWrites(s, k)
    \/ \E p \in puts : PutAnswered(p)
    \/ \E p \in puts : PutFails(p)
    \/ \E p \in puts : LateAnswer(p)
    \/ GetOptions \/ OptionsArrive \/ GetFails

Spec == Init /\ [][Next]_vars

(***************************************************************************)
(* Properties.                                                             *)
(***************************************************************************)
Quiet == puts = {} /\ get = "none"

(* Where a stored value is: in OptionMap, and in the table unless an error *)
(* of a statement was ignored.                                             *)
Stored == IF dropped THEN {option} ELSE {option, database}

(* When a form that looks at the answers says "saved", every field that it *)
(* sent is stored at the server as sent, also when the user went on typing,*)
(* and for the other forms when nothing was refused.  (They say "saved"    *)
(* after a refusal too.  A PUT of an earlier save that failed may be       *)
(* stored later than the one that was confirmed.  The sync loop may put    *)
(* back an older value, for good when the error of a statement was         *)
(* ignored: then the server works with the value and forgets it.)          *)
SavedIsStored ==
    [][\A s \in Slot :
         /\ notice[s] # "saved" /\ notice'[s] = "saved"
         /\ ~lost /\ (forms[s].checked \/ ~refused'[s])
         => \A o \in Stored, k \in updateArray[s] :
                o[s][k] = IF forms[s].normalizes THEN Normalized(closure[s][k])
                                                 ELSE closure[s][k]]_vars

(* When nothing is in flight, the fields that the next save would send are *)
(* exactly the ones that differ from OptionMap: no edit looks saved and is *)
(* not, and no stored value is sent again.  Not after a request has failed *)
(* or the sync loop has changed OptionMap, after a save that was refused,  *)
(* or when a section joined a GET that the server had read before the save *)
(* it follows.                                                             *)
NextSaveSendsTheRest ==
    Quiet /\ ~lost /\ ~stale =>
        \A s \in Slot : ~partial[s] /\ ~forms[s].all =>
            Changed(s) = {k \in Field : inputs[s][k] # Shown(forms[s], option[s])[k]}

(* No save ever empties a stored secret where the form says that a blank   *)
(* one is left as it is, although it is shown blank and the other fields   *)
(* are sent: a secret is only replaced.  (The form of the deployments may, *)
(* when the load after a save has failed; and the sync loop may put a      *)
(* blank back into OptionMap.)                                             *)
SecretKept ==
    [][\A s \in Slot :
         /\ forms[s].secret /\ forms[s].keeps
         /\ lost => forms[s].rebases # Field
         => /\ database[s]["b"] # "" => database'[s]["b"] # ""
            /\ option[s]["b"] # "" /\ ~lost' => option'[s]["b"] # ""]_vars

(* Epay is never left enabled without its key, once the PUTs of the save   *)
(* are stored, in OptionMap and in the table.  (They are sent together:    *)
(* one of them may be refused or fail, or not be saved without a word.)    *)
EnabledHasKey ==
    Quiet /\ ~lost =>
        \A s \in Slot, o \in Stored :
            forms[s].needsKey = "enabled" /\ o[s]["a"] = "v2" /\ ~partial[s] => o[s]["b"] # ""

(* No form and no section keeps its spinner when nothing is in flight,     *)
(* whatever failed or was refused, and whoever shared the GET.             *)
SpinnersStop == Quiet => waiting = {} /\ \A s \in Slot : ~saving[s]
=============================================================================
