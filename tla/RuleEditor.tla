----------------------------- MODULE RuleEditor -----------------------------
(***************************************************************************)
(* The parameter overrides of a channel in its edit dialog                 *)
(* (ParamOverrideEditor, and EditChannelModal's conversions when it loads  *)
(* and saves).  The field is one text that the editor shows as a list of   *)
(* rules or as it is; every edit of a rule writes the whole list back into *)
(* the text, and changing the view converts one into the other.            *)
(***************************************************************************)
EXTENDS Naturals, Sequences, SequencesExt, ParamOverride

CONSTANTS
    Overrides,   \* what the channel may have stored at first
    Texts,       \* what the user may write as JSON
    Patches,     \* what the user may enter into a rule
    MaxChanges   \* bound: edits of rules and texts

VARIABLES
    override,   \* the channel's param_override at the server
    shown,      \* the dialog is open
    value,      \* the field of the form
    mode,       \* "visual" or "json"
    rules, jsonText, jsonError,
    loaded,     \* history: the operations at the last load
    origin,     \* history: per rule, the loaded operation it is, or 0
    given,      \* history: loaded operations that the user changed or removed
    ghost,      \* history: the text on screen is older than the rules
    changed     \* how many edits there were

editor == <<value, mode, rules, jsonText, jsonError>>
history == <<loaded, origin, given, ghost>>
vars == <<override, shown, editor, history, changed>>

Init ==
    /\ override \in Overrides
    /\ shown = FALSE /\ value = None /\ mode = "visual" /\ rules = <<>>
    /\ jsonText = None /\ jsonError = FALSE
    /\ loaded = override.ops /\ origin = <<>> /\ given = {} /\ ghost = FALSE /\ changed = 0

(* The dialog opens, and its effect shows the loaded value.                *)
Open ==
    /\ ~shown /\ changed < MaxChanges
    /\ shown' = TRUE
    /\ value' = paramOverrideToDisplay(override)
    /\ LET next == parseToRules(value') IN
         /\ rules' = next.rules /\ jsonText' = next.text
         /\ mode' = IF next.visual THEN "visual" ELSE "json"
         /\ origin' = [i \in 1..Len(next.rules) |-> i]
    /\ jsonError' = FALSE
    /\ loaded' = override.ops /\ given' = {} /\ ghost' = FALSE
    /\ UNCHANGED <<override, changed>>

(* updateRules: every change of the rules is emitted as a whole.           *)
updateRules(rs) == rules' = rs /\ value' = rulesToJson(rs)

Change(m) == shown /\ mode = m /\ changed < MaxChanges /\ changed' = changed + 1

AddRule ==
    /\ Change("visual")
    /\ updateRules(Append(rules, emptyRule))
    /\ origin' = Append(origin, 0)
    /\ UNCHANGED <<override, shown, mode, jsonText, jsonError, loaded, given, ghost>>

RemoveRule(i) ==
    /\ Change("visual")
    /\ updateRules(RemoveAt(rules, i))
    /\ origin' = RemoveAt(origin, i)
    /\ given' = given \cup {origin[i]}
    /\ UNCHANGED <<override, shown, mode, jsonText, jsonError, loaded, ghost>>

(* The field is on screen for this condition and action.                   *)
Offered(r, f) ==
    CASE f \in {"condPath", "condValue"} -> r.condOp # "always"
      [] f = "setValue" -> r.action = "set"
      [] f = "fromPath" -> r.action = "copy"
      [] f = "replaceFrom" -> r.action = "replace"
      [] OTHER -> TRUE

(* The target follows the condition's path until it is entered itself.     *)
Patched(r, patch) ==
    LET next == [f \in DOMAIN r |-> IF f \in DOMAIN patch THEN patch[f] ELSE r[f]] IN
    IF "condPath" \in DOMAIN patch /\ (r.targetPath.name = "" \/ r.targetPath = r.condPath)
    THEN [next EXCEPT !.targetPath = patch.condPath] ELSE next

(* A plausible mistake: a patch goes to every rule with that action.       *)
PatchRule_All(i, patch) ==
    /\ Change("visual")
    /\ \A f \in DOMAIN patch : Offered(rules[i], f) /\ rules[i][f] # patch[f]
    /\ updateRules([j \in DOMAIN rules |->
                      IF rules[j].action = rules[i].action THEN Patched(rules[j], patch) ELSE rules[j]])
    /\ origin' = [origin EXCEPT ![i] = 0] /\ given' = given \cup {origin[i]}
    /\ UNCHANGED <<override, shown, mode, jsonText, jsonError, loaded, ghost>>

PatchRule(i, patch) ==
    /\ Change("visual")
    /\ \A f \in DOMAIN patch : Offered(rules[i], f) /\ rules[i][f] # patch[f]
    /\ updateRules([rules EXCEPT ![i] = Patched(@, patch)])
    /\ origin' = [origin EXCEPT ![i] = 0] /\ given' = given \cup {origin[i]}
    /\ UNCHANGED <<override, shown, mode, jsonText, jsonError, loaded, ghost>>

(* handleJsonChange: broken JSON is shown as an error and not emitted.     *)
HandleJsonChange(v) ==
    /\ Change("json") /\ v # jsonText
    /\ jsonText' = v
    /\ jsonError' = (v.form = "broken")
    /\ value' = IF v.form = "broken" THEN value ELSE v
    /\ given' = given \cup DOMAIN loaded /\ ghost' = FALSE
    /\ UNCHANGED <<override, shown, mode, rules, loaded, origin>>

(* A plausible mistake: the text is not written again from the rules.      *)
SwitchToJson_Kept ==
    /\ shown /\ mode = "visual"
    /\ mode' = "json"
    /\ UNCHANGED <<override, shown, value, rules, jsonText, jsonError, history, changed>>

(* switchMode.  Without a complete rule the text stays what it was.        *)
SwitchToJson ==
    /\ shown /\ mode = "visual"
    /\ mode' = "json"
    /\ LET json == rulesToJson(rules) IN
         /\ jsonText' = IF json = None THEN jsonText ELSE json
         /\ ghost' = (json = None /\ jsonText # None)
    /\ UNCHANGED <<override, shown, value, rules, jsonError, loaded, origin, given, changed>>

SwitchToVisual ==
    /\ shown /\ mode = "json"
    /\ LET next == parseToRules(IF jsonText = None THEN value ELSE jsonText) IN
       IF next.visual
       THEN /\ rules' = next.rules /\ mode' = "visual" /\ jsonError' = FALSE
            /\ value' = rulesToJson(next.rules)
            /\ origin' = IF ghost \/ DOMAIN loaded \subseteq given
                         THEN [i \in 1..Len(next.rules) |-> 0]
                         ELSE LET whole == SelectSeq([i \in DOMAIN rules |-> i],
                                                     LAMBDA i : Complete(rules[i]))
                              IN  [i \in 1..Len(next.rules) |-> origin[whole[i]]]
            /\ ghost' = FALSE
       ELSE jsonError' = TRUE /\ UNCHANGED <<rules, mode, value, origin, ghost>>
    /\ UNCHANGED <<override, shown, jsonText, loaded, given, changed>>

(* A save that the server takes closes the dialog.  It goes by the field   *)
(* of the form, also while the editor shows a text that it has not taken.  *)
Submit ==
    /\ shown /\ Accepted(value)
    /\ override' = displayToParamOverride(value)
    /\ shown' = FALSE
    /\ UNCHANGED <<editor, history, changed>>

Cancel ==
    /\ shown
    /\ shown' = FALSE /\ given' = {} /\ loaded' = override.ops
    /\ UNCHANGED <<override, editor, origin, ghost, changed>>

Next ==
    \/ Open \/ AddRule
    \/ \E i \in DOMAIN rules : RemoveRule(i) \/ \E p \in Patches : PatchRule(i, p)
    \/ \E v \in Texts : HandleJsonChange(v)
    \/ SwitchToJson \/ SwitchToVisual \/ Submit \/ Cancel

Spec == Init /\ [][Next]_vars

-----------------------------------------------------------------------------
Json == {"ops", "array", "object", "extra"}   \* "extra": operations and other keys
Form == Json \cup {"none", "lines", "broken", "badlines"}

TypeOK ==
    /\ {override.form, value.form, jsonText.form} \subseteq Form
    /\ shown \in BOOLEAN /\ jsonError \in BOOLEAN /\ ghost \in BOOLEAN
    /\ mode \in {"visual", "json"}
    /\ Len(origin) = Len(rules) /\ \A i \in DOMAIN origin : origin[i] \in 0..Len(loaded)
    /\ given \subseteq 0..Len(loaded) /\ changed \in 0..MaxChanges

(* What rules and lines cannot carry, by what the conversions leave out: a *)
(* text that reads as a number, null, keep_origin and pass_missing_key, a  *)
(* path that has the prefix itself, and the condition of a copy among      *)
(* copies.                                                                 *)
Lossy(op) ==
    \/ op.more \/ op.path.body \/ op.from.body
    \/ op.mode = "set" /\ parseScalar(formatScalar(op.value)) # op.value
    \/ \E i \in DOMAIN op.conditions :
         parseScalar(formatScalar(op.conditions[i].value)) # op.conditions[i].value
    \/ op.conditions # <<>> /\ \A i \in DOMAIN loaded : loaded[i].mode = "copy"

(* What the server has after a save now.                                   *)
Saved == IF shown THEN displayToParamOverride(value) ELSE override

(* Whatever the user does to some rules, in either view, the overrides he  *)
(* left alone are still there after a save, in the order in which they are *)
(* applied (updateRules, switchMode, displayToParamOverride); and so are   *)
(* the other keys of an override in which he changed nothing, except when  *)
(* its operations are all copies (paramOverrideToDisplay drops the keys).  *)
UntouchedKept ==
    LET left == {i \in DOMAIN loaded \ given : ~Lossy(loaded[i])} IN
    /\ \A i \in left : \E a \in DOMAIN Saved.ops : Saved.ops[a] = loaded[i]
    /\ \A i, j \in left : i < j =>
         \E a, b \in DOMAIN Saved.ops :
            a < b /\ Saved.ops[a] = loaded[i] /\ Saved.ops[b] = loaded[j]
    /\ override.form = "extra" /\ given = {} /\ ~OnlyCopies(override) => Saved.form = "extra"

(* What the rules make of a text.                                          *)
Reread(v) == rulesToJson(parseToRules(v).rules)

(* A save stores what the dialog shows: the rules on screen, or the text,  *)
(* unless the editor shows an error (handleJsonChange).  Excused is a text *)
(* that stays on screen when all rules are gone (switchMode).              *)
SavesWhatItShows ==
    shown /\ ~jsonError /\ ~ghost =>
       IF mode = "visual" THEN Reread(value) = rulesToJson(rules)
       ELSE jsonText = value \/ (parseToRules(value).visual /\ Reread(jsonText) = Reread(value))
=============================================================================
