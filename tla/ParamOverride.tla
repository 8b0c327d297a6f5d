--------------------------- MODULE ParamOverride ---------------------------
(***************************************************************************)
(* What a channel's parameter overrides are and how the console converts   *)
(* them: between operations and the rules that its editor shows, and       *)
(* between the text of the form and the text that is stored.               *)
(***************************************************************************)
EXTENDS Naturals, Sequences

(***************************************************************************)
(* The data.  A path is a field of the request with or without the prefix  *)
(* "body."; a scalar has its JSON type and the text it is shown as; a text *)
(* has its form and the operations it lists.                               *)
(***************************************************************************)
Path(name) == [name |-> name, body |-> FALSE]
NoPath == Path("")
Scalar(type, text) == [type |-> type, text |-> text]
Blank == Scalar("string", "")
Numeral == {"1", "2"}
None == [form |-> "none", ops |-> <<>>]
VISUAL_ACTIONS == {"set", "copy", "delete", "replace"}
Compared == {"full", "contains"}                 \* the modes of MODE_TO_COND

stripBodyPrefix(p) == [p EXCEPT !.body = FALSE]
formatBodyPath(p) == IF p.name = "" THEN NoPath ELSE [p EXCEPT !.body = TRUE]

(* A quoted text would stay a string; the users of the model type none.    *)
parseScalar(s) == Scalar(IF s \in Numeral THEN "number" ELSE "string", s)
formatScalar(v) == IF v.type = "null" THEN "" ELSE v.text

emptyRule == [condOp |-> "eq", condPath |-> NoPath, condValue |-> "", action |-> "set",
              targetPath |-> NoPath, setValue |-> "", fromPath |-> NoPath, replaceFrom |-> ""]

(***************************************************************************)
(* Operations and rules.  "path" of a copy is its "to"; "value" of a       *)
(* replace is its "from".  "more" are keep_origin and pass_missing_key.    *)
(***************************************************************************)
Operation(mode, path, from, value, conds) ==
    [mode |-> mode, path |-> path, from |-> from, value |-> value, conditions |-> conds,
     more |-> FALSE]

(* A plausible mistake: an inverted condition loses its inversion.         *)
conditionToRuleFields_NoInvert(conds) ==
    IF conds = <<>> THEN [ok |-> TRUE, condOp |-> "always", path |-> NoPath, value |-> ""]
    ELSE [ok |-> Len(conds) = 1 /\ conds[1].mode \in Compared,
          condOp |-> IF conds[1].mode = "full" THEN "eq" ELSE conds[1].mode,
          path |-> formatBodyPath(conds[1].path), value |-> formatScalar(conds[1].value)]

conditionToRuleFields(conds) ==
    IF conds = <<>> THEN [ok |-> TRUE, condOp |-> "always", path |-> NoPath, value |-> ""]
    ELSE [ok |-> /\ Len(conds) = 1 /\ conds[1].mode \in Compared
                 /\ conds[1].invert => conds[1].mode = "full",
          condOp |-> IF conds[1].mode # "full" THEN conds[1].mode
                     ELSE IF conds[1].invert THEN "neq" ELSE "eq",
          path |-> formatBodyPath(conds[1].path), value |-> formatScalar(conds[1].value)]

Visual(op) == op.mode \in VISUAL_ACTIONS /\ conditionToRuleFields(op.conditions).ok

operationToRule(op) ==
    LET cond == conditionToRuleFields(op.conditions) IN
    [condOp |-> cond.condOp, condPath |-> cond.path, condValue |-> cond.value,
     action |-> op.mode,
     targetPath |-> formatBodyPath(op.path),
     setValue |-> IF op.mode = "set" THEN formatScalar(op.value) ELSE "",
     fromPath |-> formatBodyPath(op.from),
     replaceFrom |-> IF op.mode = "replace" THEN op.value.text ELSE ""]

Target(r) == stripBodyPrefix(IF r.targetPath.name = "" THEN r.condPath ELSE r.targetPath)

(* ruleToOperation returns null for a rule that lacks one of these.        *)
Complete(r) ==
    /\ Target(r).name # ""
    /\ r.action = "copy" => r.fromPath.name # ""
    /\ r.action = "replace" => r.replaceFrom # ""
    /\ r.condOp # "always" => r.condPath.name # ""

ruleToOperation(r) ==
    Operation(r.action, Target(r),
              IF r.action = "copy" THEN stripBodyPrefix(r.fromPath) ELSE NoPath,
              CASE r.action = "set" -> parseScalar(r.setValue)
                [] r.action = "replace" -> Scalar("string", r.replaceFrom)
                [] OTHER -> Blank,
              IF r.condOp = "always" THEN <<>>
              ELSE <<[path |-> stripBodyPrefix(r.condPath), value |-> parseScalar(r.condValue),
                      mode |-> IF r.condOp \in {"eq", "neq"} THEN "full" ELSE r.condOp,
                      invert |-> r.condOp = "neq"]>>)

Each(s, f(_)) == [i \in 1..Len(s) |-> f(s[i])]

rulesToJson(rs) ==
    LET ops == Each(SelectSeq(rs, Complete), ruleToOperation)
    IN  IF ops = <<>> THEN None ELSE [form |-> "ops", ops |-> ops]

(* The rules a text stands for, whether the rules can show it, and how it  *)
(* is written as JSON.  Lines are copies without a condition, the keys of  *)
(* an object are set.                                                      *)
parseToRules(v) ==
    IF v.form \in {"none", "ops", "array", "object", "lines"} /\ \A i \in DOMAIN v.ops : Visual(v.ops[i])
    THEN [rules |-> Each(v.ops, operationToRule), visual |-> TRUE,
          text |-> IF v.form = "array" THEN [v EXCEPT !.form = "ops"] ELSE v]
    ELSE [rules |-> <<>>, visual |-> FALSE, text |-> v]

(***************************************************************************)
(* EditChannelModal: what a load shows, and what a save sends.             *)
(***************************************************************************)

(* Overrides whose operations only copy are shown as lines, without the    *)
(* conditions; other keys beside the operations are not looked at, and the *)
(* lines leave them out.                                                   *)
OnlyCopies(v) ==
    /\ v.form \in {"ops", "array", "extra"} /\ v.ops # <<>>
    /\ \A i \in DOMAIN v.ops : v.ops[i].mode = "copy"

Line(op) == Operation("copy", formatBodyPath(op.path), formatBodyPath(op.from), Blank, <<>>)
Unlined(op) == [op EXCEPT !.path = stripBodyPrefix(@), !.from = stripBodyPrefix(@)]

paramOverrideToDisplay(v) ==
    IF OnlyCopies(v) THEN [form |-> "lines", ops |-> Each(v.ops, Line)] ELSE v

displayToParamOverride(v) ==
    IF v.form = "lines" THEN [form |-> "ops", ops |-> Each(v.ops, Unlined)] ELSE v

(* submit goes on: the lines make sense, the JSON is one.                  *)
Accepted(v) == v.form \notin {"broken", "badlines"}
=============================================================================
