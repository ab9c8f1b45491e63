-------------------------------- MODULE Planner --------------------------------
(***************************************************************************)
(* planner.py and tools.py: what the model's text makes the loop do.  A    *)
(* text is a sequence of pieces, some of it in a code fence:               *)
(*   "prose"     words without braces                                      *)
(*   "braces"    a balanced {...} that is not JSON                         *)
(*   "unclosed"  an opening brace that is never closed                     *)
(*   "object"    a JSON object                                             *)
(*   "quoted"    a JSON object with a lone closing brace inside a string   *)
(*   "list"      a JSON array around one object                            *)
(* Names are compared with the blanks around them stripped; the dots of a   *)
(* tool name are underscores here.                                         *)
(***************************************************************************)
EXTENDS Naturals, Sequences

CONSTANT None

\* A value of an argument: its JSON type, its text, and its number: what an int or a bool
\* counts as, and the length of a list or a dict.
Str(s) == [type |-> "str", text |-> s, num |-> 0]
Int(n, s) == [type |-> "int", text |-> s, num |-> n]
Bool(b) == IF b THEN [type |-> "bool", text |-> "True", num |-> 1]
                ELSE [type |-> "bool", text |-> "False", num |-> 0]
Sized(type, n) == [type |-> type, text |-> type, num |-> n]   \* list, dict
Other(type) == Sized(type, 0)                                 \* null, nan

Prose(kind) == [kind |-> kind, obj |-> None]
Json(kind, obj) == [kind |-> kind, obj |-> obj]

\* What the commander sees of a text.
Action(tool, args, done) == [tool |-> tool, args |-> args, done |-> done]
NoArgs == <<>>
Hold == Action(None, NoArgs, FALSE)

-------------------------------------------------------------------------------
(* planner.py *)

_strip_fences(text) == IF text.fence = None THEN text.pieces ELSE text.fence

HasBrace(piece) == piece.kind # "prose"

\* From the first brace on, the first {...} whose braces match, or nothing: a group that
\* is not JSON ends the search, and so does a brace that is never closed.
FirstGroup(pieces) ==
  LET braced == SelectSeq(pieces, HasBrace)
  IN  IF braced # <<>> /\ braced[1].kind \in {"object", "list"} THEN braced[1].obj ELSE None

\* The whole text as JSON, if that is an object; else its first group.
_extract_json(text) ==
  LET pieces == _strip_fences(text)
  IN  IF Len(pieces) = 1 /\ pieces[1].kind \in {"object", "quoted"}
      THEN pieces[1].obj
      ELSE FirstGroup(pieces)

\* bool(v): only null, false, zero, and what is empty is not; "false" and NaN are.
Truthy(v) ==
  \/ v.type = "nan"
  \/ v.type = "str" /\ v.text # ""
  \/ v.type \in {"int", "bool", "list", "dict"} /\ v.num # 0

\* args is None when it is there and not a dict; a missing or non-string tool is None.
parse_action(text) ==
  LET obj == _extract_json(text)
  IN  CASE obj = None -> Hold
        [] obj # None /\ Truthy(obj.done) -> Action(None, NoArgs, TRUE)
        [] OTHER -> IF obj.tool = None \/ obj.args = None
                    THEN Hold
                    ELSE Action(obj.tool, obj.args, FALSE)

-------------------------------------------------------------------------------
(* tools.py *)

Tool(destructive, required, target_field) ==
  [destructive |-> destructive, required |-> required, target_field |-> target_field]

REGISTRY == [
  cw_get_metrics   |-> Tool(FALSE, {}, "metric"),
  logs_query       |-> Tool(FALSE, {}, "log_group"),
  k8s_describe     |-> Tool(FALSE, {"node"}, "node"),
  github_revert_pr |-> Tool(TRUE, {"pr"}, "pr"),
  k8s_cordon_drain |-> Tool(TRUE, {"node"}, "node"),
  asg_scale        |-> Tool(TRUE, {"asg", "replicas"}, "asg"),
  statuspage_post  |-> Tool(FALSE, {"message"}, "message")]

\* Presence only: a value of the wrong type passes.
validate_args(tool, args) == REGISTRY[tool].required \subseteq DOMAIN args

\* str(args.get(tool.target_field, "default")): the other arguments make no difference.
idempotency_target(tool, args) ==
  LET field == REGISTRY[tool].target_field
  IN  IF field \in DOMAIN args THEN args[field].text ELSE "default"
===============================================================================
