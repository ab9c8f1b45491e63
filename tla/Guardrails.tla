------------------------------- MODULE Guardrails -------------------------------
(***************************************************************************)
(* guardrails.py: the validators MCPGateway.execute calls before a tool    *)
(* runs and on what it returns, and the redaction of what is posted.       *)
(***************************************************************************)
EXTENDS Planner

CONSTANTS
  MIN_REPLICA_FLOOR,          \* config.MIN_REPLICA_FLOOR
  PROD_CRITICAL_NAMESPACES,   \* the names of the frozenset
  Secrets,                    \* the texts one of _SECRET_PATTERNS matches
  SecretFields                \* the arguments whose name says that they are secret

ASSUME FloorAssumption == MIN_REPLICA_FLOOR \in Nat

Get(args, field, default) == IF field \in DOMAIN args THEN args[field] ELSE default

-------------------------------------------------------------------------------
(* Before the call *)

\* What Python orders as a number: true and false too.
Counts(v) == v.type \in {"int", "bool"}

\* replicas < MIN_REPLICA_FLOOR, where "replicas" is a number; NaN is below nothing.
ScaleVerdict(args) ==
  LET replicas == Get(args, "replicas", Int(0, "0"))
  IN  CASE Counts(replicas) ->
             IF replicas.num < MIN_REPLICA_FLOOR THEN "block" ELSE "pass"
        [] replicas.type = "nan" -> "pass"
        [] OTHER -> "raise"

\* A build that takes an elevation for granted when the namespace is not named.
DrainAnywhere(args) == "pass"

\* namespace in PROD_CRITICAL_NAMESPACES hashes it; the default "" is critical to nobody.
DrainVerdict(args) ==
  LET namespace == Get(args, "namespace", Str(""))
  IN  CASE namespace.type \in {"list", "dict"} -> "raise"
        [] namespace.type = "str" /\ namespace.text \in PROD_CRITICAL_NAMESPACES ->
             IF Truthy(Get(args, "elevation", Other("null"))) THEN "pass" ELSE "block"
        [] OTHER -> "pass"

pre_tool_validate(tool, args) ==
  CASE tool = "asg_scale" -> ScaleVerdict(args)
    [] tool = "k8s_cordon_drain" -> DrainVerdict(args)
    [] OTHER -> "pass"

\* A text that matches is replaced.
redact_text(v) ==
  IF v.type = "str" /\ v.text \in Secrets THEN [v EXCEPT !.text = "[REDACTED]"] ELSE v

\* args.update(_redact_payload(dict(args))): in place, so the caller sends it redacted.
Redacted(tool, args) ==
  IF tool = "statuspage_post"
  THEN [f \in DOMAIN args |->
          IF f \in SecretFields THEN Str("[REDACTED]") ELSE redact_text(args[f])]
  ELSE args

-------------------------------------------------------------------------------
(* On the result *)

\* "json": a string that parses; "bracket": one that parses with a bracket in a string;
\* "cut": a truncated one; "text": plain words; "dict": an answer already parsed.
Payloads == {"json", "bracket", "cut", "text", "dict", "none"}

_is_balanced_json(raw) == raw \in {"json", "bracket"}
_looks_truncated(raw) == raw \in {"bracket", "cut"}

\* A build that checks the answers of every tool, the destructive ones included.
CheckEveryResult(tool, raw, corrupt) ==
  corrupt \/ (raw \notin {"dict", "none"} /\ (~_is_balanced_json(raw) \/ _looks_truncated(raw)))

\* Metrics and logs only: the plain text of a revert must pass, or the side effect would
\* be left without its record.
post_tool_blocks(tool, raw, corrupt) ==
  /\ tool \in {"cw_get_metrics", "logs_query"}
  /\ \/ corrupt
     \/ /\ raw \notin {"dict", "none"}
        /\ ~_is_balanced_json(raw) \/ _looks_truncated(raw)
===============================================================================
