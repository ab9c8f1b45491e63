-------------------------------- MODULE SafeTools --------------------------------
(***************************************************************************)
(* mcp_servers/deadman_safe_tools.py: the tool server behind the gateway.  *)
(* It keeps no idempotency keys: it applies whatever reaches it, and tells *)
(* what it finds.                                                          *)
(***************************************************************************)
EXTENDS Naturals

VARIABLES
  reverted_prs,     \* _reverted_prs
  cordoned_nodes,   \* _cordoned_nodes
  scaled_asgs,      \* the keys of _scaled_asgs
  status_updates    \* the messages of _status_updates

serverVars == <<reverted_prs, cordoned_nodes, scaled_asgs, status_updates>>

ServerInit ==
  /\ reverted_prs = {}
  /\ cordoned_nodes = {}
  /\ scaled_asgs = {}
  /\ status_updates = {}

-------------------------------------------------------------------------------
(* The tools that change something *)

github_revert_pr(pr) ==
  /\ reverted_prs' = reverted_prs \cup {pr}
  /\ UNCHANGED <<cordoned_nodes, scaled_asgs, status_updates>>

k8s_cordon_drain(node) ==
  /\ cordoned_nodes' = cordoned_nodes \cup {node}
  /\ UNCHANGED <<reverted_prs, scaled_asgs, status_updates>>

asg_scale(asg) ==
  /\ scaled_asgs' = scaled_asgs \cup {asg}
  /\ UNCHANGED <<reverted_prs, cordoned_nodes, status_updates>>

statuspage_post(message) ==
  /\ status_updates' = status_updates \cup {message}
  /\ UNCHANGED <<reverted_prs, cordoned_nodes, scaled_asgs>>

\* What the tool of action k, a <<tool, target>> pair, does.
Run(k) ==
  \/ k[1] = "github_revert_pr" /\ github_revert_pr(k[2])
  \/ k[1] = "k8s_cordon_drain" /\ k8s_cordon_drain(k[2])
  \/ k[1] = "asg_scale" /\ asg_scale(k[2])
  \/ k[1] = "statuspage_post" /\ statuspage_post(k[2])

-------------------------------------------------------------------------------
(* The tools that look *)

github_get_pr_state(pr) ==
  [reverted |-> pr \in reverted_prs,
   state |-> IF pr \in reverted_prs THEN "reverted" ELSE "merged"]

k8s_describe(node) ==
  [cordoned |-> node \in cordoned_nodes, unschedulable |-> node \in cordoned_nodes]

\* The actions one of them can tell about.
Visible(k) == k[1] \in {"github_revert_pr", "k8s_cordon_drain"}

Looks(k) ==
  IF k[1] = "github_revert_pr" THEN github_get_pr_state(k[2]) ELSE k8s_describe(k[2])
===============================================================================
