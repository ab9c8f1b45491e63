---------------------------- MODULE MCGatewayClient ----------------------------
(* Calls of two actions, one of which can be looked up. *)
EXTENDS GatewayClient

MCKeys == {<<"github_revert_pr", "PR-1">>, <<"statuspage_post", "update">>}
===============================================================================
