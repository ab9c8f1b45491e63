---------------------------- MODULE MCScriptedRun ----------------------------
(* The scripted incident and the scripts: one worker, the three keys of Deadman.__init__. *)
EXTENDS Scripts

MCMentions == [k \in Destructive |-> {k}]
==============================================================================
