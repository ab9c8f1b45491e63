-------------------------------- MODULE ToolCall --------------------------------
(***************************************************************************)
(* What a caller of the tool gateway may rely on: an action that several   *)
(* calls ask for runs at most once, sooner or later or never; one of them  *)
(* at most is told that it executed it, the others that it was there; an   *)
(* error tells nothing about it; and who asks whether it is applied is     *)
(* told so only if it is.                                                  *)
(***************************************************************************)
EXTENDS Naturals

CONSTANTS Callers, Keys, NoKey

VARIABLES
  runs,    \* runs[k]: how often the action of key k has run
  asked,   \* asked[c]: the action c is about, or NoKey
  wants,   \* wants[c]: to have it ("call") or to know about it ("query")
  told     \* told[c]: how the call of c ended

vars == <<runs, asked, wants, told>>

Init ==
  /\ runs = [k \in Keys |-> 0]
  /\ asked = [c \in Callers |-> NoKey]
  /\ wants = [c \in Callers |-> "call"]
  /\ told = [c \in Callers |-> "none"]

Ask(c, k, want) ==
  /\ asked[c] = NoKey
  /\ asked' = [asked EXCEPT ![c] = k]
  /\ wants' = [wants EXCEPT ![c] = want]
  /\ UNCHANGED <<runs, told>>

\* Only what somebody asked for, even if nobody waits for it any longer.
Perform(k) ==
  /\ runs[k] = 0
  /\ \E c \in Callers : asked[c] = k /\ wants[c] = "call"
  /\ runs' = [runs EXCEPT ![k] = 1]
  /\ UNCHANGED <<asked, wants, told>>

Tell(c, answer) ==
  /\ asked[c] # NoKey /\ told[c] = "none"
  /\ answer \in {"EXECUTED", "SKIPPED_IDEMPOTENT", "APPLIED"} => runs[asked[c]] = 1
  /\ answer = "EXECUTED" =>
       \A d \in Callers : asked[d] = asked[c] => told[d] # "EXECUTED"
  /\ told' = [told EXCEPT ![c] = answer]
  /\ UNCHANGED <<runs, asked, wants>>

Next ==
  \/ \E c \in Callers, k \in Keys, want \in {"call", "query"} : Ask(c, k, want)
  \/ \E k \in Keys : Perform(k)
  \/ \E c \in Callers :
       \/ \E a \in {"EXECUTED", "SKIPPED_IDEMPOTENT", "MCPGatewayError"} : Tell(c, a)
       \/ \E a \in {"APPLIED", "NOT_APPLIED"} : Tell(c, a)

Spec == Init /\ [][Next]_vars
===============================================================================
