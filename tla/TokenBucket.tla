------------------------------ MODULE TokenBucket ------------------------------
(***************************************************************************)
(* What a rate limit promises: every client has a bucket that fills with   *)
(* the clock, up to a burst, and each admitted request takes one token.    *)
(***************************************************************************)
EXTENDS Naturals

CONSTANTS
  Clients,
  Unit,    \* a token, in the fractions that Rate and Burst count
  Rate,    \* what a tick of the clock adds
  Burst    \* what a bucket holds

VARIABLE tokens

Capped(n) == IF n < Burst THEN n ELSE Burst

TypeOK == tokens \in [Clients -> 0..Burst]

Init == tokens = [c \in Clients |-> Burst]

Tick == tokens' = [c \in Clients |-> Capped(tokens[c] + Rate)]

Take(c) ==
  /\ tokens[c] >= Unit
  /\ tokens' = [tokens EXCEPT ![c] = @ - Unit]

Next == Tick \/ \E c \in Clients : Take(c)

Spec == Init /\ [][Next]_tokens
===============================================================================
