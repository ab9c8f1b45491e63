----------------------------- MODULE WebhookProofs -----------------------------
(***************************************************************************)
(* For any rate, burst and number of clients: lazily refilled and evicted  *)
(* buckets admit what buckets that fill with the clock admit, provided     *)
(* that a bucket may be evicted only when it is full again; who waits as   *)
(* told is let in; and a drain that does not give up leaves nobody behind, *)
(* for any number of handlers.                                             *)
(***************************************************************************)
EXTENDS Webhook, FiniteSetTheorems, TLAPS

USE WebhookAssumption

-------------------------------------------------------------------------------
(* Arithmetic *)

LEMMA CappedBounds ==
  ASSUME NEW n \in Nat
  PROVE  Capped(n) \in 0..Burst /\ Capped(n) \in Nat
BY DEF Capped

LEMMA CappedTwice ==
  ASSUME NEW n \in Nat, NEW m \in Nat
  PROVE  Capped(Capped(n) + m) = Capped(n + m)
BY DEF Capped

\* What has been idle beyond the eviction time is full.
LEMMA IdleIsFull ==
  ASSUME NEW n \in Nat, NEW a \in Nat, a >= IDLE_EVICTION
  PROVE  Capped(n + a * Rate) = Burst
<1>1. PICK d \in Nat : a = IDLE_EVICTION + d
  <2>1. a - IDLE_EVICTION \in Nat /\ a = IDLE_EVICTION + (a - IDLE_EVICTION)
    OBVIOUS
  <2>2. QED
    BY <2>1
<1>2. a * Rate = Rate * IDLE_EVICTION + d * Rate
  BY <1>1
<1>3. d * Rate \in Nat /\ Rate * IDLE_EVICTION \in Nat
  OBVIOUS
<1>4. n + a * Rate >= Burst /\ n + a * Rate \in Nat
  BY <1>2, <1>3
<1>5. QED
  BY <1>4 DEF Capped

-------------------------------------------------------------------------------
(* The registry *)

\* Buckets of clients, last refilled when last seen; admitted requests have a client.
RegistryInv ==
  /\ now \in Nat
  /\ DOMAIN buckets \subseteq Clients
  /\ \A c \in DOMAIN buckets :
       /\ buckets[c].tokens \in 0..Burst
       /\ buckets[c].last_refill \in Nat
       /\ buckets[c].last_refill <= now
       /\ buckets[c].last_seen = buckets[c].last_refill
  /\ client \in [Requests -> Clients \cup {NoClient}]
  /\ handler \in [Requests -> {"idle", "auth", "running", "returned"}]
  /\ \A r \in Requests : handler[r] = "auth" => client[r] \in Clients

LEMMA RefilledBounds ==
  ASSUME RegistryInv, NEW c \in DOMAIN buckets
  PROVE  /\ Refilled(buckets[c]) \in 0..Burst
         /\ (now - buckets[c].last_refill) * Rate \in Nat
<1>1. /\ now - buckets[c].last_refill \in Nat
      /\ buckets[c].tokens \in Nat
  BY DEF RegistryInv
<1>2. (now - buckets[c].last_refill) * Rate \in Nat
  BY <1>1
<1>3. buckets[c].tokens + (now - buckets[c].last_refill) * Rate \in Nat
  BY <1>1, <1>2
<1>4. QED
  BY <1>2, <1>3, CappedBounds DEF Refilled

LEMMA AvailableBounds ==
  ASSUME RegistryInv, NEW c \in Clients
  PROVE  Available(c) \in 0..Burst
BY RefilledBounds DEF Available

\* A bucket that is thrown away was full: allow finds what would be available anyway.
LEMMA EvictedWasFull ==
  ASSUME RegistryInv, NEW c \in Clients
  PROVE  /\ TokensOf(c) = Available(c)
         /\ c \notin Kept => Available(c) = Burst
<1>1. CASE c \in Kept
  BY <1>1 DEF Kept, TokensOf, Available
<1>2. CASE c \notin DOMAIN buckets
  BY <1>2 DEF Kept, TokensOf, Available
<1>3. CASE c \in DOMAIN buckets /\ c \notin Kept
  <2>1. buckets[c].last_refill + IDLE_EVICTION < now
    BY <1>3 DEF Kept, Stale, RegistryInv
  <2>2. /\ buckets[c].last_refill \in Nat /\ now \in Nat
        /\ buckets[c].tokens \in Nat
    BY <1>3 DEF RegistryInv
  <2>3. now - buckets[c].last_refill \in Nat /\ now - buckets[c].last_refill >= IDLE_EVICTION
    BY <2>1, <2>2
  <2>4. Refilled(buckets[c]) = Burst
    BY <2>2, <2>3, IdleIsFull DEF Refilled
  <2>5. QED
    BY <1>3, <2>4 DEF TokensOf, Available
<1>4. QED
  BY <1>1, <1>2, <1>3

\* allow(c) leaves every other bucket as full as it was, and c with n tokens.
LEMMA LookedAt ==
  ASSUME RegistryInv, NEW c \in Clients, NEW n \in 0..Burst, Looked(c, n), now' = now
  PROVE  /\ DOMAIN buckets' \subseteq Clients
         /\ \A d \in DOMAIN buckets' :
              /\ buckets'[d].tokens \in 0..Burst
              /\ buckets'[d].last_refill \in Nat
              /\ buckets'[d].last_refill <= now
              /\ buckets'[d].last_seen = buckets'[d].last_refill
         /\ Available(c)' = n
         /\ \A d \in Clients \ {c} : Available(d)' = Available(d)
<1>1. /\ DOMAIN buckets' = Kept \cup {c}
      /\ buckets'[c] = [tokens |-> n, last_refill |-> now, last_seen |-> now]
      /\ \A d \in Kept \ {c} : buckets'[d] = buckets[d]
  BY DEF Looked
<1>2. Kept \subseteq DOMAIN buckets
  BY DEF Kept
<1>3. Available(c)' = n
  <2>1. Available(c)' = Capped(n + (now - now) * Rate)
    BY <1>1 DEF Available, Refilled, Capped
  <2>2. now \in Nat
    BY DEF RegistryInv
  <2>3. (now - now) * Rate = 0
    BY <2>2
  <2>4. QED
    BY <2>1, <2>3 DEF Capped
<1>4. ASSUME NEW d \in Clients \ {c} PROVE Available(d)' = Available(d)
  <2>1. CASE d \in Kept
    BY <1>1, <1>2, <2>1 DEF Available, Refilled, Capped
  <2>2. CASE d \notin Kept
    BY <1>1, <2>2, EvictedWasFull DEF Available
  <2>3. QED
    BY <2>1, <2>2
<1>5. QED
  BY <1>1, <1>2, <1>3, <1>4 DEF RegistryInv

\* The clock refills every bucket that nobody looks at.
LEMMA TickRefills ==
  ASSUME RegistryInv, now' = now + 1, buckets' = buckets, NEW c \in Clients
  PROVE  Available(c)' = Capped(Available(c) + Rate)
<1>1. CASE c \in DOMAIN buckets
  <2> DEFINE a == now - buckets[c].last_refill
             b == buckets[c].tokens
  <2>1. a \in Nat /\ b \in Nat /\ now \in Nat /\ buckets[c].last_refill \in Nat
    BY <1>1 DEF RegistryInv
  <2>2. (now + 1) - buckets[c].last_refill = a + 1
    BY <2>1
  <2>3. (a + 1) * Rate = a * Rate + Rate /\ a * Rate \in Nat
    BY <2>1
  <2>4. Available(c)' = Capped(b + (a + 1) * Rate)
    BY <1>1, <2>2 DEF Available, Refilled, Capped
  <2>5. b + (a + 1) * Rate = (b + a * Rate) + Rate /\ b + a * Rate \in Nat
    BY <2>1, <2>3
  <2>6. Capped(b + (a + 1) * Rate) = Capped(Capped(b + a * Rate) + Rate)
    BY <2>5, CappedTwice
  <2>7. Available(c) = Capped(b + a * Rate)
    BY <1>1 DEF Available, Refilled
  <2>8. QED
    BY <2>4, <2>6, <2>7
<1>2. CASE c \notin DOMAIN buckets
  BY <1>2 DEF Available, Capped
<1>3. QED
  BY <1>1, <1>2

-------------------------------------------------------------------------------
(* Refinement of TokenBucket *)

Tokens == [c \in Clients |-> Available(c)]

LimiterUnchanged == now' = now /\ buckets' = buckets

LEMMA UnchangedTokens ==
  ASSUME LimiterUnchanged
  PROVE  Tokens' = Tokens
BY DEF LimiterUnchanged, Tokens, Available, Refilled, Capped

LEMMA StepRefines ==
  ASSUME RegistryInv, [Next]_vars
  PROVE  RegistryInv' /\ (Limit!Next \/ Tokens' = Tokens)
<1>1. CASE UNCHANGED vars
  BY <1>1, UnchangedTokens DEF vars, limiter, RegistryInv, LimiterUnchanged
<1>2. ASSUME NEW r \in Requests, NEW c \in Clients, Receive(r, c)
      PROVE  RegistryInv' /\ (Limit!Next \/ Tokens' = Tokens)
  BY <1>2, UnchangedTokens DEF Receive, Goto, limiter, RegistryInv, LimiterUnchanged
<1>3. ASSUME NEW r \in Requests, Refuse(r)
      PROVE  RegistryInv' /\ (Limit!Next \/ Tokens' = Tokens)
  BY <1>3, UnchangedTokens DEF Refuse, Goto, limiter, RegistryInv, LimiterUnchanged
<1>4. ASSUME NEW r \in Requests, Throttle(r)
      PROVE  RegistryInv' /\ (Limit!Next \/ Tokens' = Tokens)
  <2>1. PICK c \in Clients : c = client[r]
    BY <1>4 DEF Throttle, RegistryInv
  <2>2. TokensOf(c) \in 0..Burst /\ TokensOf(c) = Available(c)
    BY <2>1, EvictedWasFull, AvailableBounds
  <2>3. Looked(c, TokensOf(c)) /\ now' = now
    BY <1>4, <2>1 DEF Throttle
  <2>4. /\ DOMAIN buckets' \subseteq Clients
        /\ \A d \in DOMAIN buckets' :
             /\ buckets'[d].tokens \in 0..Burst
             /\ buckets'[d].last_refill \in Nat
             /\ buckets'[d].last_refill <= now
             /\ buckets'[d].last_seen = buckets'[d].last_refill
        /\ \A d \in Clients : Available(d)' = Available(d)
    BY <2>1, <2>2, <2>3, LookedAt
  <2>5. RegistryInv'
    BY <1>4, <2>3, <2>4 DEF Throttle, Goto, RegistryInv
  <2>6. Tokens' = Tokens
    BY <2>4 DEF Tokens
  <2>7. QED
    BY <2>5, <2>6
<1>5. ASSUME NEW r \in Requests, Admit(r)
      PROVE  RegistryInv' /\ (Limit!Next \/ Tokens' = Tokens)
  <2>1. PICK c \in Clients : c = client[r]
    BY <1>5 DEF Admit, RegistryInv
  <2>2. TokensOf(c) \in 0..Burst /\ TokensOf(c) = Available(c) /\ TokensOf(c) >= Unit
    BY <1>5, <2>1, EvictedWasFull, AvailableBounds DEF Admit
  <2>3. Looked(c, TokensOf(c) - Unit) /\ now' = now
    BY <1>5, <2>1 DEF Admit
  <2>4. TokensOf(c) - Unit \in 0..Burst
    BY <2>2
  <2>5. /\ DOMAIN buckets' \subseteq Clients
        /\ \A d \in DOMAIN buckets' :
             /\ buckets'[d].tokens \in 0..Burst
             /\ buckets'[d].last_refill \in Nat
             /\ buckets'[d].last_refill <= now
             /\ buckets'[d].last_seen = buckets'[d].last_refill
        /\ Available(c)' = Available(c) - Unit
        /\ \A d \in Clients \ {c} : Available(d)' = Available(d)
    BY <2>1, <2>2, <2>3, <2>4, LookedAt
  <2>6. RegistryInv'
    BY <1>5, <2>3, <2>5 DEF Admit, Goto, RegistryInv
  <2>7. Tokens' = [Tokens EXCEPT ![c] = @ - Unit] /\ Tokens[c] >= Unit
    BY <2>1, <2>2, <2>5 DEF Tokens
  <2>8. Limit!Next
    BY <2>1, <2>7 DEF Limit!Next, Limit!Take, Tokens
  <2>9. QED
    BY <2>6, <2>8
<1>6. ASSUME NEW r \in Requests, RunReturns(r)
      PROVE  RegistryInv' /\ (Limit!Next \/ Tokens' = Tokens)
  BY <1>6, UnchangedTokens DEF RunReturns, Goto, limiter, RegistryInv, LimiterUnchanged
<1>7. ASSUME NEW r \in Requests, Respond(r)
      PROVE  RegistryInv' /\ (Limit!Next \/ Tokens' = Tokens)
  BY <1>7, UnchangedTokens DEF Respond, Goto, limiter, RegistryInv, LimiterUnchanged
<1>8. CASE Shutdown
  BY <1>8, UnchangedTokens DEF Shutdown, limiter, RegistryInv, LimiterUnchanged
<1>9. CASE Drain
  BY <1>9, UnchangedTokens DEF Drain, limiter, RegistryInv, LimiterUnchanged
<1>10. CASE Tick
  <2>1. now' = now + 1 /\ buckets' = buckets /\ client' = client /\ handler' = handler
    BY <1>10 DEF Tick, limiter
  <2>2. RegistryInv'
    BY <2>1 DEF RegistryInv
  <2>3. \A c \in Clients : Available(c)' = Capped(Available(c) + Rate)
    BY <2>1, TickRefills
  <2>4. Tokens' = [c \in Clients |-> Capped(Tokens[c] + Rate)]
    BY <2>3 DEF Tokens
  <2>5. Limit!Next
    BY <2>4 DEF Limit!Next, Limit!Tick, Limit!Capped, Capped, Tokens
  <2>6. QED
    BY <2>2, <2>5
<1>11. QED
  BY <1>1, <1>2, <1>3, <1>4, <1>5, <1>6, <1>7, <1>8, <1>9, <1>10 DEF Next

\* The limiter of the webhook keeps every client within its burst and rate, although its
\* buckets are refilled late and thrown away: it implements TokenBucket.
THEOREM LimiterImplementsTokenBucket == Spec => ImplementsTokenBucket
<1>1. Init => RegistryInv /\ Limit!Init
  BY DEF Init, RegistryInv, Limit!Init, Available
<1>2. RegistryInv /\ [Next]_vars => RegistryInv' /\ [Limit!Next]_Tokens
  BY StepRefines
<1>3. QED
  BY <1>1, <1>2, PTL DEF Spec, ImplementsTokenBucket, Limit!Spec, Tokens

-------------------------------------------------------------------------------
(* Types, and the requests in flight *)

InFlight == {r \in Requests : handler[r] \in {"running", "returned"}}

\* The count is that of the runs, so that a drain which finds it 0 finds no run.
DoorInv ==
  /\ TypeOK
  /\ in_flight = Cardinality(InFlight)
  /\ NoRunCutOff

LEMMA InFlightFinite == IsFiniteSet(InFlight) /\ Cardinality(InFlight) \in 0..Cardinality(Requests)
<1>1. InFlight \in SUBSET Requests /\ IsFiniteSet(Requests)
  BY DEF InFlight
<1>2. IsFiniteSet(InFlight) /\ Cardinality(InFlight) <= Cardinality(Requests)
  BY <1>1, FS_Subset
<1>3. Cardinality(InFlight) \in Nat /\ Cardinality(Requests) \in Nat
  BY <1>1, <1>2, FS_CardinalityType
<1>. QED
  BY <1>2, <1>3

LEMMA RefilledTime ==
  ASSUME TypeOK, RegistryInv, NEW c \in Clients, NEW n \in 0..Burst, Looked(c, n)
  PROVE  /\ DOMAIN buckets' \subseteq Clients
         /\ \A d \in DOMAIN buckets' : buckets'[d] \in Bucket
         /\ last_cleanup' \in 0..MaxTime
<1>1. /\ DOMAIN buckets' = Kept \cup {c}
      /\ buckets'[c] = [tokens |-> n, last_refill |-> now, last_seen |-> now]
      /\ \A d \in Kept \ {c} : buckets'[d] = buckets[d]
      /\ last_cleanup' \in {now, last_cleanup}
  BY DEF Looked
<1>2. Kept \subseteq DOMAIN buckets
  BY DEF Kept
<1>3. buckets'[c] \in Bucket
  BY <1>1 DEF TypeOK, Bucket
<1>. QED
  BY <1>1, <1>2, <1>3 DEF TypeOK

\* What becomes of the count when a handler moves.
LEMMA CountMoves ==
  ASSUME DoorInv, NEW r \in Requests, NEW label \in {"idle", "auth", "running", "returned"},
         Goto(r, label)
  PROVE  /\ handler' \in [Requests -> {"idle", "auth", "running", "returned"}]
         /\ Cardinality(InFlight') \in 0..Cardinality(Requests)
         /\ (r \in InFlight <=> label \in {"running", "returned"})
              => Cardinality(InFlight') = in_flight
         /\ r \notin InFlight /\ label = "running" => Cardinality(InFlight') = in_flight + 1
         /\ r \in InFlight /\ label = "idle" => Cardinality(InFlight') = in_flight - 1
<1>1. handler' \in [Requests -> {"idle", "auth", "running", "returned"}]
  BY DEF DoorInv, TypeOK, Goto
<1>2. /\ InFlight' = IF label \in {"running", "returned"}
                     THEN InFlight \cup {r} ELSE InFlight \ {r}
  BY DEF DoorInv, TypeOK, Goto, InFlight
<1>3. IsFiniteSet(InFlight) /\ in_flight = Cardinality(InFlight)
  BY InFlightFinite DEF DoorInv
<1>4. IsFiniteSet(Requests) /\ InFlight' \in SUBSET Requests
  BY DEF InFlight
<1>5. Cardinality(InFlight') \in 0..Cardinality(Requests)
  BY <1>4, FS_Subset, FS_CardinalityType
<1>6. CASE r \in InFlight /\ label \in {"running", "returned"}
  <2>1. InFlight' = InFlight
    BY <1>2, <1>6
  <2>. QED
    BY <1>1, <1>3, <1>5, <1>6, <2>1
<1>7. CASE r \notin InFlight /\ label \notin {"running", "returned"}
  <2>1. InFlight' = InFlight
    BY <1>2, <1>7
  <2>. QED
    BY <1>1, <1>3, <1>5, <1>7, <2>1
<1>8. CASE r \notin InFlight /\ label \in {"running", "returned"}
  <2>1. Cardinality(InFlight') = in_flight + 1
    BY <1>2, <1>3, <1>8, FS_AddElement
  <2>. QED
    BY <1>1, <1>5, <1>8, <2>1
<1>9. CASE r \in InFlight /\ label \notin {"running", "returned"}
  <2>1. Cardinality(InFlight') = in_flight - 1
    BY <1>2, <1>3, <1>9, FS_RemoveElement
  <2>. QED
    BY <1>1, <1>5, <1>9, <2>1
<1>. QED
  BY <1>6, <1>7, <1>8, <1>9

-------------------------------------------------------------------------------
(* Retry-After *)

\* Rounded up, the wait is long enough.
LEMMA RetryAfterIsEnough ==
  ASSUME NEW n \in Nat, n < Unit
  PROVE  /\ RetryAfter(n) \in Nat \ {0}
         /\ n + RetryAfter(n) * Rate >= Unit
<1>1. PICK q \in Nat : q = (Unit - n) \div Rate
  OBVIOUS
<1>2. Unit - n < (q + 1) * Rate
  BY <1>1
<1>. QED
  BY <1>1, <1>2 DEF RetryAfter

\* Who was told to wait has a token, or will have one when the wait is over.
Kindly(c) ==
  promised[c] # 0 =>
    \/ Available(c) >= Unit
    \/ promised[c] > now /\ Available(c) + (promised[c] - now) * Rate >= Unit

PromiseInv == \A c \in Clients : Kindly(c)

\* A tick of the clock brings the end of a wait nearer by what it fills the bucket with.
LEMMA TickIsKind ==
  ASSUME Unit <= Burst, NEW a \in 0..Burst, NEW d \in Nat \ {0}, a + d * Rate >= Unit
  PROVE  \/ Capped(a + Rate) >= Unit
         \/ d - 1 > 0 /\ Capped(a + Rate) + (d - 1) * Rate >= Unit
<1>1. d * Rate = Rate + (d - 1) * Rate
  OBVIOUS
<1>2. (d - 1) * Rate \in Nat
  OBVIOUS
<1>3. CASE a + Rate >= Burst
  BY <1>3 DEF Capped
<1>4. CASE a + Rate < Burst
  <2>1. Capped(a + Rate) + (d - 1) * Rate >= Unit
    BY <1>1, <1>2, <1>4 DEF Capped
  <2>2. CASE d = 1
    BY <1>4, <2>2 DEF Capped
  <2>3. CASE d # 1
    BY <2>1, <2>3
  <2>. QED
    BY <2>2, <2>3
<1>. QED
  BY <1>3, <1>4

LEMMA QuietIsKind ==
  ASSUME PromiseInv, LimiterUnchanged, UNCHANGED promised
  PROVE  PromiseInv'
BY DEF PromiseInv, Kindly, LimiterUnchanged, Available, Refilled, Capped

\* Whatever moves, in time, in the limiter, in a handler or in the drain, the count stays
\* that of the runs.
LEMMA StepKeepsDoor ==
  ASSUME RegistryInv, DoorInv, [Next]_vars
  PROVE  DoorInv'
<1>. USE DEF limiter, drain
<1>1. CASE UNCHANGED vars
  BY <1>1 DEF vars, DoorInv, TypeOK, InFlight, NoRunCutOff
<1>2. ASSUME NEW r \in Requests, NEW c \in Clients, Receive(r, c)
      PROVE  DoorInv'
  <2>1. r \notin InFlight /\ Goto(r, "auth")
    BY <1>2 DEF Receive, InFlight
  <2>2. Cardinality(InFlight') = in_flight
    BY <2>1, CountMoves
  <2>. QED
    BY <1>2, <2>1, <2>2, CountMoves DEF Receive, DoorInv, TypeOK, NoRunCutOff
<1>3. ASSUME NEW r \in Requests, Refuse(r)
      PROVE  DoorInv'
  <2>1. r \notin InFlight /\ Goto(r, "idle")
    BY <1>3 DEF Refuse, InFlight
  <2>2. Cardinality(InFlight') = in_flight
    BY <2>1, CountMoves
  <2>. QED
    BY <1>3, <2>1, <2>2, CountMoves DEF Refuse, DoorInv, TypeOK, NoRunCutOff
<1>4. ASSUME NEW r \in Requests, Throttle(r)
      PROVE  DoorInv'
  <2>1. r \notin InFlight /\ Goto(r, "idle") /\ client[r] \in Clients
    BY <1>4 DEF Throttle, InFlight, RegistryInv
  <2>2. Cardinality(InFlight') = in_flight
    BY <2>1, CountMoves
  <2>3. TokensOf(client[r]) \in 0..Burst /\ TokensOf(client[r]) < Unit
    BY <1>4, <2>1, EvictedWasFull, AvailableBounds DEF Throttle
  <2>4. /\ DOMAIN buckets' \subseteq Clients
        /\ \A d \in DOMAIN buckets' : buckets'[d] \in Bucket
        /\ last_cleanup' \in 0..MaxTime
    BY <1>4, <2>1, <2>3, RefilledTime DEF Throttle, DoorInv
  <2>5. now + RetryAfter(TokensOf(client[r])) \in Nat
    BY <2>3, RetryAfterIsEnough DEF DoorInv, TypeOK
  <2>6. promised' \in [Clients -> Nat]
    BY <1>4, <2>1, <2>5 DEF Throttle, DoorInv, TypeOK
  <2>7. handler' \in [Requests -> {"idle", "auth", "running", "returned"}]
    BY <2>1, CountMoves
  <2>. QED
    BY <1>4, <2>2, <2>4, <2>6, <2>7 DEF Throttle, DoorInv, TypeOK, NoRunCutOff
<1>5. ASSUME NEW r \in Requests, Admit(r)
      PROVE  DoorInv'
  <2>1. r \notin InFlight /\ Goto(r, "running") /\ client[r] \in Clients
    BY <1>5 DEF Admit, InFlight, RegistryInv
  <2>2. /\ Cardinality(InFlight') = in_flight + 1
        /\ Cardinality(InFlight') \in 0..Cardinality(Requests)
    BY <2>1, CountMoves
  <2>3. TokensOf(client[r]) \in 0..Burst /\ TokensOf(client[r]) >= Unit
    BY <1>5, <2>1, EvictedWasFull, AvailableBounds DEF Admit
  <2>4. TokensOf(client[r]) - Unit \in 0..Burst
    BY <2>3
  <2>5. /\ DOMAIN buckets' \subseteq Clients
        /\ \A d \in DOMAIN buckets' : buckets'[d] \in Bucket
        /\ last_cleanup' \in 0..MaxTime
    BY <1>5, <2>1, <2>4, RefilledTime DEF Admit, DoorInv
  <2>6. handler' \in [Requests -> {"idle", "auth", "running", "returned"}]
    BY <2>1, CountMoves
  <2>. QED
    BY <1>5, <2>2, <2>5, <2>6 DEF Admit, DoorInv, TypeOK, NoRunCutOff
<1>6. ASSUME NEW r \in Requests, RunReturns(r)
      PROVE  DoorInv'
  <2>1. r \in InFlight /\ Goto(r, "returned")
    BY <1>6 DEF RunReturns, InFlight
  <2>2. Cardinality(InFlight') = in_flight
    BY <2>1, CountMoves
  <2>. QED
    BY <1>6, <2>1, <2>2, CountMoves DEF RunReturns, DoorInv, TypeOK, NoRunCutOff
<1>7. ASSUME NEW r \in Requests, Respond(r)
      PROVE  DoorInv'
  <2>1. r \in InFlight /\ Goto(r, "idle")
    BY <1>7 DEF Respond, InFlight
  <2>2. /\ Cardinality(InFlight') = in_flight - 1
        /\ Cardinality(InFlight') \in 0..Cardinality(Requests)
    BY <2>1, CountMoves
  <2>. QED
    BY <1>7, <2>1, <2>2, CountMoves DEF Respond, DoorInv, TypeOK, NoRunCutOff
<1>8. CASE Shutdown
  BY <1>8 DEF Shutdown, DoorInv, TypeOK, InFlight, NoRunCutOff
<1>9. CASE Drain
  <2>1. in_flight = 0 => InFlight = {}
    BY InFlightFinite, FS_EmptySet DEF DoorInv
  <2>2. NoRunCutOff'
    BY <1>9, <2>1 DEF Drain, NoRunCutOff, InFlight, DoorInv, TypeOK
  <2>. QED
    BY <1>9, <2>2 DEF Drain, DoorInv, TypeOK, InFlight
<1>10. CASE Tick
  BY <1>10 DEF Tick, DoorInv, TypeOK, InFlight, NoRunCutOff
<1>. QED
  BY <1>1, <1>2, <1>3, <1>4, <1>5, <1>6, <1>7, <1>8, <1>9, <1>10 DEF Next

\* Neither a throttled nor an admitted request, of this client or of another, nor the
\* eviction of a bucket breaks a promise.
LEMMA StepKeepsPromises ==
  ASSUME Unit <= Burst, RegistryInv, DoorInv, PromiseInv, [Next]_vars
  PROVE  PromiseInv'
<1>. USE DEF limiter, drain
<1>1. CASE UNCHANGED vars
  BY <1>1, QuietIsKind DEF vars, LimiterUnchanged
<1>2. ASSUME NEW r \in Requests, NEW c \in Clients, Receive(r, c)
      PROVE  PromiseInv'
  BY <1>2, QuietIsKind DEF Receive, LimiterUnchanged
<1>3. ASSUME NEW r \in Requests,
             Refuse(r) \/ RunReturns(r) \/ Respond(r)
      PROVE  PromiseInv'
  BY <1>3, QuietIsKind DEF Refuse, RunReturns, Respond, LimiterUnchanged
<1>4. CASE Shutdown \/ Drain
  BY <1>4, QuietIsKind DEF Shutdown, Drain, LimiterUnchanged
<1>5. ASSUME NEW r \in Requests, Throttle(r)
      PROVE  PromiseInv'
  <2>1. PICK c \in Clients : c = client[r]
    BY <1>5 DEF Throttle, RegistryInv
  <2>2. TokensOf(c) \in 0..Burst /\ TokensOf(c) = Available(c) /\ TokensOf(c) < Unit
    BY <1>5, <2>1, EvictedWasFull, AvailableBounds DEF Throttle
  <2>3. \A d \in Clients : Available(d)' = Available(d)
    <3>1. Looked(c, TokensOf(c)) /\ now' = now
      BY <1>5, <2>1 DEF Throttle
    <3>. QED
      BY <2>2, <3>1, LookedAt
  <2>. DEFINE wait == RetryAfter(TokensOf(c))
  <2>4. /\ now \in Nat /\ wait \in Nat \ {0}
        /\ Available(c) + wait * Rate >= Unit
    BY <2>2, RetryAfterIsEnough DEF RegistryInv
  <2>5. /\ now' = now
        /\ promised' = [promised EXCEPT ![c] = IF @ = 0 \/ now + wait < @ THEN now + wait
                                               ELSE @]
    BY <1>5, <2>1 DEF Throttle
  <2>6. /\ (now + wait) - now = wait
        /\ now + wait > now
    BY <2>4
  <2>7. ASSUME NEW d \in Clients
        PROVE  Kindly(d)'
    <3>1. Kindly(d)
      BY DEF PromiseInv
    <3>2. CASE promised'[d] = promised[d]
      BY <2>3, <2>5, <3>1, <3>2 DEF Kindly
    <3>3. CASE d = c /\ promised'[c] = now + wait
      BY <2>3, <2>4, <2>5, <2>6, <3>3 DEF Kindly
    <3>. QED
      BY <2>5, <3>2, <3>3 DEF DoorInv, TypeOK
  <2>. QED
    BY <2>7 DEF PromiseInv
<1>6. ASSUME NEW r \in Requests, Admit(r)
      PROVE  PromiseInv'
  <2>1. PICK c \in Clients : c = client[r]
    BY <1>6 DEF Admit, RegistryInv
  <2>2. TokensOf(c) - Unit \in 0..Burst
    BY <1>6, <2>1, EvictedWasFull, AvailableBounds DEF Admit
  <2>3. Looked(c, TokensOf(c) - Unit) /\ now' = now
    BY <1>6, <2>1 DEF Admit
  <2>4. \A d \in Clients \ {c} : Available(d)' = Available(d)
    BY <2>2, <2>3, LookedAt
  <2>5. promised' = [promised EXCEPT ![c] = 0]
    BY <1>6, <2>1 DEF Admit
  <2>. QED
    BY <2>3, <2>4, <2>5 DEF PromiseInv, Kindly, DoorInv, TypeOK
<1>7. CASE Tick
  <2>1. now' = now + 1 /\ buckets' = buckets /\ promised' = promised
    BY <1>7 DEF Tick
  <2>2. ASSUME NEW c \in Clients, promised[c] # 0
        PROVE  Kindly(c)'
    <3>1. Available(c)' = Capped(Available(c) + Rate) /\ Available(c) \in 0..Burst
      BY <2>1, TickRefills, AvailableBounds
    <3>2. CASE Available(c) >= Unit
      <4>1. Available(c)' >= Unit
        BY <3>1, <3>2 DEF Capped
      <4>. QED
        BY <4>1 DEF Kindly
    <3>3. CASE promised[c] > now /\ Available(c) + (promised[c] - now) * Rate >= Unit
      <4>1. now \in Nat /\ promised[c] \in Nat
        BY DEF RegistryInv, DoorInv, TypeOK
      <4>. DEFINE d == promised[c] - now
      <4>2. d \in Nat \ {0} /\ promised[c] - (now + 1) = d - 1
        BY <3>3, <4>1
      <4>3. d - 1 > 0 => promised[c] > now + 1
        BY <4>1
      <4>. HIDE DEF d
      <4>4. \/ Capped(Available(c) + Rate) >= Unit
            \/ d - 1 > 0 /\ Capped(Available(c) + Rate) + (d - 1) * Rate >= Unit
        BY <3>1, <3>3, <4>2, TickIsKind DEF d
      <4>. QED
        BY <2>1, <3>1, <4>2, <4>3, <4>4 DEF Kindly
    <3>. QED
      BY <2>2, <3>2, <3>3 DEF PromiseInv, Kindly
  <2>. QED
    BY <2>1, <2>2 DEF PromiseInv, Kindly
<1>. QED
  BY <1>1, <1>2, <1>3, <1>4, <1>5, <1>6, <1>7 DEF Next

LEMMA InitialDoor == Init => RegistryInv /\ DoorInv /\ PromiseInv
<1>. SUFFICES ASSUME Init PROVE RegistryInv /\ DoorInv /\ PromiseInv
  OBVIOUS
<1>1. InFlight = {} /\ Cardinality(InFlight) = 0
  BY FS_EmptySet DEF Init, InFlight
<1>2. Cardinality(Requests) \in Nat
  BY FS_CardinalityType
<1>3. TypeOK
  <2>1. DOMAIN buckets = {}
    BY DEF Init
  <2>2. now \in 0..MaxTime /\ last_cleanup \in 0..MaxTime /\ deadline \in 0..MaxTime
    BY DEF Init
  <2>3. promised \in [Clients -> Nat]
    BY DEF Init
  <2>4. in_flight \in 0..Cardinality(Requests)
    BY <1>2 DEF Init
  <2>. QED
    BY <2>1, <2>2, <2>3, <2>4 DEF Init, TypeOK
<1>. QED
  BY <1>1, <1>3 DEF Init, RegistryInv, DoorInv, NoRunCutOff, PromiseInv, Kindly

LEMMA DoorInvariant == Spec => [](RegistryInv /\ DoorInv)
<1>1. RegistryInv /\ DoorInv /\ [Next]_vars => (RegistryInv /\ DoorInv)'
  BY StepRefines, StepKeepsDoor
<1>. QED
  BY <1>1, InitialDoor, PTL DEF Spec

-------------------------------------------------------------------------------
(* Theorems *)

\* The door keeps its types: the count never leaves 0..Cardinality(Requests).
THEOREM DoorTypeCorrect == Spec => []TypeOK
<1>1. DoorInv => TypeOK
  BY DEF DoorInv
<1>. QED
  BY <1>1, DoorInvariant, PTL

\* A drain that does not give up cuts no run off, for any number of handlers, whenever
\* they are admitted and however long they run.
THEOREM NoRunCutOffHolds == Spec => []NoRunCutOff
<1>1. DoorInv => NoRunCutOff
  BY DEF DoorInv
<1>. QED
  BY <1>1, DoorInvariant, PTL

\* A client that waits as long as Retry-After tells it is let in, for any rate and any
\* burst of at least one token, as max(1.0, 2 * rate) is: below one no request ever is.
THEOREM WaitingIsEnoughHolds ==
  ASSUME Unit <= Burst
  PROVE  Spec => []WaitingIsEnough
<1>1. RegistryInv /\ DoorInv /\ PromiseInv /\ [Next]_vars => PromiseInv'
  BY StepKeepsPromises
<1>2. DoorInv /\ PromiseInv => WaitingIsEnough
  BY DEF DoorInv, TypeOK, PromiseInv, Kindly, WaitingIsEnough
<1>. QED
  BY <1>1, <1>2, InitialDoor, DoorInvariant, PTL DEF Spec
===============================================================================
