------------------------------- MODULE Webhook -------------------------------
(***************************************************************************)
(* The door of the server: webhook.py's POST /incident handler with the    *)
(* RateLimiter of ratelimit.py in front of it, the count of requests in    *)
(* flight, and the lifespan hook that drains them on shutdown.  Handlers   *)
(* and the hook are coroutines of one event loop: a step of the model is   *)
(* what one of them does between two awaits.  A run is in a worker thread. *)
(***************************************************************************)
EXTENDS Naturals, FiniteSets

CONSTANTS
  Clients,              \* client hosts, the keys of the limiter
  Requests,             \* the handlers
  NoClient,
  Unit, Rate, Burst,    \* a token, what a second adds, and the capacity
  CLEANUP_INTERVAL,     \* _CLEANUP_INTERVAL_SECONDS, in ticks
  IDLE_EVICTION,        \* _IDLE_EVICTION_SECONDS
  DRAIN_TIMEOUT,        \* _DRAIN_TIMEOUT_SECONDS
  MaxTime               \* bound of the model: the clock

\* The last line: a bucket that may be evicted is full by then.
ASSUME WebhookAssumption ==
  /\ NoClient \notin Clients
  /\ IsFiniteSet(Requests)
  /\ Unit \in Nat \ {0} /\ Rate \in Nat \ {0} /\ Burst \in Nat
  /\ CLEANUP_INTERVAL \in Nat /\ IDLE_EVICTION \in Nat
  /\ DRAIN_TIMEOUT \in Nat /\ MaxTime \in Nat
  /\ Burst <= Rate * IDLE_EVICTION

VARIABLES
  now,            \* time.monotonic()
  buckets,        \* the registry: for the clients in it, tokens and two times
  last_cleanup,   \* RateLimiter._last_cleanup
  handler,        \* handler[r]: where the handler of a request stands
  client,         \* client[r]: its client
  in_flight,      \* _in_flight
  server,         \* "serving", "draining" (_shutting_down), "exited"
  deadline,       \* _deadline of the drain
  timed_out,      \* history: the drain gave up
  promised        \* history: promised[c]: when the last Retry-After of c is over, or 0

limiter == <<buckets, last_cleanup>>
drain == <<server, deadline, timed_out>>
vars == <<now, limiter, handler, client, in_flight, drain, promised>>

Bucket == [tokens : 0..Burst, last_refill : 0..MaxTime, last_seen : 0..MaxTime]

TypeOK ==
  /\ now \in 0..MaxTime
  /\ DOMAIN buckets \subseteq Clients
  /\ \A c \in DOMAIN buckets : buckets[c] \in Bucket
  /\ last_cleanup \in 0..MaxTime
  /\ handler \in [Requests -> {"idle", "auth", "running", "returned"}]
  /\ client \in [Requests -> Clients \cup {NoClient}]
  /\ in_flight \in 0..Cardinality(Requests)
  /\ server \in {"serving", "draining", "exited"}
  /\ deadline \in 0..MaxTime
  /\ timed_out \in BOOLEAN
  /\ promised \in [Clients -> Nat]

Init ==
  /\ now = 0
  /\ buckets = [c \in {} |-> 0]
  /\ last_cleanup = 0
  /\ handler = [r \in Requests |-> "idle"]
  /\ client = [r \in Requests |-> NoClient]
  /\ in_flight = 0
  /\ server = "serving"
  /\ deadline = 0
  /\ timed_out = FALSE
  /\ promised = [c \in Clients |-> 0]

-------------------------------------------------------------------------------
(* RateLimiter *)

Capped(n) == IF n < Burst THEN n ELSE Burst

\* TokenBucket._refill: the tokens a bucket has once it is looked at.
Refilled(b) == Capped(b.tokens + (now - b.last_refill) * Rate)

\* A build that evicts what has been idle since the last cleanup.
StaleSinceCleanup(c) == buckets[c].last_seen < now - CLEANUP_INTERVAL

Stale(c) == buckets[c].last_seen + IDLE_EVICTION < now

CleanupDue == now - last_cleanup >= CLEANUP_INTERVAL

\* The clients that have a bucket after _maybe_cleanup.
Kept == {c \in DOMAIN buckets : ~(CleanupDue /\ Stale(c))}

\* The tokens allow(c) finds: a new bucket is full.
TokensOf(c) == IF c \in Kept THEN Refilled(buckets[c]) ELSE Burst

\* allow(c), leaving c with n tokens.
Looked(c, n) ==
  /\ buckets' = [d \in Kept \cup {c} |->
       IF d = c THEN [tokens |-> n, last_refill |-> now, last_seen |-> now]
                ELSE buckets[d]]
  /\ last_cleanup' = IF CleanupDue THEN now ELSE last_cleanup

\* A build that rounds the wait down.
RetryAfterRoundedDown(n) == LET w == (Unit - n) \div Rate IN IF w < 1 THEN 1 ELSE w

\* max(1, int(retry_after) + 1), for a bucket with n tokens, fewer than one.
RetryAfter(n) == (Unit - n) \div Rate + 1

-------------------------------------------------------------------------------
(* handle_incident *)

Goto(r, label) == handler' = [handler EXCEPT ![r] = label]

\* A request is accepted: during a drain too, since nothing looks at _shutting_down.
Receive(r, c) ==
  /\ server # "exited"
  /\ handler[r] = "idle"
  /\ client' = [client EXCEPT ![r] = c]
  /\ Goto(r, "auth")
  /\ UNCHANGED <<now, limiter, in_flight, drain, promised>>

\* 422, 401 or 503: before the limiter, which an unauthenticated caller does not reach.
Refuse(r) ==
  /\ server # "exited"
  /\ handler[r] = "auth"
  /\ client' = [client EXCEPT ![r] = NoClient]
  /\ Goto(r, "idle")
  /\ UNCHANGED <<now, limiter, in_flight, drain, promised>>

\* 429 with a Retry-After.
Throttle(r) ==
  /\ server # "exited"
  /\ handler[r] = "auth"
  /\ LET c == client[r]
         over == now + RetryAfter(TokensOf(c))
     IN  /\ TokensOf(c) < Unit
         /\ Looked(c, TokensOf(c))
         /\ promised' = [promised EXCEPT ![c] = IF @ = 0 \/ over < @ THEN over ELSE @]
  /\ client' = [client EXCEPT ![r] = NoClient]
  /\ Goto(r, "idle")
  /\ UNCHANGED <<now, in_flight, drain>>

\* A token is taken, the request counted, and its run given to a worker thread.
Admit(r) ==
  /\ server # "exited"
  /\ handler[r] = "auth"
  /\ TokensOf(client[r]) >= Unit
  /\ Looked(client[r], TokensOf(client[r]) - Unit)
  /\ promised' = [promised EXCEPT ![client[r]] = 0]
  /\ in_flight' = in_flight + 1
  /\ Goto(r, "running")
  /\ UNCHANGED <<now, client, drain>>

\* _run_incident returns or raises in its thread.
RunReturns(r) ==
  /\ server # "exited"
  /\ handler[r] = "running"
  /\ Goto(r, "returned")
  /\ UNCHANGED <<now, limiter, client, in_flight, drain, promised>>

\* A build that counts a request down only when its run has succeeded.
RespondIfOk(r) ==
  /\ server # "exited"
  /\ handler[r] = "returned"
  /\ in_flight' \in {in_flight, in_flight - 1}
  /\ client' = [client EXCEPT ![r] = NoClient]
  /\ Goto(r, "idle")
  /\ UNCHANGED <<now, limiter, drain, promised>>

\* finally: the request is counted down, and answered.
Respond(r) ==
  /\ server # "exited"
  /\ handler[r] = "returned"
  /\ in_flight' = in_flight - 1
  /\ client' = [client EXCEPT ![r] = NoClient]
  /\ Goto(r, "idle")
  /\ UNCHANGED <<now, limiter, drain, promised>>

-------------------------------------------------------------------------------
(* _lifespan *)

Shutdown ==
  /\ server = "serving"
  /\ now + DRAIN_TIMEOUT <= MaxTime
  /\ server' = "draining"
  /\ deadline' = now + DRAIN_TIMEOUT
  /\ UNCHANGED <<now, limiter, handler, client, in_flight, timed_out, promised>>

\* A build that waits for the count alone.
DrainForGood ==
  /\ server = "draining"
  /\ in_flight = 0
  /\ server' = "exited"
  /\ UNCHANGED <<now, limiter, handler, client, in_flight, deadline, timed_out, promised>>

\* A build that starts from one, as if the hook were a request itself.
DrainAllButOne ==
  /\ server = "draining"
  /\ in_flight <= 1 \/ now >= deadline
  /\ server' = "exited"
  /\ timed_out' = (in_flight > 1)
  /\ UNCHANGED <<now, limiter, handler, client, in_flight, deadline, promised>>

\* The poll that finds nothing in flight, or the deadline passed.
Drain ==
  /\ server = "draining"
  /\ in_flight = 0 \/ now >= deadline
  /\ server' = "exited"
  /\ timed_out' = (in_flight # 0)
  /\ UNCHANGED <<now, limiter, handler, client, in_flight, deadline, promised>>

Tick ==
  /\ server # "exited"
  /\ now < MaxTime
  /\ now' = now + 1
  /\ UNCHANGED <<limiter, handler, client, in_flight, drain, promised>>

Next ==
  \/ \E r \in Requests :
       \/ \E c \in Clients : Receive(r, c)
       \/ Refuse(r) \/ Throttle(r) \/ Admit(r)
       \/ RunReturns(r) \/ Respond(r)
  \/ Shutdown \/ Drain
  \/ Tick

Spec == Init /\ [][Next]_vars

\* Time passes and the event loop polls; a run may hang for good.
FairSpec == Spec /\ WF_vars(Tick) /\ WF_vars(Drain)

-------------------------------------------------------------------------------
(* Properties *)

Available(c) == IF c \in DOMAIN buckets THEN Refilled(buckets[c]) ELSE Burst

\* Buckets that are refilled only when they are looked at, and thrown away when they are
\* idle, limit every client as buckets that fill with the clock and are never forgotten.
Limit == INSTANCE TokenBucket WITH tokens <- [c \in Clients |-> Available(c)]

ImplementsTokenBucket == Limit!Spec

\* "Retry-After": a client that is told to wait, and waits, is let in then, however
\* often it asked in vain, and whether or not its bucket was evicted meanwhile.
WaitingIsEnough ==
  \A c \in Clients : promised[c] # 0 /\ now >= promised[c] => Available(c) >= Unit

\* A drain that does not give up cuts no run off: neither one admitted before the
\* shutdown nor one admitted during it.
NoRunCutOff ==
  server = "exited" /\ ~timed_out => \A r \in Requests : handler[r] \in {"idle", "auth"}

\* "whichever comes first": a drain ends, even if a run hangs.
DrainEnds == server = "draining" ~> server = "exited"
===============================================================================
