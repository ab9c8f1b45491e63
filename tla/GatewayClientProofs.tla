-------------------------- MODULE GatewayClientProofs --------------------------
(***************************************************************************)
(* call_tool and the live query keep the promise of ToolCall, for any      *)
(* callers, actions and number of retries, over a gateway that recognises  *)
(* the keys it has executed.                                               *)
(***************************************************************************)
EXTENDS GatewayClient, TLAPS

USE ClientAssumption

\* A caller has a key from its first step on, an answer only while it waits, and an
\* outcome only in the end.
CallerOK(c) ==
  /\ key[c] = NoKey <=> phase[c] = "idle"
  /\ outcome[c] = "none" <=> phase[c] # "done"
  /\ outcome[c] = "EXECUTED" => want[c] = "call"
  /\ answer[c].says # "nothing" => phase[c] = "wait"
  /\ key[c] # NoKey /\ want[c] = "query" => Visible(key[c])

\* A request says what its caller wants, also when that no longer waits for it.
RequestsOK == \A r \in inflight : key[r.caller] = r.key /\ want[r.caller] = r.want

\* The gateway knows the keys of exactly the actions that have run, once.
LedgerOK == \A k \in Keys : runs[k] = IF k \in seen THEN 1 ELSE 0

\* The server shows as applied only what has run.
ServerOK ==
  \A k \in Keys :
    /\ k[1] = "github_revert_pr" /\ k[2] \in reverted_prs => k \in seen
    /\ k[1] = "k8s_cordon_drain" /\ k[2] \in cordoned_nodes => k \in seen

\* An answer is true of what has run, and stays so.
AnswerOK(c) ==
  /\ answer[c].says = "ok" /\ want[c] = "call" => key[c] \in seen
  /\ answer[c].says \in {"409", "replay"} => key[c] \in seen /\ want[c] = "call"
  /\ answer[c].says = "replay" => answer[c].dict
  /\ answer[c].says = "ok" /\ want[c] = "query" /\ Confirms(c, answer[c]) => key[c] \in seen

\* Told, or about to be told, that it executed the action.
Winner(c) == want[c] = "call" /\ (answer[c].says = "ok" \/ outcome[c] = "EXECUTED")

WinnersOK ==
  /\ \A c \in Callers : Winner(c) => key[c] \in seen
  /\ \A c, d \in Callers : Winner(c) /\ Winner(d) /\ key[c] = key[d] => c = d

ClientInv ==
  /\ TypeOK
  /\ answer = [c \in Callers |-> answer[c]]
  /\ seen \subseteq Keys
  /\ \A c \in Callers : CallerOK(c) /\ AnswerOK(c)
  /\ RequestsOK /\ LedgerOK /\ ServerOK /\ WinnersOK

LEMMA InitialClient == Init => ClientInv
<1> SUFFICES ASSUME Init PROVE ClientInv
  OBVIOUS
<1>1. TypeOK
  BY DEF Init, TypeOK, NoAnswer, Wants
<1>2. answer = [c \in Callers |-> answer[c]] /\ seen \subseteq Keys
  BY DEF Init
<1>3. \A c \in Callers : CallerOK(c) /\ AnswerOK(c) /\ ~Winner(c)
  BY DEF Init, NoAnswer, CallerOK, AnswerOK, Winner
<1>4. RequestsOK /\ LedgerOK /\ ServerOK /\ WinnersOK
  BY <1>3 DEF Init, ServerInit, RequestsOK, LedgerOK, ServerOK, WinnersOK
<1>5. QED
  BY <1>1, <1>2, <1>3, <1>4 DEF ClientInv

-------------------------------------------------------------------------------
(* Steps of a client *)

\* A call or a query begins.
LEMMA AskStep ==
  ASSUME ClientInv, NEW c \in Callers, NEW k \in Keys, CallTool(c, k) \/ LiveQuery(c, k)
  PROVE  ClientInv' /\ Promise!Next
<1>1. PICK w \in Wants :
        /\ phase[c] = "idle"
        /\ w = "query" => Visible(k)
        /\ phase' = [phase EXCEPT ![c] = "send"]
        /\ key' = [key EXCEPT ![c] = k]
        /\ want' = [want EXCEPT ![c] = w]
  BY DEF CallTool, LiveQuery, Wants
<1>2. UNCHANGED <<settings, attempt, answer, outcome, inflight, seen, runs, serverVars>>
  BY DEF CallTool, LiveQuery
<1>3. key[c] = NoKey /\ outcome[c] = "none" /\ answer[c].says = "nothing"
  BY <1>1 DEF ClientInv, CallerOK
<1>4. \A r \in inflight : r.caller # c
  <2> SUFFICES ASSUME NEW r \in inflight, r.caller = c PROVE FALSE
    OBVIOUS
  <2>1. key[c] = r.key
    BY DEF ClientInv, RequestsOK
  <2>2. QED
    BY <2>1, <1>3 DEF ClientInv, TypeOK, Requests
<1>5. TypeOK'
  BY <1>1, <1>2 DEF ClientInv, TypeOK
<1>6. \A d \in Callers : d # c =>
        phase'[d] = phase[d] /\ key'[d] = key[d] /\ want'[d] = want[d]
  BY <1>1 DEF ClientInv, TypeOK
<1>7. phase'[c] = "send" /\ key'[c] = k /\ want'[c] = w
  BY <1>1 DEF ClientInv, TypeOK
<1>8. \A d \in Callers : CallerOK(d)' /\ AnswerOK(d)' /\ (Winner(d)' => Winner(d) /\ d # c)
  <2> SUFFICES ASSUME NEW d \in Callers
               PROVE  CallerOK(d)' /\ AnswerOK(d)' /\ (Winner(d)' => Winner(d) /\ d # c)
    OBVIOUS
  <2>1. CASE d = c
    BY <2>1, <1>1, <1>2, <1>3, <1>7 DEF CallerOK, AnswerOK, Winner, Visible
  <2>2. CASE d # c
    BY <2>2, <1>2, <1>6 DEF ClientInv, CallerOK, AnswerOK, Winner, Confirms, Visible
  <2>3. QED
    BY <2>1, <2>2
<1>9. RequestsOK'
  BY <1>2, <1>4, <1>6 DEF ClientInv, RequestsOK, TypeOK, Requests
<1>10. LedgerOK' /\ ServerOK'
  BY <1>2 DEF ClientInv, LedgerOK, ServerOK, serverVars
<1>11. WinnersOK'
  BY <1>2, <1>6, <1>8 DEF ClientInv, WinnersOK
<1>12. ClientInv'
  BY <1>2, <1>5, <1>8, <1>9, <1>10, <1>11 DEF ClientInv
<1>13. Promise!Ask(c, k, w)
  BY <1>1, <1>2, <1>3 DEF Promise!Ask
<1>14. QED
  BY <1>12, <1>13 DEF Promise!Next, Wants

\* What the end of a call, or a step on the way to it, leaves alone.
ClientOnly == UNCHANGED <<settings, key, want, seen, runs, serverVars>>

OthersKept(c) ==
  /\ answer' = [d \in Callers |-> answer'[d]]
  /\ \A d \in Callers \ {c} :
       phase'[d] = phase[d] /\ answer'[d] = answer[d] /\ outcome'[d] = outcome[d]

\* A step of caller c that takes no answer for more than it is worth keeps the invariant.
LEMMA ClientStepInv ==
  ASSUME ClientInv, TypeOK', NEW c \in Callers, ClientOnly,
         phase[c] \in {"send", "wait"}, phase'[c] # "idle",
         OthersKept(c),
         answer'[c].says = "nothing",
         outcome'[c] = "none" <=> phase'[c] # "done",
         outcome'[c] = "EXECUTED" => Winner(c),
         \A r \in inflight' : r \in inflight \/ r = Request(c)
  PROVE  ClientInv'
<1>1. /\ answer' = [d \in Callers |-> answer'[d]]
      /\ \A d \in Callers : d # c =>
           phase'[d] = phase[d] /\ answer'[d] = answer[d] /\ outcome'[d] = outcome[d]
  BY DEF OthersKept
<1>2. key' = key /\ want' = want /\ seen' = seen /\ runs' = runs
  BY DEF ClientOnly
<1>3. key[c] # NoKey
  BY DEF ClientInv, CallerOK
<1>4. \A d \in Callers : CallerOK(d)' /\ AnswerOK(d)' /\ (Winner(d)' => Winner(d))
  <2> SUFFICES ASSUME NEW d \in Callers
               PROVE  CallerOK(d)' /\ AnswerOK(d)' /\ (Winner(d)' => Winner(d))
    OBVIOUS
  <2>1. CASE d = c
    BY <2>1, <1>1, <1>2, <1>3 DEF ClientInv, CallerOK, AnswerOK, Winner, Visible
  <2>2. CASE d # c
    BY <2>2, <1>1, <1>2 DEF ClientInv, CallerOK, AnswerOK, Winner, Confirms, Visible
  <2>3. QED
    BY <2>1, <2>2
<1>5. RequestsOK'
  BY <1>2 DEF ClientInv, RequestsOK, Request
<1>6. LedgerOK' /\ ServerOK' /\ WinnersOK' /\ seen' \subseteq Keys
  BY <1>2, <1>4 DEF ClientInv, LedgerOK, ServerOK, WinnersOK, ClientOnly, serverVars
<1>7. QED
  BY <1>1, <1>4, <1>5, <1>6 DEF ClientInv

\* Retry and End change the caller alone, and promise nothing.
LEMMA RetryStep ==
  ASSUME ClientInv, NEW c \in Callers, phase[c] \in {"send", "wait"},
         ClientOnly, UNCHANGED inflight,
         Retry(c) \/ End(c, "MCPGatewayError")
  PROVE  ClientInv' /\ (Promise!Next \/ UNCHANGED Promise!vars)
<1>1. PICK p \in {"send", "done"}, o \in {"none", "MCPGatewayError", "NOT_APPLIED"} :
        /\ phase' = [phase EXCEPT ![c] = p]
        /\ answer' = [answer EXCEPT ![c] = NoAnswer]
        /\ outcome' = [outcome EXCEPT ![c] = o]
        /\ o = "none" <=> p # "done"
  <2>1. CASE attempt[c] < MAX_RETRIES /\ Retry(c)
    <3>1. outcome' = [outcome EXCEPT ![c] = "none"]
      BY <2>1 DEF Retry, ClientInv, CallerOK, TypeOK
    <3>2. QED
      BY <2>1, <3>1 DEF Retry
  <2>2. CASE End(c, "MCPGatewayError")
    BY <2>2 DEF End
  <2>3. QED
    BY <2>1, <2>2 DEF Retry
<1>2. attempt' \in [Callers -> 0..MAX_RETRIES]
  BY DEF Retry, End, ClientInv, TypeOK
<1>3. TypeOK'
  <2>1. \A d \in Callers : answer'[d].says \in Answers \cup {"nothing"}
    BY <1>1 DEF ClientInv, TypeOK, NoAnswer
  <2>2. outcome' \in [Callers -> Outcomes \cup {"none"}]
    BY <1>1 DEF ClientInv, TypeOK, Outcomes
  <2>3. phase' \in [Callers -> {"idle", "send", "wait", "done"}]
    BY <1>1 DEF ClientInv, TypeOK
  <2>4. QED
    BY <1>2, <2>1, <2>2, <2>3 DEF ClientInv, TypeOK, ClientOnly
<1>4. ClientInv'
  <2>1. /\ phase'[c] = p /\ outcome'[c] = o /\ answer'[c].says = "nothing"
        /\ OthersKept(c)
    BY <1>1 DEF OthersKept, NoAnswer, ClientInv, TypeOK
  <2>2. QED
    BY <1>1, <1>3, <2>1, ClientStepInv
<1>5. CASE o = "none"
  <2>1. outcome' = outcome
    BY <1>1, <1>5 DEF ClientInv, CallerOK, TypeOK
  <2>2. QED
    BY <1>4, <2>1 DEF ClientOnly, Promise!vars
<1>6. CASE o # "none"
  <2>1. Promise!Tell(c, o)
    BY <1>1, <1>6 DEF Promise!Tell, ClientInv, CallerOK, ClientOnly
  <2>2. QED
    BY <1>1, <1>4, <1>6, <2>1 DEF Promise!Next
<1>7. QED
  BY <1>5, <1>6

LEMMA SendStep ==
  ASSUME ClientInv, NEW c \in Callers, Send(c)
  PROVE  ClientInv' /\ UNCHANGED Promise!vars
<1>1. /\ phase[c] = "send" /\ phase' = [phase EXCEPT ![c] = "wait"]
      /\ inflight' = inflight \cup {Request(c)}
      /\ ClientOnly /\ UNCHANGED <<attempt, answer, outcome>>
  BY DEF Send, ClientOnly
<1>2. Request(c) \in Requests
  BY <1>1 DEF Request, Requests, ClientInv, TypeOK, CallerOK
<1>3. TypeOK'
  BY <1>1, <1>2 DEF ClientInv, TypeOK, ClientOnly
<1>4. /\ answer' = [answer EXCEPT ![c] = answer[c]] /\ answer[c].says = "nothing"
      /\ outcome' = [outcome EXCEPT ![c] = "none"]
  BY <1>1 DEF ClientInv, CallerOK, TypeOK
<1>5. ClientInv'
  <2>1. /\ phase'[c] = "wait" /\ outcome'[c] = "none" /\ answer'[c].says = "nothing"
        /\ OthersKept(c)
    BY <1>1, <1>4 DEF OthersKept, ClientInv, TypeOK
  <2>2. QED
    BY <1>1, <1>3, <1>4, <2>1, ClientStepInv
<1>6. QED
  BY <1>1, <1>5 DEF ClientOnly, Promise!vars

\* An answer is told: it is true, and no other call has been told "EXECUTED".
LEMMA ReceiveStep ==
  ASSUME ClientInv, NEW c \in Callers, ReceiveAnswer(c)
  PROVE  ClientInv' /\ Promise!Next
<1>1. PICK o : /\ outcome' = [outcome EXCEPT ![c] = o]
               /\ o = IF want[c] = "call"
                      THEN IF Idempotent(answer[c]) THEN "SKIPPED_IDEMPOTENT" ELSE "EXECUTED"
                      ELSE IF Confirms(c, answer[c]) THEN "APPLIED" ELSE "NOT_APPLIED"
  BY DEF ReceiveAnswer
<1>2. /\ phase[c] = "wait" /\ phase' = [phase EXCEPT ![c] = "done"]
      /\ answer' = [answer EXCEPT ![c] = NoAnswer]
      /\ answer[c].says \in {"ok", "409", "replay"}
      /\ ClientOnly /\ UNCHANGED <<attempt, inflight>>
  BY DEF ReceiveAnswer, ClientOnly
<1>3. o \in Outcomes /\ o # "none" /\ (o \in {"APPLIED", "NOT_APPLIED"} <=> want[c] # "call")
  BY <1>1 DEF Outcomes
<1>4. o = "EXECUTED" => Winner(c)
  BY <1>1, <1>2 DEF ClientInv, AnswerOK, Idempotent, Winner
<1>5. o \in {"EXECUTED", "SKIPPED_IDEMPOTENT", "APPLIED"} => key[c] \in seen
  <2>1. want[c] \in {"call", "query"}
    BY DEF ClientInv, TypeOK, Wants
  <2>2. QED
    BY <1>1, <1>2, <2>1 DEF ClientInv, AnswerOK
<1>6. TypeOK'
  <2>1. \A d \in Callers : answer'[d].says \in Answers \cup {"nothing"}
    BY <1>2 DEF ClientInv, TypeOK, NoAnswer
  <2>2. outcome' \in [Callers -> Outcomes \cup {"none"}]
    BY <1>1, <1>3 DEF ClientInv, TypeOK
  <2>3. QED
    BY <1>2, <2>1, <2>2 DEF ClientInv, TypeOK, ClientOnly
<1>7. ClientInv'
  <2>1. /\ phase'[c] = "done" /\ outcome'[c] = o /\ answer'[c].says = "nothing"
        /\ OthersKept(c)
    BY <1>1, <1>2 DEF OthersKept, NoAnswer, ClientInv, TypeOK
  <2>2. QED
    BY <1>1, <1>2, <1>3, <1>4, <1>6, <2>1, ClientStepInv
<1>8. Promise!Tell(c, o)
  <2>1. key[c] \in Keys /\ outcome[c] = "none"
    BY <1>2 DEF ClientInv, TypeOK, CallerOK
  <2>2. o \in {"EXECUTED", "SKIPPED_IDEMPOTENT", "APPLIED"} => runs[key[c]] = 1
    BY <1>5, <2>1 DEF ClientInv, LedgerOK
  <2>3. ASSUME o = "EXECUTED", NEW d \in Callers, key[d] = key[c]
        PROVE  outcome[d] # "EXECUTED"
    <3>1. Winner(c)
      BY <1>4, <2>3
    <3>2. CASE want[d] = "call"
      BY <3>1, <3>2, <2>1, <2>3 DEF ClientInv, WinnersOK, Winner
    <3>3. CASE want[d] # "call"
      BY <3>3 DEF ClientInv, CallerOK
    <3>4. QED
      BY <3>2, <3>3
  <2>4. QED
    BY <1>1, <1>2, <2>1, <2>2, <2>3 DEF Promise!Tell, ClientOnly
<1>9. QED
  BY <1>3, <1>7, <1>8 DEF Promise!Next, Outcomes

-------------------------------------------------------------------------------
(* Steps of the gateway *)

\* An answer changes what its caller has, if that waits for it, and nothing else.
Replied(r) ==
  /\ answer' = [d \in Callers |-> answer'[d]]
  /\ \A d \in Callers :
       \/ answer'[d] = answer[d]
       \/ d = r.caller /\ phase[d] = "wait" /\ answer'[d].says \in Answers

LEMMA ReplyStep ==
  ASSUME ClientInv, NEW r \in inflight,
         NEW says \in Answers, NEW dict, NEW body, Reply(r, says, dict, body)
  PROVE  /\ Replied(r)
         /\ \A d \in Callers :
              answer'[d] # answer[d] => answer'[d] = [says |-> says, dict |-> dict, body |-> body]
BY DEF Reply, Replied, ClientInv, TypeOK, Requests

\* A delivery keeps the invariant if the ledger and the server do, what the caller gets
\* is true, and only the run of an action makes a winner.
LEMMA DeliveryInv ==
  ASSUME ClientInv, NEW r \in inflight, Delivered(r), Replied(r),
         seen \subseteq seen', seen' \subseteq Keys, runs' \in [Keys -> Nat],
         LedgerOK', ServerOK',
         \A d \in Callers : answer'[d] # answer[d] => AnswerOK(d)',
         \A d \in Callers : answer'[d] # answer[d] /\ Winner(d)' =>
                              r.key \notin seen /\ r.key \in seen'
  PROVE  ClientInv'
<1>1. /\ phase' = phase /\ key' = key /\ want' = want /\ outcome' = outcome
      /\ inflight' \subseteq inflight
      /\ key[r.caller] = r.key
  BY DEF Delivered, ClientInv, RequestsOK
<1>2. TypeOK'
  <2>1. \A d \in Callers : answer'[d].says \in Answers \cup {"nothing"}
    BY DEF Replied, ClientInv, TypeOK
  <2>2. QED
    BY <1>1, <2>1 DEF Delivered, ClientInv, TypeOK
<1>3. \A d \in Callers : CallerOK(d)'
  BY <1>1 DEF Replied, ClientInv, CallerOK, Visible
<1>4. \A d \in Callers : AnswerOK(d)'
  <2> SUFFICES ASSUME NEW d \in Callers PROVE AnswerOK(d)'
    OBVIOUS
  <2>1. CASE answer'[d] = answer[d]
    BY <1>1, <2>1 DEF ClientInv, AnswerOK, Confirms
  <2>2. QED
    BY <2>1
<1>5. \A d \in Callers : Winner(d)' =>
        Winner(d) \/ (d = r.caller /\ r.key \notin seen /\ r.key \in seen')
  BY <1>1 DEF Winner, Replied
<1>6. WinnersOK'
  BY <1>1, <1>5 DEF ClientInv, WinnersOK
<1>7. RequestsOK'
  BY <1>1 DEF ClientInv, RequestsOK
<1>8. QED
  BY <1>2, <1>3, <1>4, <1>6, <1>7 DEF ClientInv, Replied

\* The action runs, and the ledger and the server know.
LEMMA RunStep ==
  ASSUME ClientInv, NEW k \in Keys, k \notin seen, Run(k),
         seen' = seen \cup {k}, runs' = [runs EXCEPT ![k] = @ + 1]
  PROVE  LedgerOK' /\ ServerOK'
<1>1. LedgerOK'
  BY DEF ClientInv, LedgerOK, TypeOK
<1>2. ServerOK'
  <2> SUFFICES ASSUME NEW l \in Keys
               PROVE  /\ l[1] = "github_revert_pr" /\ l[2] \in reverted_prs' => l \in seen'
                      /\ l[1] = "k8s_cordon_drain" /\ l[2] \in cordoned_nodes' => l \in seen'
    BY DEF ServerOK
  <2>1. l = <<l[1], l[2]>> /\ k = <<k[1], k[2]>>
    OBVIOUS
  <2>2. /\ l[2] \in reverted_prs' =>
             l[2] \in reverted_prs \/ (k[1] = "github_revert_pr" /\ l[2] = k[2])
        /\ l[2] \in cordoned_nodes' =>
             l[2] \in cordoned_nodes \/ (k[1] = "k8s_cordon_drain" /\ l[2] = k[2])
    BY DEF Run, github_revert_pr, k8s_cordon_drain, asg_scale, statuspage_post
  <2>3. QED
    BY <2>1, <2>2 DEF ClientInv, ServerOK
<1>3. QED
  BY <1>1, <1>2

LEMMA ExecuteStep ==
  ASSUME ClientInv, NEW r \in inflight, Execute(r)
  PROVE  ClientInv' /\ Promise!Next
<1>1. /\ r.key \in Keys /\ r.caller \in Callers
      /\ key[r.caller] = r.key /\ want[r.caller] = "call"
  BY DEF Execute, ClientInv, TypeOK, Requests, RequestsOK
<1>2. /\ Delivered(r) /\ r.key \notin seen /\ seen' = seen \cup {r.key}
      /\ Run(r.key) /\ runs' = [runs EXCEPT ![r.key] = @ + 1]
  BY DEF Execute, IdempotencyKey
<1>3. PICK says \in {"ok", "retryable"} : Reply(r, says, TRUE, NoKey)
  BY DEF Execute
<1>4. /\ Replied(r)
      /\ \A d \in Callers :
           answer'[d] # answer[d] => answer'[d] = [says |-> says, dict |-> TRUE, body |-> NoKey]
  BY <1>3 DEF Reply, Replied, Answers, ClientInv, TypeOK
<1>5. LedgerOK' /\ ServerOK'
  BY <1>1, <1>2, RunStep
<1>6. runs' \in [Keys -> Nat]
  BY <1>1, <1>2 DEF ClientInv, TypeOK
<1>7. \A d \in Callers : answer'[d] # answer[d] => AnswerOK(d)'
  BY <1>1, <1>2, <1>4 DEF Delivered, Replied, AnswerOK
<1>8. ClientInv'
  <2>1. seen \subseteq seen' /\ seen' \subseteq Keys
    BY <1>1, <1>2 DEF ClientInv
  <2>2. r.key \notin seen /\ r.key \in seen'
    BY <1>2
  <2>3. QED
    BY <1>2, <1>4, <1>5, <1>6, <1>7, <2>1, <2>2, DeliveryInv
<1>9. Promise!Perform(r.key)
  <2>1. runs[r.key] = 0
    BY <1>1, <1>2 DEF ClientInv, LedgerOK
  <2>2. runs' = [runs EXCEPT ![r.key] = 1]
    BY <1>2, <2>1
  <2>3. QED
    BY <1>1, <1>2, <2>1, <2>2 DEF Promise!Perform, Delivered
<1>10. QED
  BY <1>1, <1>8, <1>9 DEF Promise!Next

\* The other deliveries run nothing; a look is answered with what the server shows.
LEMMA QuietStep ==
  ASSUME ClientInv, NEW r \in inflight,
         Replay(r) \/ Look(r) \/ TurnAway(r) \/ Lose(r)
  PROVE  ClientInv' /\ UNCHANGED Promise!vars
<1>1. /\ r.key \in Keys /\ r.caller \in Callers
      /\ key[r.caller] = r.key /\ want[r.caller] = r.want
  BY DEF ClientInv, TypeOK, Requests, RequestsOK
<1>2. Delivered(r) /\ UNCHANGED <<seen, runs, serverVars>>
  BY DEF Replay, Look, TurnAway, Lose
<1>3. Replied(r)
  <2>1. CASE Lose(r)
    BY <2>1 DEF Lose, Replied, ClientInv
  <2>2. CASE Replay(r) \/ Look(r) \/ TurnAway(r)
    <3>1. PICK says \in Answers : \E dict, body : Reply(r, says, dict, body)
      BY <2>2 DEF Replay, Look, TurnAway, Answers
    <3>2. QED
      BY <3>1, ReplyStep
  <2>3. QED
    BY <2>1, <2>2
<1>4. ASSUME NEW d \in Callers, answer'[d] # answer[d]
      PROVE  AnswerOK(d)' /\ ~Winner(d)'
  <2>1. /\ d = r.caller /\ phase[d] = "wait"
        /\ key'[d] = r.key /\ want'[d] = r.want /\ outcome'[d] = "none"
        /\ seen' = seen
    BY <1>1, <1>2, <1>3, <1>4 DEF Replied, Delivered, ClientInv, CallerOK
  <2>2. CASE Replay(r)
    <3>1. PICK says \in {"409", "replay"} : Reply(r, says, TRUE, NoKey)
      BY <2>2 DEF Replay
    <3>2. answer'[d] = [says |-> says, dict |-> TRUE, body |-> NoKey]
      BY <1>4, <3>1, <1>1 DEF Reply, ClientInv, TypeOK
    <3>3. r.key \in seen /\ r.want = "call"
      BY <2>2 DEF Replay, IdempotencyKey
    <3>4. QED
      BY <2>1, <3>2, <3>3 DEF AnswerOK, Winner
  <2>3. CASE Look(r)
    <3>1. PICK dict \in BOOLEAN : Reply(r, "ok", dict, Looks(r.key))
      BY <2>3 DEF Look
    <3>2. answer'[d] = [says |-> "ok", dict |-> dict, body |-> Looks(r.key)]
      BY <1>4, <3>1, <1>1 DEF Reply, ClientInv, TypeOK
    <3>3. r.want = "query"
      BY <2>3 DEF Look
    <3>4. Confirms(d, answer[d])' => r.key \in seen
      <4>1. Visible(r.key)
        BY <1>1, <3>3 DEF ClientInv, CallerOK
      <4>2. CASE r.key[1] = "github_revert_pr"
        <5>1. /\ Looks(r.key).reverted <=> r.key[2] \in reverted_prs
              /\ Looks(r.key).state \in {"reverted", "rolled_back"}
                   => r.key[2] \in reverted_prs
          BY <4>2 DEF Looks, github_get_pr_state
        <5>2. Confirms(d, answer[d])' => r.key[2] \in reverted_prs
          BY <2>1, <3>2, <4>2, <5>1 DEF Confirms
        <5>3. QED
          BY <1>1, <4>2, <5>2 DEF ClientInv, ServerOK
      <4>3. CASE r.key[1] = "k8s_cordon_drain"
        <5>1. /\ Looks(r.key).cordoned <=> r.key[2] \in cordoned_nodes
              /\ Looks(r.key).unschedulable <=> r.key[2] \in cordoned_nodes
          BY <4>3 DEF Looks, k8s_describe
        <5>2. Confirms(d, answer[d])' => r.key[2] \in cordoned_nodes
          BY <2>1, <3>2, <4>3, <5>1 DEF Confirms
        <5>3. QED
          BY <1>1, <4>3, <5>2 DEF ClientInv, ServerOK
      <4>4. QED
        BY <4>1, <4>2, <4>3 DEF Visible
    <3>5. QED
      BY <2>1, <3>2, <3>3, <3>4 DEF AnswerOK, Winner
  <2>4. CASE TurnAway(r)
    <3>1. PICK says \in {"retryable", "refused"} : Reply(r, says, FALSE, NoKey)
      BY <2>4 DEF TurnAway
    <3>2. answer'[d] = [says |-> says, dict |-> FALSE, body |-> NoKey]
      BY <1>4, <3>1, <1>1 DEF Reply, ClientInv, TypeOK
    <3>3. QED
      BY <2>1, <3>2 DEF AnswerOK, Winner
  <2>5. CASE Lose(r)
    BY <1>4, <2>5 DEF Lose
  <2>6. QED
    BY <2>2, <2>3, <2>4, <2>5
<1>5. LedgerOK' /\ ServerOK' /\ seen' \subseteq Keys /\ runs' \in [Keys -> Nat]
  BY <1>2 DEF ClientInv, TypeOK, LedgerOK, ServerOK, serverVars
<1>6. ClientInv'
  <2>1. seen \subseteq seen'
    BY <1>2
  <2>2. QED
    BY <1>2, <1>3, <1>4, <1>5, <2>1, DeliveryInv
<1>7. QED
  BY <1>2, <1>6 DEF Delivered, Promise!vars

-------------------------------------------------------------------------------

LEMMA StepKeepsPromise ==
  ASSUME ClientInv, [Next]_vars
  PROVE  ClientInv' /\ (Promise!Next \/ UNCHANGED Promise!vars)
<1>1. CASE UNCHANGED vars
  <2>1. ClientInv'
    BY <1>1 DEF vars, client, serverVars, ClientInv, TypeOK, CallerOK, AnswerOK, Confirms,
                Visible, RequestsOK, LedgerOK, ServerOK, WinnersOK, Winner
  <2>2. QED
    BY <1>1, <2>1 DEF vars, client, Promise!vars
<1>2. CASE \E c \in Callers, k \in Keys : CallTool(c, k) \/ LiveQuery(c, k)
  BY <1>2, AskStep
<1>3. ASSUME NEW c \in Callers, ClientStep(c)
      PROVE  ClientInv' /\ (Promise!Next \/ UNCHANGED Promise!vars)
  <2>1. CASE Send(c)
    BY <2>1, SendStep
  <2>2. CASE Unsent(c) \/ TimeOut(c) \/ ReceiveRetryable(c)
    <3>1. /\ phase[c] \in {"send", "wait"} /\ Retry(c)
          /\ ClientOnly /\ UNCHANGED inflight
      BY <2>2 DEF Unsent, TimeOut, ReceiveRetryable, ClientOnly
    <3>2. QED
      BY <3>1, RetryStep
  <2>3. CASE RunCoroEmpty(c) \/ ReceiveRefusal(c)
    <3>1. /\ phase[c] \in {"send", "wait"} /\ End(c, "MCPGatewayError")
          /\ ClientOnly /\ UNCHANGED inflight
      BY <2>3 DEF RunCoroEmpty, ReceiveRefusal, ClientOnly
    <3>2. QED
      BY <3>1, RetryStep
  <2>4. CASE ReceiveAnswer(c)
    BY <2>4, ReceiveStep
  <2>5. QED
    BY <1>3, <2>1, <2>2, <2>3, <2>4 DEF ClientStep
<1>4. ASSUME NEW r \in inflight, Gateway(r)
      PROVE  ClientInv' /\ (Promise!Next \/ UNCHANGED Promise!vars)
  BY <1>4, ExecuteStep, QuietStep DEF Gateway
<1>5. QED
  BY <1>1, <1>2, <1>3, <1>4 DEF Next

\* The history types: attempts stay within the bound, requests say who sent them.
THEOREM ClientTypeCorrect == Spec => []TypeOK
<1>1. ClientInv /\ [Next]_vars => ClientInv'
  BY StepKeepsPromise
<1>2. ClientInv => TypeOK
  BY DEF ClientInv
<1>3. QED
  BY InitialClient, <1>1, <1>2, PTL DEF Spec

\* call_tool keeps its promise: at most one run per action, at most one "EXECUTED", and
\* no "applied" that is not true, however attempts, answers and queries interleave.
THEOREM CallToolKeepsPromise == Spec => ImplementsToolCall
<1>1. Init => Promise!Init
  BY DEF Init, Promise!Init
<1>2. ClientInv /\ [Next]_vars => ClientInv' /\ [Promise!Next]_(Promise!vars)
  BY StepKeepsPromise
<1>3. QED
  BY InitialClient, <1>1, <1>2, PTL DEF Spec, ImplementsToolCall, Promise!Spec
===============================================================================
