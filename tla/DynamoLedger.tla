------------------------------ MODULE DynamoLedger ------------------------------
(***************************************************************************)
(* The audit side of state.py's DynamoDBBackend: AUDIT#<seq> items, whose  *)
(* sequence number is a COUNT query made before a conditional put, and     *)
(* claim_commit, a conditional put of the marker item COMMIT#<key>         *)
(* followed by an AUDIT line.  Any number of hosts call it at once; each   *)
(* may die between two requests.                                           *)
(*                                                                         *)
(* Outside src/: a conditional put is atomic; a query or a get without     *)
(* ConsistentRead may miss what was written last; the SDK repeats a        *)
(* request whose answer was lost.                                          *)
(***************************************************************************)
EXTENDS Naturals, Sequences

CONSTANTS
  Procs,         \* callers, on any host
  Keys,          \* idempotency keys
  NoKey,         \* no key
  Reconcilers,   \* the callers that may resume, and then record with AuditLog.write
  SdkRetries,    \* external: the SDK repeats a put whose answer was lost
  MAX_ATTEMPTS,  \* the range(5) of append_audit
  MaxAudit       \* bound of the model: no call that appends starts on a longer trail

ASSUME LedgerAssumption ==
  /\ NoKey \notin Keys
  /\ Reconcilers \subseteq Procs
  /\ SdkRetries \in BOOLEAN
  /\ MAX_ATTEMPTS \in Nat \ {0}
  /\ MaxAudit \in Nat

VARIABLES
  audit,     \* the AUDIT items in the order of their numbers: [status, key] records
  markers,   \* the keys with a COMMIT# item
  pc,        \* pc[p]: where p stands in the call it is making
  key,       \* key[p]: the key of that call
  status,    \* status[p]: the status of the line p is appending
  claims,    \* claims[p]: the line belongs to a claim that has its marker
  seq,       \* seq[p]: the number _next_seq has returned
  attempts,  \* attempts[p]: puts of the line that met a taken number
  result,    \* result[p]: what the call is about to return
  wins       \* history: how many claims of each key returned True

locals == <<key, status, claims, seq, attempts>>
vars == <<audit, markers, pc, locals, result, wins>>

Entry(s, k) == [status |-> s, key |-> k]
Entries == [status : {"PENDING", "COMMITTED"}, key : Keys]

TypeOK ==
  /\ audit \in Seq(Entries)
  /\ markers \subseteq Keys
  /\ pc \in [Procs -> {"idle", "count", "put", "return"}]
  /\ key \in [Procs -> Keys \cup {NoKey}]
  /\ status \in [Procs -> {"PENDING", "COMMITTED"}]
  /\ claims \in [Procs -> BOOLEAN]
  /\ seq \in [Procs -> Nat]
  /\ attempts \in [Procs -> Nat]
  /\ result \in [Procs -> {"none", "won", "lost", "written", "raised"}]
  /\ wins \in [Keys -> Nat]
  /\ \A p \in Procs :
       /\ pc[p] # "idle" => key[p] \in Keys
       /\ pc[p] \in {"count", "put"} => attempts[p] < MAX_ATTEMPTS

Init ==
  /\ audit = <<>>
  /\ markers = {}
  /\ pc = [p \in Procs |-> "idle"]
  /\ key = [p \in Procs |-> NoKey]
  /\ status = [p \in Procs |-> "PENDING"]
  /\ claims = [p \in Procs |-> FALSE]
  /\ seq = [p \in Procs |-> 0]
  /\ attempts = [p \in Procs |-> 0]
  /\ result = [p \in Procs |-> "none"]
  /\ wins = [k \in Keys |-> 0]

OnTrail(s, k) == \E i \in DOMAIN audit : audit[i] = Entry(s, k)

\* What is_committed may answer: the marker, the index and the items are read
\* eventually consistently.
is_committed(k) == {FALSE, OnTrail("COMMITTED", k) \/ k \in markers}

Goto(p, label) == pc' = [pc EXCEPT ![p] = label]

\* append_audit(entry) begins.
Appending(p, s, k, claim) ==
  /\ key' = [key EXCEPT ![p] = k]
  /\ status' = [status EXCEPT ![p] = s]
  /\ claims' = [claims EXCEPT ![p] = claim]
  /\ seq' = [seq EXCEPT ![p] = 0]
  /\ attempts' = [attempts EXCEPT ![p] = 0]
  /\ Goto(p, "count")

-------------------------------------------------------------------------------
(* claim_commit: the marker *)

\* A build whose marker put carries no condition.
ClaimMarkerUnconditionally(p, k) ==
  /\ pc[p] = "idle"
  /\ Len(audit) < MaxAudit
  /\ markers' = markers \cup {k}
  /\ Appending(p, "COMMITTED", k, TRUE)
  /\ UNCHANGED <<audit, result, wins>>

\* attribute_not_exists(SK) holds: the claim is won, its line comes next.
ClaimMarker(p, k) ==
  /\ pc[p] = "idle"
  /\ Len(audit) < MaxAudit
  /\ k \notin markers
  /\ markers' = markers \cup {k}
  /\ Appending(p, "COMMITTED", k, TRUE)
  /\ UNCHANGED <<audit, result, wins>>

\* ConditionalCheckFailedException: return False.  Either the marker was there, or
\* the put had created it, its answer was lost, and the SDK has repeated it.
ClaimLost(p, k) ==
  /\ pc[p] = "idle"
  /\ k \in markers \/ SdkRetries
  /\ markers' = markers \cup {k}
  /\ key' = [key EXCEPT ![p] = k]
  /\ result' = [result EXCEPT ![p] = "lost"]
  /\ Goto(p, "return")
  /\ UNCHANGED <<audit, status, claims, seq, attempts, wins>>

-------------------------------------------------------------------------------
(* append_audit *)

\* AuditLog.write of a PENDING line.
WritePending(p, k) ==
  /\ pc[p] = "idle"
  /\ Len(audit) < MaxAudit
  /\ Appending(p, "PENDING", k, FALSE)
  /\ UNCHANGED <<audit, markers, result, wins>>

\* The resume path records an action that is_committed did not find.  No marker.
WriteReconciled(p, k) ==
  /\ p \in Reconcilers
  /\ pc[p] = "idle"
  /\ Len(audit) < MaxAudit
  /\ FALSE \in is_committed(k)
  /\ Appending(p, "COMMITTED", k, FALSE)
  /\ UNCHANGED <<audit, markers, result, wins>>

\* seq = self._next_seq(): a COUNT, which may miss the latest lines.
NextSeq(p) ==
  /\ pc[p] = "count"
  /\ \E n \in 0..Len(audit) : seq' = [seq EXCEPT ![p] = n]
  /\ Goto(p, "put")
  /\ UNCHANGED <<audit, markers, key, status, claims, attempts, result, wins>>

Written(p) ==
  /\ result' = [result EXCEPT ![p] = IF claims[p] THEN "won" ELSE "written"]
  /\ wins' = IF claims[p] THEN [wins EXCEPT ![key[p]] = @ + 1] ELSE wins
  /\ Goto(p, "return")
  /\ UNCHANGED <<markers, locals>>

\* A build that puts the line whatever is there.
PutLineOver(p) ==
  /\ pc[p] = "put"
  /\ audit' = SubSeq(audit, 1, seq[p]) \o <<Entry(status[p], key[p])>>
                \o SubSeq(audit, seq[p] + 2, Len(audit))
  /\ Written(p)

\* The number is free: the line is written.
PutLine(p) ==
  /\ pc[p] = "put"
  /\ seq[p] = Len(audit)
  /\ audit' = Append(audit, Entry(status[p], key[p]))
  /\ Written(p)

\* A number that was taken costs an attempt; after the last, RuntimeError.
CountAgain(p) ==
  /\ attempts' = [attempts EXCEPT ![p] = @ + 1]
  /\ IF attempts[p] + 1 < MAX_ATTEMPTS
     THEN /\ Goto(p, "count")
          /\ UNCHANGED result
     ELSE /\ Goto(p, "return")
          /\ result' = [result EXCEPT ![p] = "raised"]
  /\ UNCHANGED <<markers, key, status, claims, seq, wins>>

\* A build that retries for ever.
PutTakenForever(p) ==
  /\ pc[p] = "put"
  /\ seq[p] < Len(audit)
  /\ Goto(p, "count")
  /\ UNCHANGED <<audit, markers, locals, result, wins>>

\* A build that counts its attempts from one.
PutTakenOnceMore(p) ==
  /\ pc[p] = "put"
  /\ seq[p] < Len(audit)
  /\ attempts' = [attempts EXCEPT ![p] = @ + 1]
  /\ IF attempts[p] < MAX_ATTEMPTS
     THEN Goto(p, "count") /\ UNCHANGED result
     ELSE Goto(p, "return") /\ result' = [result EXCEPT ![p] = "raised"]
  /\ UNCHANGED <<audit, markers, key, status, claims, seq, wins>>

\* A build that takes a taken number for its own line.
PutTakenIsWritten(p) ==
  /\ pc[p] = "put"
  /\ seq[p] < Len(audit)
  /\ UNCHANGED audit
  /\ Written(p)

PutTaken(p) ==
  /\ pc[p] = "put"
  /\ seq[p] < Len(audit)
  /\ CountAgain(p)
  /\ UNCHANGED audit

\* The put was executed and its answer lost: repeated, it meets its own line.
PutRepeated(p) ==
  /\ SdkRetries
  /\ pc[p] = "put"
  /\ seq[p] = Len(audit)
  /\ audit' = Append(audit, Entry(status[p], key[p]))
  /\ CountAgain(p)

\* Throttled, or the service is away: any other ClientError is raised.
AppendRaises(p) ==
  /\ pc[p] \in {"count", "put"}
  /\ result' = [result EXCEPT ![p] = "raised"]
  /\ Goto(p, "return")
  /\ UNCHANGED <<audit, markers, locals, wins>>

-------------------------------------------------------------------------------
Leave(p) ==
  /\ key' = [key EXCEPT ![p] = NoKey]
  /\ status' = [status EXCEPT ![p] = "PENDING"]
  /\ claims' = [claims EXCEPT ![p] = FALSE]
  /\ seq' = [seq EXCEPT ![p] = 0]
  /\ attempts' = [attempts EXCEPT ![p] = 0]
  /\ result' = [result EXCEPT ![p] = "none"]
  /\ Goto(p, "idle")
  /\ UNCHANGED <<audit, markers, wins>>

Return(p) == pc[p] = "return" /\ Leave(p)

Crash(p) == pc[p] # "idle" /\ Leave(p)

Proceed(p) ==
  \/ NextSeq(p)
  \/ PutLine(p) \/ PutTaken(p) \/ PutRepeated(p) \/ AppendRaises(p)
  \/ Return(p)

Next ==
  \E p \in Procs :
    \/ \E k \in Keys :
         \/ ClaimMarker(p, k) \/ ClaimLost(p, k)
         \/ WritePending(p, k) \/ WriteReconciled(p, k)
    \/ Proceed(p)
    \/ Crash(p)

Spec == Init /\ [][Next]_vars

\* The calls are synchronous: a thread that runs goes on with its call.
FairSpec == Spec /\ \A p \in Procs : WF_vars(Proceed(p))

-------------------------------------------------------------------------------
(* Properties *)

\* However claims on several hosts interleave, crash or are repeated, claim_commit
\* tells at most one caller per key that it won.
OneWinner == \A k \in Keys : wins[k] <= 1

\* "retry with a fresh count instead of silently dropping an audit event": a call that
\* returns as written has its line on the trail, whoever raced it for the number.
ReturnedIsWritten ==
  \A p \in Procs :
    result[p] \in {"won", "written"} => OnTrail(status[p], key[p])

\* "each SK is written at most once": no line is overwritten.
AppendOnly ==
  [][/\ Len(audit') >= Len(audit)
     /\ \A i \in DOMAIN audit : audit'[i] = audit[i]]_vars

\* An append ends, although other writers may take its number again and again.
AppendReturns == \A p \in Procs : pc[p] = "count" ~> pc[p] = "idle"
===============================================================================
