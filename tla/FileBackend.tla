------------------------------ MODULE FileBackend ------------------------------
(***************************************************************************)
(* The audit side of state.py's FileBackend: the append-only file          *)
(* <incident>.audit.jsonl, and claim_commit, which reads it and appends    *)
(* COMMITTED inside a critical section guarded by an exclusive flock on    *)
(* <incident>.lock.  Threads and processes on one host call it at once;    *)
(* any of them may die at any point, which closes its descriptors.         *)
(*                                                                         *)
(* flock locks an inode, not a path: the model numbers the inodes the path *)
(* <incident>.lock has named, the last one being lockPath.                 *)
(***************************************************************************)
EXTENDS Naturals, Sequences

CONSTANTS
  Procs,        \* callers: request threads, and processes after a restart
  Keys,         \* idempotency keys
  NoKey,        \* no key
  Reconcilers,  \* the callers that may resume: they record an action they
                \* found applied with AuditLog.write, outside any lock
  MaxAudit      \* bound of the model: no PENDING line is added to a longer trail

ASSUME BackendAssumption ==
  /\ NoKey \notin Keys
  /\ Reconcilers \subseteq Procs
  /\ MaxAudit \in Nat

VARIABLES
  audit,     \* the lines of audit.jsonl: [status, key] records
  lockPath,  \* the inode <incident>.lock names, 0 when there is no such file
  pc,        \* pc[p]: where p stands in the call it is making
  key,       \* key[p]: the key argument of that call
  fd,        \* fd[p]: the inode p has open as lock_f, 0 when closed
  held,      \* held[p]: p holds the flock of fd[p]
  result,    \* result[p]: what the call is about to return
  wins       \* history: how many claims of each key returned True

vars == <<audit, lockPath, pc, key, fd, held, result, wins>>

Statuses == {"PENDING", "COMMITTED"}
Entries == [status : Statuses, key : Keys]

TypeOK ==
  /\ audit \in Seq(Entries)
  /\ lockPath \in Nat
  /\ pc \in [Procs -> {"idle", "flock", "check", "append", "unlock", "record"}]
  /\ key \in [Procs -> Keys \cup {NoKey}]
  /\ fd \in [Procs -> Nat]
  /\ held \in [Procs -> BOOLEAN]
  /\ result \in [Procs -> {"none", "won", "lost", "raised"}]
  /\ wins \in [Keys -> Nat]
  /\ \A p \in Procs : pc[p] # "idle" => key[p] \in Keys

Init ==
  /\ audit = <<>>
  /\ lockPath = 0
  /\ pc = [p \in Procs |-> "idle"]
  /\ key = [p \in Procs |-> NoKey]
  /\ fd = [p \in Procs |-> 0]
  /\ held = [p \in Procs |-> FALSE]
  /\ result = [p \in Procs |-> "none"]
  /\ wins = [k \in Keys |-> 0]

is_committed(k) ==
  \E i \in DOMAIN audit : audit[i].key = k /\ audit[i].status = "COMMITTED"

Entry(s, k) == [status |-> s, key |-> k]

Goto(p, label) == pc' = [pc EXCEPT ![p] = label]

-------------------------------------------------------------------------------
(* claim_commit *)

\* A build that only keys the log by action: every claim opens a lock file of its own.
OpenPrivateLock(p, k) ==
  /\ pc[p] = "idle"
  /\ lockPath' = lockPath + 1
  /\ fd' = [fd EXCEPT ![p] = lockPath']
  /\ key' = [key EXCEPT ![p] = k]
  /\ Goto(p, "flock")
  /\ UNCHANGED <<audit, held, result, wins>>

\* lock_f = open(self._lock_path, "w"): creates the file when it is absent.
OpenLock(p, k) ==
  /\ pc[p] = "idle"
  /\ lockPath' = IF lockPath = 0 THEN 1 ELSE lockPath
  /\ fd' = [fd EXCEPT ![p] = lockPath']
  /\ key' = [key EXCEPT ![p] = k]
  /\ Goto(p, "flock")
  /\ UNCHANGED <<audit, held, result, wins>>

LockFree(i) == \A q \in Procs : held[q] => fd[q] # i

\* A build that only takes a shared lock: LOCK_SH never excludes another reader.
FlockShared(p) ==
  /\ pc[p] = "flock"
  /\ held' = [held EXCEPT ![p] = TRUE]
  /\ Goto(p, "check")
  /\ UNCHANGED <<audit, lockPath, key, fd, result, wins>>

\* fcntl.flock(lock_f.fileno(), LOCK_EX): waits for the holder of the inode.
Flock(p) ==
  /\ pc[p] = "flock"
  /\ LockFree(fd[p])
  /\ held' = [held EXCEPT ![p] = TRUE]
  /\ Goto(p, "check")
  /\ UNCHANGED <<audit, lockPath, key, fd, result, wins>>

\* if self.is_committed(key): return False
CheckLost(p) ==
  /\ pc[p] = "check"
  /\ is_committed(key[p])
  /\ result' = [result EXCEPT ![p] = "lost"]
  /\ Goto(p, "unlock")
  /\ UNCHANGED <<audit, lockPath, key, fd, held, wins>>

CheckFree(p) ==
  /\ pc[p] = "check"
  /\ ~is_committed(key[p])
  /\ Goto(p, "append")
  /\ UNCHANGED <<audit, lockPath, key, fd, held, result, wins>>

\* self.append_audit({"status": "COMMITTED", ...}); return True
AppendCommitted(p) ==
  /\ pc[p] = "append"
  /\ audit' = Append(audit, Entry("COMMITTED", key[p]))
  /\ wins' = [wins EXCEPT ![key[p]] = @ + 1]
  /\ result' = [result EXCEPT ![p] = "won"]
  /\ Goto(p, "unlock")
  /\ UNCHANGED <<lockPath, key, fd, held>>

\* A build whose error path drops the claim before it has unlocked.
AppendRaisesEarly(p) ==
  /\ pc[p] = "append"
  /\ UNCHANGED audit
  /\ result' = [result EXCEPT ![p] = "raised"]
  /\ key' = [key EXCEPT ![p] = NoKey]
  /\ Goto(p, "unlock")
  /\ UNCHANGED <<lockPath, fd, held, wins>>

\* append_audit raises: from open or write, nothing is in the file; from fsync,
\* the line is there although the caller is told that it failed.
AppendRaises(p) ==
  /\ pc[p] = "append"
  /\ \/ UNCHANGED audit
     \/ audit' = Append(audit, Entry("COMMITTED", key[p]))
  /\ result' = [result EXCEPT ![p] = "raised"]
  /\ Goto(p, "unlock")
  /\ UNCHANGED <<lockPath, key, fd, held, wins>>

\* A build without the finally block: the lock outlives a claim that lost.
UnlockUnlessLost(p) ==
  /\ pc[p] = "unlock"
  /\ held' = [held EXCEPT ![p] = result[p] = "lost"]
  /\ fd' = [fd EXCEPT ![p] = IF result[p] = "lost" THEN fd[p] ELSE 0]
  /\ key' = [key EXCEPT ![p] = NoKey]
  /\ result' = [result EXCEPT ![p] = "none"]
  /\ Goto(p, "idle")
  /\ UNCHANGED <<audit, lockPath, wins>>

\* finally: flock(LOCK_UN); lock_f.close(); and the claim returns or raises.
Unlock(p) ==
  /\ pc[p] = "unlock"
  /\ held' = [held EXCEPT ![p] = FALSE]
  /\ fd' = [fd EXCEPT ![p] = 0]
  /\ key' = [key EXCEPT ![p] = NoKey]
  /\ result' = [result EXCEPT ![p] = "none"]
  /\ Goto(p, "idle")
  /\ UNCHANGED <<audit, lockPath, wins>>

-------------------------------------------------------------------------------
(* Records that are appended without the lock *)

\* MCPGateway.execute: audit.write of a PENDING line, before the side effect.
WritePending(p, k) ==
  /\ pc[p] = "idle"
  /\ Len(audit) < MaxAudit
  /\ audit' = Append(audit, Entry("PENDING", k))
  /\ UNCHANGED <<lockPath, pc, key, fd, held, result, wins>>

\* The resume path: a pending key that is_committed does not find yet...
FindUncommitted(p, k) ==
  /\ p \in Reconcilers
  /\ pc[p] = "idle"
  /\ ~is_committed(k)
  /\ key' = [key EXCEPT ![p] = k]
  /\ Goto(p, "record")
  /\ UNCHANGED <<audit, lockPath, fd, held, result, wins>>

\* ...but the system of record shows applied is recorded with a plain write.
RecordReconciled(p) ==
  /\ pc[p] = "record"
  /\ audit' = Append(audit, Entry("COMMITTED", key[p]))
  /\ key' = [key EXCEPT ![p] = NoKey]
  /\ Goto(p, "idle")
  /\ UNCHANGED <<lockPath, fd, held, result, wins>>

-------------------------------------------------------------------------------
\* The process dies: the kernel closes lock_f, which releases its flock.
Crash(p) ==
  /\ pc[p] # "idle"
  /\ held' = [held EXCEPT ![p] = FALSE]
  /\ fd' = [fd EXCEPT ![p] = 0]
  /\ key' = [key EXCEPT ![p] = NoKey]
  /\ result' = [result EXCEPT ![p] = "none"]
  /\ Goto(p, "idle")
  /\ UNCHANGED <<audit, lockPath, wins>>

\* The steps a call takes by itself once it has started.
Proceed(p) ==
  \/ CheckLost(p) \/ CheckFree(p)
  \/ AppendCommitted(p) \/ AppendRaises(p)
  \/ Unlock(p)
  \/ RecordReconciled(p)

Next ==
  \E p \in Procs :
    \/ \E k \in Keys : OpenLock(p, k) \/ WritePending(p, k) \/ FindUncommitted(p, k)
    \/ Flock(p)
    \/ Proceed(p)
    \/ Crash(p)

Spec == Init /\ [][Next]_vars

\* The scheduler runs every thread, and the kernel wakes the waiters of a flock in
\* turn: a waiter that finds it free again and again gets it.
Fairness == \A p \in Procs : WF_vars(Proceed(p)) /\ SF_vars(Flock(p))

FairSpec == Spec /\ Fairness

-------------------------------------------------------------------------------
(* Properties *)

InSection(p) == pc[p] \in {"check", "append", "unlock"}

\* At most one caller at a time is between the flock and the LOCK_UN of
\* claim_commit, although the lock file is opened, created and closed by each.
MutualExclusion ==
  \A p, q \in Procs : InSection(p) /\ InSection(q) => p = q

\* However claims interleave, crash, raise, or race a plain write of the same
\* record, claim_commit tells at most one caller per key that it won.
OneWinner == \A k \in Keys : wins[k] <= 1

\* A caller that is told it lost can find the COMMITTED record it lost to: the
\* action it skips has been recorded.
LoserFindsRecord ==
  \A p \in Procs : result[p] = "lost" => is_committed(key[p])

\* "Append-only audit trail": no step removes or rewrites a line, whoever dies.
AppendOnly ==
  [][/\ Len(audit') >= Len(audit)
     /\ \A i \in DOMAIN audit : audit'[i] = audit[i]]_vars

\* A claim that has opened the lock file returns, raises or dies: nobody keeps
\* the flock for ever, and a loser, an error or a crash in the section gives it up.
ClaimReturns == \A p \in Procs : pc[p] = "flock" ~> pc[p] = "idle"

\* The claims of claim_commit take turns, as CommitOnce promises: the flock keeps what
\* one has found from every other until it has written its record, returned or died,
\* while reconciled actions are recorded without it.
Claiming(p) == pc[p] \in {"flock", "check", "append", "unlock"}

Promise == INSTANCE CommitOnce WITH
  committed <- {k \in Keys : is_committed(k)},
  target <- [p \in Procs |-> IF Claiming(p) THEN key[p] ELSE NoKey],
  answer <- [p \in Procs |-> IF pc[p] = "append" THEN "free" ELSE result[p]]

ImplementsCommitOnce == Promise!Spec
===============================================================================
