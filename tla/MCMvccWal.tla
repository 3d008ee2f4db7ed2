------------------------------- MODULE MCMvccWal -------------------------------
(* Small instances of MvccWal for TLC: concurrent transactions over a short log,  *)
(* and a long log, with one crash more, of transactions that run one by one.      *)
EXTENDS MvccWal

CONSTANTS ShortLog, FewCrashes  \* the bounds of the concurrent transactions
VARIABLE serial                 \* whether transactions run one by one

\* Transactions are never compared: which of those not yet created comes next
\* makes no difference.
InOrder == \A t \in alive' \ alive : t = CHOOSE u \in Txn : state[u] = "unborn"

\* Any interleaving; recovery's own records may exceed the bound.
Concurrent ==
  /\ Next
  /\ Len(log) < ShortLog \/ log' = log \/ Recover
  /\ crashes' <= FewCrashes

\* For recovery, logs of more transactions: a thread that has appended BEGIN,
\* COMMIT or ABORT goes on before another starts, and a transaction writes a
\* key at most once.  Vacuum and Checkpoint are left out.
Quiet == \A t \in alive : state[t] \notin {"starting", "committing", "aborting"}

WriteOnce(t, k) == writeSet[t][k] = "none" /\ (Put(t, k) \/ Delete(t, k))

Serial ==
  \/ /\ Quiet
     /\ \E t \in Txn :
          \/ Begin(t) \/ Commit(t) \/ Abort(t)
          \/ \E k \in Key : WriteOnce(t, k)
  \/ \E t \in Txn : LogBegin(t) \/ FlushEnd(t)
  \/ Recover
  \/ Crash

MCInit == Init /\ serial \in BOOLEAN
MCNext == (IF serial THEN Serial ELSE Concurrent) /\ InOrder /\ UNCHANGED serial
MCSpec == MCInit /\ [][MCNext]_<<vars, serial>>

\* The use of the engine that its documents describe: a process that finds a log
\* recovers from it first, and a transaction writes only until it ends.
Tidy ==
  \/ /\ Quiet
     /\ \E t \in Txn :
          \/ (mode # "opened" \/ log = <<>>) /\ Begin(t)
          \/ Commit(t) \/ Abort(t)
          \/ state[t] = "active" /\ \E k \in Key : WriteOnce(t, k)
  \/ \E t \in Txn : LogBegin(t) \/ FlushEnd(t)
  \/ Recover
  \/ Crash

TidySpec == Init /\ serial = TRUE /\ [][Tidy /\ UNCHANGED serial]_<<vars, serial>>
================================================================================
