-------------------------------- MODULE MvccWal --------------------------------
(***************************************************************************)
(* The multi-version storage engine (tasks/mvcc-btree-wal-recovery): its   *)
(* version chains in memory, its write-ahead log, transactions run by      *)
(* concurrent threads, crashes, and ARIES recovery from the log.           *)
(*                                                                         *)
(* Put, Delete, Get, Scan, Vacuum and Recover hold the index latch and     *)
(* enter the log once, or alone, so each is one action.  AppendRecord and  *)
(* Flush are two critical sections of the log, and so are two actions in   *)
(* Commit and Abort, which hold no latch, and in Checkpoint, which keeps   *)
(* the index latch between them; taking an id and logging BEGIN are two as *)
(* well.  A log record is on disk or lost as a whole.                      *)
(*                                                                         *)
(* Values are not modelled: a transaction writes itself, so that what is   *)
(* read tells whose write it was.                                          *)
(***************************************************************************)
EXTENDS Integers, Sequences, SequencesExt

CONSTANTS
  Txn,             \* Transaction objects, each created at most once
  Key,
  MaxLog,          \* bounds: records in the log beyond which transactions and
  MaxCrashes       \* checkpoints append none, and crashes

ASSUME MvccAssumption ==
  /\ "none" \notin Txn \union Key
  /\ MaxLog \in Nat /\ MaxCrashes \in Nat

VARIABLES
  \* The log file.
  log,        \* the records written to it, those still in its buffer included
  durable,    \* how many of them are on disk
  \* StorageEngine and WALManager: one process, from Open to the crash.
  mode,       \* "opened", "recovered", or "running" once a transaction began
  nextLsn,
  flushedLsn,
  nextTxnId,
  globalTs,
  index,      \* index[k]: the versions of k, newest first
  ckptLsn,    \* the record of a Checkpoint that is still to flush it, or 0:
              \* while there is one its thread has the index latch
  \* Transaction objects.
  alive,      \* those the present process created
  state,
  txnId,
  readTs,
  commitTs,
  writeSet,   \* writeSet[t][k]: "put", "delete" or "none"
  crashes     \* so far

engineVars == <<mode, nextTxnId, globalTs, index, ckptLsn>>
walVars    == <<log, durable, nextLsn, flushedLsn>>
txnVars    == <<alive, state, txnId, readTs, commitTs, writeSet>>
vars       == <<engineVars, walVars, txnVars, crashes>>

Unstamped == -1   \* UINT64_MAX, the commit_ts of a version not committed

LogTypes  == {"BEGIN", "INSERT", "DELETE", "COMMIT", "ABORT", "CHECKPOINT"}
TxnStates == {"unborn", "starting", "active", "committing", "committed",
              "aborting", "aborted", "lost"}

\* A new process: nothing of the engine's memory, nor of a Transaction object,
\* outlives the old one; we only remember which calls to Commit and Abort returned.
FreshProcess ==
  /\ mode' = "opened"
  /\ nextLsn' = 1
  /\ flushedLsn' = 0
  /\ nextTxnId' = 1
  /\ globalTs' = 1
  /\ index' = [k \in Key |-> <<>>]
  /\ ckptLsn' = 0
  /\ alive' = {}
  /\ state' = [t \in Txn |-> IF state[t] \in {"unborn", "committed", "aborted"}
                              THEN state[t] ELSE "lost"]
  /\ txnId' = [t \in Txn |-> 0]
  /\ readTs' = [t \in Txn |-> 0]
  /\ commitTs' = [t \in Txn |-> 0]
  /\ writeSet' = [t \in Txn |-> [k \in Key |-> "none"]]

Init ==
  /\ log = <<>>
  /\ durable = 0
  /\ mode = "opened"
  /\ nextLsn = 1
  /\ flushedLsn = 0
  /\ nextTxnId = 1
  /\ globalTs = 1
  /\ index = [k \in Key |-> <<>>]
  /\ ckptLsn = 0
  /\ alive = {}
  /\ state = [t \in Txn |-> "unborn"]
  /\ txnId = [t \in Txn |-> 0]
  /\ readTs = [t \in Txn |-> 0]
  /\ commitTs = [t \in Txn |-> 0]
  /\ writeSet = [t \in Txn |-> [k \in Key |-> "none"]]
  /\ crashes = 0

--------------------------------------------------------------------------------
(* The log. *)

Record(type, id, key, by) == [type |-> type, txn |-> id, key |-> key, by |-> by]

WithLsn(rec, lsn) == [type |-> rec.type, txn |-> rec.txn, key |-> rec.key,
                      by |-> rec.by, lsn |-> lsn]

AppendRecord(rec) ==
  /\ Len(log) < MaxLog
  /\ log' = Append(log, WithLsn(rec, nextLsn))
  /\ nextLsn' = nextLsn + 1

\* Mutated forms of Flush: counts records by LSN; sets the mark, writes nothing.
FlushMarkOnly(lsn) == flushedLsn' = lsn /\ UNCHANGED durable

\* The stream's whole buffer goes to the file, whatever lsn was asked for.
Flush(lsn) == flushedLsn' = lsn /\ durable' = Len(log')

IsWrite(rec) == rec.type \in {"INSERT", "DELETE"}

IsEnd(rec) == rec.type \in {"COMMIT", "ABORT"}

--------------------------------------------------------------------------------
(* Reading. *)

\* Mutated form of Sees: a transaction does not see its own writes.
SeesOthers(v, id, ts) == v.ts # Unstamped /\ v.ts <= ts

Sees(v, id, ts) == v.txn = id \/ (v.ts # Unstamped /\ v.ts <= ts)

\* The newest version the reader sees: its writer, or "none" if it is deleted
\* or there is no such version.
Lookup(chain, id, ts) ==
  LET seen == {i \in DOMAIN chain : Sees(chain[i], id, ts)}
  IN  IF seen = {} \/ chain[Min(seen)].deleted THEN "none" ELSE chain[Min(seen)].by

\* Get, and Scan at each key of its range: they change no state.
Get(t, k) == Lookup(index[k], txnId[t], readTs[t])

--------------------------------------------------------------------------------
(* Transactions. *)

\* BeginTransaction: nextTxnId.fetch_add, then globalTs.load, which only
\* Recover changes, before there are transactions.
Begin(t) ==
  /\ state[t] = "unborn"
  /\ mode' = "running"
  /\ nextTxnId' = nextTxnId + 1
  /\ alive' = alive \union {t}
  /\ state' = [state EXCEPT ![t] = "starting"]
  /\ txnId' = [txnId EXCEPT ![t] = nextTxnId]
  /\ readTs' = [readTs EXCEPT ![t] = globalTs]
  /\ UNCHANGED <<globalTs, index, ckptLsn, commitTs, writeSet, walVars, crashes>>

\* The constructor of Transaction.
LogBegin(t) ==
  /\ t \in alive /\ state[t] = "starting"
  /\ state' = [state EXCEPT ![t] = "active"]
  /\ AppendRecord(Record("BEGIN", txnId[t], "none", t))
  /\ UNCHANGED <<durable, flushedLsn, alive, txnId, readTs, commitTs, writeSet,
                 engineVars, crashes>>

\* index_mutex_ can be taken.
LatchFree == ckptLsn = 0

\* Put and Delete, with RecordWrite.  Neither looks at the transaction's state
\* or at what others wrote; before_val is always nullopt, so a Put is logged
\* as an INSERT.
Write(t, k, op) ==
  /\ LatchFree
  /\ t \in alive /\ state[t] \in {"active", "committed", "aborted"}
  /\ index' = [index EXCEPT ![k] =
       <<[ts |-> IF commitTs[t] # 0 THEN commitTs[t] ELSE Unstamped,
          txn |-> txnId[t], deleted |-> op = "delete", by |-> t]>> \o @]
  /\ writeSet' = [writeSet EXCEPT ![t][k] = op]
  /\ AppendRecord(Record(IF op = "put" THEN "INSERT" ELSE "DELETE", txnId[t], k, t))
  /\ UNCHANGED <<durable, flushedLsn, alive, state, txnId, readTs, commitTs,
                 mode, nextTxnId, globalTs, ckptLsn, crashes>>

Put(t, k) == Write(t, k, "put")

Delete(t, k) == Write(t, k, "delete")

\* Commit up to AppendRecord.  It stamps no version and leaves globalTs alone.
Commit(t) ==
  /\ t \in alive /\ state[t] = "active"
  /\ state' = [state EXCEPT ![t] = "committing"]
  /\ commitTs' = [commitTs EXCEPT ![t] = readTs[t] + 1]
  /\ AppendRecord(Record("COMMIT", txnId[t], "none", t))
  /\ UNCHANGED <<durable, flushedLsn, alive, txnId, readTs, writeSet,
                 engineVars, crashes>>

\* Abort, called or by the destructor, up to AppendRecord.  Its versions stay.
Abort(t) ==
  /\ t \in alive /\ state[t] = "active"
  /\ state' = [state EXCEPT ![t] = "aborting"]
  /\ AppendRecord(Record("ABORT", txnId[t], "none", t))
  /\ UNCHANGED <<durable, flushedLsn, alive, txnId, readTs, commitTs, writeSet,
                 engineVars, crashes>>

\* The Flush at the end of Commit and Abort, which then return.
FlushEnd(t) ==
  /\ t \in alive /\ state[t] \in {"committing", "aborting"}
  /\ state' = [state EXCEPT ![t] = IF @ = "committing" THEN "committed" ELSE "aborted"]
  /\ \E i \in DOMAIN log :
       /\ log[i].by = t /\ IsEnd(log[i])
       /\ UNCHANGED <<log, nextLsn>> /\ Flush(log[i].lsn)
  /\ UNCHANGED <<alive, txnId, readTs, commitTs, writeSet, engineVars, crashes>>

--------------------------------------------------------------------------------
(* Maintenance. *)

\* Checkpoint up to AppendRecord.
Checkpoint ==
  /\ LatchFree
  /\ AppendRecord(Record("CHECKPOINT", 0, "none", "none"))
  /\ ckptLsn' = nextLsn
  /\ UNCHANGED <<durable, flushedLsn, mode, nextTxnId, globalTs, index, txnVars, crashes>>

\* Its Flush, after which it releases the latch.
FlushCheckpoint ==
  /\ ~LatchFree
  /\ UNCHANGED <<log, nextLsn>> /\ Flush(ckptLsn)
  /\ ckptLsn' = 0
  /\ UNCHANGED <<mode, nextTxnId, globalTs, index, txnVars, crashes>>

\* Mutated form of Prunable: whatever the age of the version.
PrunableAnyAge(chain) == {i \in 1..Len(chain) - 1 : TRUE}

Prunable(chain) ==
  {i \in 1..Len(chain) - 1 : chain[i].ts # Unstamped /\ chain[i].ts < globalTs}

\* The chain ends at its first version older than globalTs; a deletion goes too.
Vacuumed(chain) ==
  IF Prunable(chain) = {} THEN chain
  ELSE LET i == Min(Prunable(chain))
       IN  SubSeq(chain, 1, IF chain[i].deleted THEN i - 1 ELSE i)

Vacuum ==
  /\ LatchFree
  /\ index' = [k \in Key |-> Vacuumed(index[k])]
  /\ UNCHANGED <<mode, nextTxnId, globalTs, ckptLsn, walVars, txnVars, crashes>>

--------------------------------------------------------------------------------
(* Recovery. *)

\* Analysis: the transactions with no COMMIT or ABORT after their last record.
ActiveTxns ==
  {log[i].txn : i \in {j \in DOMAIN log :
     /\ log[j].type = "BEGIN" \/ IsWrite(log[j])
     /\ \A m \in j + 1..Len(log) : ~(IsEnd(log[m]) /\ log[m].txn = log[j].txn)}}

\* Analysis again: an id equal to next_txn_id_ does not move it.
NextTxnId ==
  LET after[n \in 0 .. Len(log)] ==
        IF n = 0 THEN nextTxnId
        ELSE IF log[n].txn > after[n - 1] THEN log[n].txn + 1 ELSE after[n - 1]
  IN  after[Len(log)]

VersionOf(rec) ==
  [ts |-> rec.lsn, txn |-> rec.txn, deleted |-> rec.type = "DELETE", by |-> rec.by]

\* Redo: every write in the log, whoever made it, stamped with its LSN, before
\* the versions of the key that are older.
Redone(k) ==
  LET chain[n \in 0 .. Len(log)] ==
        IF n = 0 THEN <<>>
        ELSE IF IsWrite(log[n]) /\ log[n].key = k
             THEN <<VersionOf(log[n])>> \o chain[n - 1] ELSE chain[n - 1]
  IN  chain[Len(log)]

\* Mutated form of Stripped: only the newest version.
StrippedOnce(chain, id) ==
  IF chain # <<>> /\ chain[1].txn = id THEN Tail(chain) ELSE chain

\* Undo of one transaction at one key: off the head of the chain only.
Stripped(chain, id) ==
  LET others == {i \in DOMAIN chain : chain[i].txn # id}
  IN  IF others = {} THEN <<>> ELSE SubSeq(chain, Min(others), Len(chain))

\* Undo of one transaction after the other.
Undone(k, losers) ==
  LET chain[n \in 0 .. Len(losers)] ==
        IF n = 0 THEN Redone(k) ELSE Stripped(chain[n - 1], losers[n])
  IN  chain[Len(losers)]

MaxTs ==
  LET max[n \in 0 .. Len(log)] ==
        IF n = 0 THEN 1
        ELSE IF IsWrite(log[n]) /\ log[n].lsn > max[n - 1] THEN log[n].lsn ELSE max[n - 1]
  IN  max[Len(log)]

\* Recover, called right after Open as tests/test.sh does, or not at all as
\* main.cpp.  The losers come in the order of an unordered_map: any.  Their
\* ABORT records are not flushed.
Recover ==
  /\ mode = "opened" /\ LatchFree
  /\ log # <<>>
  /\ mode' = "recovered"
  /\ \E losers \in SetToSeqs(ActiveTxns) :
       /\ index' = [k \in Key |-> Undone(k, losers)]
       /\ log' = log \o [i \in 1..Len(losers) |->
                           WithLsn(Record("ABORT", losers[i], "none", "none"),
                                   nextLsn + i - 1)]
       /\ nextLsn' = nextLsn + Len(losers)
  /\ nextTxnId' = NextTxnId
  /\ globalTs' = MaxTs + 1
  /\ UNCHANGED <<durable, flushedLsn, ckptLsn, txnVars, crashes>>

\* The process dies, or exits, and the next opens the file: it finds what was
\* flushed, and of the rest as much as the stream had written by itself.
Crash ==
  /\ crashes < MaxCrashes
  /\ crashes' = crashes + 1
  /\ durable' \in durable..Len(log)
  /\ log' = SubSeq(log, 1, durable')
  /\ FreshProcess

--------------------------------------------------------------------------------
Step(t) ==
  \/ Begin(t)
  \/ LogBegin(t)
  \/ \E k \in Key : Put(t, k) \/ Delete(t, k)
  \/ Commit(t)
  \/ Abort(t)
  \/ FlushEnd(t)

Next ==
  \/ \E t \in Txn : Step(t)
  \/ Checkpoint
  \/ FlushCheckpoint
  \/ Vacuum
  \/ Recover
  \/ Crash

Spec == Init /\ [][Next]_vars

--------------------------------------------------------------------------------
(* Properties. *)

Version == [ts : Nat \union {Unstamped}, txn : Nat, deleted : BOOLEAN, by : Txn]

LogRecord == [type : LogTypes, txn : Nat, key : Key \union {"none"},
              by : Txn \union {"none"}, lsn : Nat \ {0}]

TypeOK ==
  /\ log \in Seq(LogRecord)
  /\ durable \in 0..Len(log)
  /\ mode \in {"opened", "recovered", "running"}
  /\ nextLsn \in Nat \ {0}
  /\ flushedLsn \in Nat
  /\ nextTxnId \in Nat \ {0}
  /\ globalTs \in Nat \ {0}
  /\ index \in [Key -> Seq(Version)]
  /\ ckptLsn \in Nat
  /\ alive \subseteq Txn
  /\ state \in [Txn -> TxnStates]
  /\ txnId \in [Txn -> Nat]
  /\ readTs \in [Txn -> Nat]
  /\ commitTs \in [Txn -> Nat]
  /\ writeSet \in [Txn -> [Key -> {"none", "put", "delete"}]]
  /\ crashes \in 0..MaxCrashes

\* A record not on disk yet has an LSN above flushed_lsn_, however the threads'
\* appends and flushes interleave (WALManager::Flush, wal.cpp:55).
FlushedIsDurable == \A i \in durable + 1..Len(log) : log[i].lsn > flushedLsn

\* A Commit that returned has its record on disk, whatever other threads append
\* and flush and however often the process dies (Transaction::Commit).
AckedIsDurable ==
  \A t \in Txn : state[t] = "committed" =>
    \E i \in 1..durable : log[i].type = "COMMIT" /\ log[i].by = t

\* A transaction reads back its own last write, whatever others write to the
\* key, commit, abort or vacuum meanwhile (Get, Put, Delete, Vacuum).
ReadYourWrites ==
  \A t \in alive, k \in Key :
    writeSet[t][k] # "none" =>
      Get(t, k) = IF writeSet[t][k] = "put" THEN t ELSE "none"

\* What a transaction reads of a key never changes between two of its own
\* writes to it: no commit, abort, write of another, checkpoint or vacuum shows
\* (Get, Scan; instruction.md:18).
SnapshotStable ==
  [][\A t \in alive \intersect alive', k \in Key :
       writeSet'[t][k] = writeSet[t][k] => Get(t, k)' = Get(t, k)]_vars

\* The ids with a record in the log that no COMMIT or ABORT of that id follows.
Unfinished(id) ==
  \E i \in DOMAIN log :
    /\ log[i].txn = id /\ log[i].type \in {"BEGIN", "INSERT", "DELETE"}
    /\ \A j \in i + 1..Len(log) : ~(log[j].txn = id /\ IsEnd(log[j]))

WritesTo(k) == {i \in DOMAIN log : IsWrite(log[i]) /\ log[i].key = k}

Losers(k) == {log[i].txn : i \in {j \in WritesTo(k) : Unfinished(log[j].txn)}}

Finished(k) == {i \in WritesTo(k) : ~Unfinished(log[i].txn)}

Written(rec) == IF rec.type = "INSERT" THEN rec.by ELSE "none"

Committed(t) == \E i \in DOMAIN log : log[i].type = "COMMIT" /\ log[i].by = t

CommittedWrites(k) == {i \in WritesTo(k) : Committed(log[i].by)}

\* What recovery is for: the last write to k of a transaction that committed.
Promised(k) ==
  IF CommittedWrites(k) = {} THEN "none" ELSE Written(log[Max(CommittedWrites(k))])

\* The last write to k by an ended transaction is not of a committed one, but of
\* one that aborted, or whose id was given out again to one that ended.
AbortedLast(k) == Finished(k) # {} /\ ~Committed(log[Max(Finished(k))].by)

\* Several unfinished transactions wrote k, some after its last finished write.
LosersInTurn(k) ==
  /\ Cardinality(Losers(k)) > 1
  /\ Finished(k) = {} \/ Max(Finished(k)) # Max(WritesTo(k))

\* A committed transaction wrote k and counts as unfinished: its id was given
\* out again (NextTxnId), or it wrote on after its end, which Put allows.
Reopened(k) == \E i \in CommittedWrites(k) : Unfinished(log[i].txn)

\* What a transaction that begins after recovery reads of k.
Recovered(k) == Lookup(index'[k], 0, globalTs')

Recovering == mode = "opened" /\ mode' = "recovered"

\* Recovery brings back the last committed write of each key, and nothing that
\* was not committed, with three exceptions: the last ended writer did not
\* commit, for redo repeats what aborted and undo leaves it; several unfinished
\* writers in turn, for undo makes one pass each in any order; and a committed
\* writer that counts as unfinished (Recover; instruction.md:33-42,
\* tests/test.sh:99-104).
RecoveryRestores ==
  [][Recovering =>
       \A k \in Key : \/ AbortedLast(k) \/ LosersInTurn(k) \/ Reopened(k)
                      \/ Recovered(k) = Promised(k)]_vars

--------------------------------------------------------------------------------
(* What the documents and the tests say, and the code does not do. *)

\* "Uncommitted transaction must be rolled back by Undo phase"
\* (tests/test.sh:104): what is read after recovery is a committed write.
UncommittedAreRolledBack ==
  [][Recovering =>
       \A k \in Key : Recovered(k) \in {"none"} \union {t \in Txn : Committed(t)}]_vars
================================================================================
