----------------------------- MODULE MvccWalProofs -----------------------------
(***************************************************************************)
(* Proofs about MvccWal, for any transactions, keys, length of the log and *)
(* number of crashes: what is on disk, that every variable keeps its type, *)
(* that transactions are isolated from each other, and what recovery makes *)
(* of the log.                                                             *)
(***************************************************************************)
EXTENDS MvccWal, FiniteSetTheorems, SequenceTheorems, WellFoundedInduction, TLAPS

IsLog(s) == \E S : s \in Seq(S)

\* LSNs start again at 1 in every process, but those of its own transactions'
\* records are below the next, and so is the mark.
Lsns ==
  /\ IsLog(log) /\ durable \in 0 .. Len(log)
  /\ nextLsn \in Nat \ {0} /\ flushedLsn \in Nat /\ flushedLsn < nextLsn
  /\ \A i \in 1 .. Len(log) :
       /\ log[i].lsn \in Nat \ {0}
       /\ log[i].by \in alive => log[i].lsn < nextLsn

\* A transaction leaves its records once it has begun, and a COMMIT before it
\* says so.
Traces ==
  /\ state \in [Txn -> TxnStates] /\ alive \subseteq Txn
  /\ \A i \in 1 .. Len(log) :
       log[i].by \in Txn => state[log[i].by] \notin {"unborn", "starting"}
  /\ \A t \in Txn : state[t] = "committing" =>
       \E i \in 1 .. Len(log) : log[i].type = "COMMIT" /\ log[i].by = t

LogInv == Lsns /\ Traces /\ FlushedIsDurable /\ AckedIsDurable

--------------------------------------------------------------------------------
LEMMA LogLength == ASSUME IsLog(log) PROVE Len(log) \in Nat /\ DOMAIN log = 1 .. Len(log)
BY LenProperties DEF IsLog

LEMMA Appended ==
  ASSUME IsLog(log), NEW r
  PROVE  /\ IsLog(Append(log, r)) /\ Len(Append(log, r)) = Len(log) + 1
         /\ \A i \in 1 .. Len(log) : Append(log, r)[i] = log[i]
         /\ Append(log, r)[Len(log) + 1] = r
<1>1. PICK S : log \in Seq(S)
  BY DEF IsLog
<1>2. log \in Seq(S \union {r}) /\ r \in S \union {r}
  BY <1>1, SeqMonotonic
<1>3. Append(log, r) \in Seq(S \union {r})
  BY <1>2
<1>4. QED
  BY <1>2, <1>3 DEF IsLog

LEMMA Cut ==
  ASSUME IsLog(log), NEW d \in 0 .. Len(log)
  PROVE  /\ IsLog(SubSeq(log, 1, d)) /\ Len(SubSeq(log, 1, d)) = d
         /\ \A i \in 1 .. d : SubSeq(log, 1, d)[i] = log[i]
<1>1. PICK S : log \in Seq(S)
  BY DEF IsLog
<1>2. SubSeq(log, 1, d) \in Seq(S)
  BY <1>1
<1>3. QED
  BY <1>1, <1>2 DEF IsLog

LEMMA Joined ==
  ASSUME IsLog(log), NEW t, IsLog(t)
  PROVE  /\ IsLog(log \o t) /\ Len(log \o t) = Len(log) + Len(t) /\ Len(t) \in Nat
         /\ \A i \in 1 .. Len(log) : (log \o t)[i] = log[i]
         /\ \A i \in 1 .. Len(t) : (log \o t)[Len(log) + i] = t[i]
<1>1. PICK S, T : log \in Seq(S) /\ t \in Seq(T)
  BY DEF IsLog
<1>2. log \in Seq(S \union T) /\ t \in Seq(S \union T)
  BY <1>1, SeqMonotonic
<1>3. log \o t \in Seq(S \union T) /\ Len(log) \in Nat /\ Len(t) \in Nat
  BY <1>2
<1>4. /\ Len(log \o t) = Len(log) + Len(t)
      /\ \A i \in 1 .. Len(log) + Len(t) :
           (log \o t)[i] = IF i <= Len(log) THEN log[i] ELSE t[i - Len(log)]
  BY <1>2, ConcatProperties
<1>5. ASSUME NEW i \in 1 .. Len(t) PROVE (log \o t)[Len(log) + i] = t[i]
  <2>1. Len(log) + i \in 1 .. Len(log) + Len(t) /\ ~(Len(log) + i <= Len(log)) /\ (Len(log) + i) - Len(log) = i
    BY <1>3
  <2>2. QED
    BY <1>4, <2>1
<1>6. QED
  BY <1>3, <1>4, <1>5 DEF IsLog

--------------------------------------------------------------------------------
\* One record is appended: by a transaction that has begun, or by none.
LEMMA AppendKeeps ==
  ASSUME LogInv, NEW rec, AppendRecord(rec), rec.by \in Txn => state'[rec.by] \notin {"unborn", "starting"},
         alive' = alive, flushedLsn' = flushedLsn, durable' = durable,
         state' \in [Txn -> TxnStates],
         \A t \in Txn : state[t] \notin {"unborn", "starting"} => state'[t] \notin {"unborn", "starting"},
         \A t \in Txn : state'[t] = "committed" => state[t] = "committed",
         \A t \in Txn : state'[t] = "committing" =>
                          state[t] = "committing" \/ (rec.type = "COMMIT" /\ rec.by = t)
  PROVE  LogInv'
<1> DEFINE r == WithLsn(rec, nextLsn)
<1>1. Lsns /\ Traces /\ FlushedIsDurable /\ AckedIsDurable
  BY DEF LogInv
<1>2. log' = Append(log, r) /\ nextLsn' = nextLsn + 1
  BY DEF AppendRecord
<1>3. r.lsn = nextLsn /\ r.by = rec.by /\ r.type = rec.type
  BY DEF WithLsn
<1> HIDE DEF r
<1>4. /\ IsLog(log') /\ Len(log') = Len(log) + 1 /\ Len(log) \in Nat
      /\ \A i \in 1 .. Len(log) : log'[i] = log[i]
      /\ log'[Len(log) + 1] = r
  BY <1>1, <1>2, Appended, LogLength DEF Lsns
<1>5. \A i \in 1 .. Len(log') : i \in 1 .. Len(log) \/ i = Len(log) + 1
  BY <1>4
<1>6. /\ nextLsn \in Nat \ {0} /\ flushedLsn \in Nat /\ flushedLsn < nextLsn /\ durable \in 0 .. Len(log)
  BY <1>1 DEF Lsns
<1>7. Lsns'
  <2>1. durable' \in 0 .. Len(log') /\ nextLsn' \in Nat \ {0} /\ flushedLsn' < nextLsn'
    BY <1>2, <1>4, <1>6
  <2>2. \A i \in 1 .. Len(log) : log'[i].lsn \in Nat \ {0} /\ (log'[i].by \in alive' => log'[i].lsn < nextLsn')
    BY <1>1, <1>2, <1>4, <1>6 DEF Lsns
  <2>3. r.lsn \in Nat \ {0} /\ r.lsn < nextLsn'
    BY <1>2, <1>3, <1>6
  <2>4. QED
    BY <1>4, <1>5, <1>6, <2>1, <2>2, <2>3 DEF Lsns
<1>8. Traces'
  <2>1. \A i \in 1 .. Len(log') : log'[i].by \in Txn => state'[log'[i].by] \notin {"unborn", "starting"}
    BY <1>1, <1>3, <1>4, <1>5 DEF Traces
  <2>2. ASSUME NEW t \in Txn, state'[t] = "committing"
        PROVE  \E i \in 1 .. Len(log') : log'[i].type = "COMMIT" /\ log'[i].by = t
    <3>1. CASE state[t] = "committing"
      <4>1. PICK i \in 1 .. Len(log) : log[i].type = "COMMIT" /\ log[i].by = t
        BY <1>1, <3>1 DEF Traces
      <4>2. QED
        BY <1>4, <4>1
    <3>2. CASE rec.type = "COMMIT" /\ rec.by = t
      BY <1>3, <1>4, <3>2
    <3>3. QED
      BY <2>2, <3>1, <3>2
  <2>3. QED
    BY <1>1, <2>1, <2>2 DEF Traces
<1>9. FlushedIsDurable'
  <2>1. ASSUME NEW i \in durable' + 1 .. Len(log') PROVE log'[i].lsn > flushedLsn'
    <3>1. CASE i = Len(log) + 1
      BY <1>3, <1>4, <1>6, <3>1
    <3>2. CASE i # Len(log) + 1
      <4>1. i \in durable + 1 .. Len(log) /\ i \in 1 .. Len(log)
        BY <1>4, <1>6, <2>1, <3>2
      <4>2. QED
        BY <1>1, <1>4, <4>1 DEF FlushedIsDurable
    <3>3. QED
      BY <3>1, <3>2
  <2>2. QED
    BY <2>1 DEF FlushedIsDurable
<1>10. AckedIsDurable'
  <2>1. ASSUME NEW t \in Txn, state'[t] = "committed"
        PROVE  \E i \in 1 .. durable' : log'[i].type = "COMMIT" /\ log'[i].by = t
    <3>1. PICK i \in 1 .. durable : log[i].type = "COMMIT" /\ log[i].by = t
      BY <1>1, <2>1 DEF AckedIsDurable
    <3>2. i \in 1 .. Len(log)
      BY <1>4, <1>6
    <3>3. QED
      BY <1>4, <3>1, <3>2
  <2>2. QED
    BY <2>1 DEF AckedIsDurable
<1>11. QED
  BY <1>7, <1>8, <1>9, <1>10 DEF LogInv

\* The whole buffer goes to disk, with a mark below the next LSN.
LEMMA FlushKeeps ==
  ASSUME LogInv, NEW lsn \in Nat, lsn < nextLsn, Flush(lsn), UNCHANGED <<log, nextLsn, alive>>,
         state' \in [Txn -> TxnStates],
         \A t \in Txn : state[t] \notin {"unborn", "starting"} => state'[t] \notin {"unborn", "starting"},
         \A t \in Txn : state'[t] = "committed" => state[t] \in {"committed", "committing"},
         \A t \in Txn : state'[t] = "committing" => state[t] = "committing"
  PROVE  LogInv'
<1>1. Lsns /\ Traces /\ FlushedIsDurable /\ AckedIsDurable
  BY DEF LogInv
<1>2. Len(log) \in Nat /\ durable' = Len(log) /\ flushedLsn' = lsn /\ durable \in 0 .. Len(log)
  BY <1>1, LogLength DEF Lsns, Flush
<1>3. Lsns'
  <2>1. durable' \in 0 .. Len(log') /\ flushedLsn' \in Nat /\ flushedLsn' < nextLsn'
    BY <1>2
  <2>2. QED
    BY <1>1, <2>1 DEF Lsns
<1>4. Traces'
  BY <1>1 DEF Traces
<1>5. FlushedIsDurable'
  BY <1>2 DEF FlushedIsDurable
<1>6. AckedIsDurable'
  <2>1. ASSUME NEW t \in Txn, state'[t] = "committed"
        PROVE  \E i \in 1 .. Len(log) : log[i].type = "COMMIT" /\ log[i].by = t
    <3>1. CASE state[t] = "committed"
      <4>1. PICK i \in 1 .. durable : log[i].type = "COMMIT" /\ log[i].by = t
        BY <1>1, <3>1 DEF AckedIsDurable
      <4>2. i \in 1 .. Len(log)
        BY <1>2
      <4>3. QED
        BY <4>1, <4>2
    <3>2. CASE state[t] = "committing"
      BY <1>1, <3>2 DEF Traces
    <3>3. QED
      BY <2>1, <3>1, <3>2
  <2>2. QED
    BY <1>2, <2>1 DEF AckedIsDurable
<1>7. QED
  BY <1>3, <1>4, <1>5, <1>6 DEF LogInv

\* Neither the log nor the state of a transaction changes.
LEMMA CalmKeeps == LogInv /\ UNCHANGED <<walVars, alive, state>> => LogInv'
BY DEF LogInv, Lsns, Traces, FlushedIsDurable, AckedIsDurable, walVars

--------------------------------------------------------------------------------
LEMMA WalInitial == Init => LogInv
<1> SUFFICES ASSUME Init PROVE LogInv
  OBVIOUS
<1>1. log = <<>> /\ Len(log) = 0 /\ IsLog(log)
  BY EmptySeq DEF Init, IsLog
<1>2. Lsns
  BY <1>1 DEF Init, Lsns
<1>3. Traces /\ FlushedIsDurable /\ AckedIsDurable
  BY <1>1 DEF Init, Traces, TxnStates, FlushedIsDurable, AckedIsDurable
<1>4. QED
  BY <1>2, <1>3 DEF LogInv

\* A transaction that begins has no records yet, of this process or another.
LEMMA BeginStep == ASSUME LogInv, NEW t \in Txn, Begin(t) PROVE LogInv'
<1>1. Lsns /\ Traces /\ FlushedIsDurable /\ AckedIsDurable
  BY DEF LogInv
<1>2. /\ UNCHANGED <<log, durable, nextLsn, flushedLsn>> /\ alive' = alive \union {t}
      /\ state[t] = "unborn" /\ state' = [state EXCEPT ![t] = "starting"]
  BY DEF Begin, walVars
<1>3. state' \in [Txn -> TxnStates] /\ \A u \in Txn : state'[u] = IF u = t THEN "starting" ELSE state[u]
  BY <1>1, <1>2 DEF Traces, TxnStates
<1>4. \A i \in 1 .. Len(log) : log[i].by # t
  BY <1>1, <1>2 DEF Traces
<1>5. Lsns'
  BY <1>1, <1>2, <1>4 DEF Lsns
<1>6. Traces'
  BY <1>1, <1>2, <1>3, <1>4 DEF Traces
<1>7. FlushedIsDurable' /\ AckedIsDurable'
  BY <1>1, <1>2, <1>3 DEF FlushedIsDurable, AckedIsDurable
<1>8. QED
  BY <1>5, <1>6, <1>7 DEF LogInv

LEMMA LogBeginStep == ASSUME LogInv, NEW t \in Txn, LogBegin(t) PROVE LogInv'
<1>1. state \in [Txn -> TxnStates]
  BY DEF LogInv, Traces
<1>2. state' = [state EXCEPT ![t] = "active"] /\ state[t] = "starting"
  BY DEF LogBegin
<1>3. state' \in [Txn -> TxnStates] /\ \A u \in Txn : state'[u] = IF u = t THEN "active" ELSE state[u]
  BY <1>1, <1>2 DEF TxnStates
<1>4. Record("BEGIN", txnId[t], "none", t).by = t
  BY DEF Record
<1>5. /\ AppendRecord(Record("BEGIN", txnId[t], "none", t))
      /\ alive' = alive /\ flushedLsn' = flushedLsn /\ durable' = durable
  BY DEF LogBegin
<1>6. QED
  BY <1>3, <1>4, <1>5, AppendKeeps

LEMMA WriteStep ==
  ASSUME LogInv, NEW t \in Txn, NEW k \in Key, NEW op, Write(t, k, op)
  PROVE  LogInv'
<1> DEFINE rec == Record(IF op = "put" THEN "INSERT" ELSE "DELETE", txnId[t], k, t)
<1>1. rec.by = t /\ state[t] \in {"active", "committed", "aborted"} /\ state' = state
  BY DEF Write, Record
<1>2. /\ AppendRecord(rec) /\ alive' = alive /\ flushedLsn' = flushedLsn /\ durable' = durable
  BY DEF Write
<1>3. state \in [Txn -> TxnStates]
  BY DEF LogInv, Traces
<1> HIDE DEF rec
<1>4. QED
  BY <1>1, <1>2, <1>3, AppendKeeps

LEMMA CommitStep == ASSUME LogInv, NEW t \in Txn, Commit(t) PROVE LogInv'
<1> DEFINE rec == Record("COMMIT", txnId[t], "none", t)
<1>1. state \in [Txn -> TxnStates]
  BY DEF LogInv, Traces
<1>2. state' = [state EXCEPT ![t] = "committing"] /\ state[t] = "active"
  BY DEF Commit
<1>3. state' \in [Txn -> TxnStates] /\ \A u \in Txn : state'[u] = IF u = t THEN "committing" ELSE state[u]
  BY <1>1, <1>2 DEF TxnStates
<1>4. rec.by = t /\ rec.type = "COMMIT"
  BY DEF Record
<1>5. AppendRecord(rec) /\ alive' = alive /\ flushedLsn' = flushedLsn /\ durable' = durable
  BY DEF Commit
<1> HIDE DEF rec
<1>6. QED
  BY <1>3, <1>4, <1>5, AppendKeeps

LEMMA AbortStep == ASSUME LogInv, NEW t \in Txn, Abort(t) PROVE LogInv'
<1> DEFINE rec == Record("ABORT", txnId[t], "none", t)
<1>1. state \in [Txn -> TxnStates]
  BY DEF LogInv, Traces
<1>2. state' = [state EXCEPT ![t] = "aborting"] /\ state[t] = "active"
  BY DEF Abort
<1>3. state' \in [Txn -> TxnStates] /\ \A u \in Txn : state'[u] = IF u = t THEN "aborting" ELSE state[u]
  BY <1>1, <1>2 DEF TxnStates
<1>4. rec.by = t
  BY DEF Record
<1>5. AppendRecord(rec) /\ alive' = alive /\ flushedLsn' = flushedLsn /\ durable' = durable
  BY DEF Abort
<1> HIDE DEF rec
<1>6. QED
  BY <1>3, <1>4, <1>5, AppendKeeps

\* The mark is the LSN of a record of the present process.
LEMMA FlushEndStep == ASSUME LogInv, NEW t \in Txn, FlushEnd(t) PROVE LogInv'
<1>1. state \in [Txn -> TxnStates]
  BY DEF LogInv, Traces
<1>2. /\ state' = [state EXCEPT ![t] = IF @ = "committing" THEN "committed" ELSE "aborted"]
      /\ state[t] \in {"committing", "aborting"} /\ t \in alive /\ alive' = alive
  BY DEF FlushEnd
<1>3. /\ state' \in [Txn -> TxnStates]
      /\ \A u \in Txn : state'[u] = IF u # t THEN state[u]
                                    ELSE IF state[t] = "committing" THEN "committed" ELSE "aborted"
  BY <1>1, <1>2 DEF TxnStates
<1>4. PICK i \in DOMAIN log : log[i].by = t /\ UNCHANGED <<log, nextLsn>> /\ Flush(log[i].lsn)
  BY DEF FlushEnd
<1>5. log[i].lsn \in Nat /\ log[i].lsn < nextLsn
  <2>1. i \in 1 .. Len(log)
    BY <1>4, LogLength DEF LogInv, Lsns
  <2>2. QED
    BY <1>2, <1>4, <2>1 DEF LogInv, Lsns
<1>6. QED
  BY <1>2, <1>3, <1>4, <1>5, FlushKeeps

LEMMA CheckpointStep == ASSUME LogInv, Checkpoint PROVE LogInv'
<1> DEFINE rec == Record("CHECKPOINT", 0, "none", "none")
<1>1. state \in [Txn -> TxnStates]
  BY DEF LogInv, Traces
<1>2. rec.by \notin Txn
  BY MvccAssumption DEF Record
<1>3. AppendRecord(rec) /\ UNCHANGED <<alive, state, flushedLsn, durable>>
  BY DEF Checkpoint, txnVars
<1> HIDE DEF rec
<1>4. QED
  BY <1>1, <1>2, <1>3, AppendKeeps

\* The record a Checkpoint has yet to flush is below the next LSN.
Pending == ckptLsn \in Nat /\ ckptLsn < nextLsn

LEMMA FlushCheckpointStep == ASSUME LogInv, Pending, FlushCheckpoint PROVE LogInv'
<1>1. state \in [Txn -> TxnStates] /\ ckptLsn \in Nat /\ ckptLsn < nextLsn
  BY DEF LogInv, Traces, Pending
<1>2. Flush(ckptLsn) /\ UNCHANGED <<log, nextLsn, alive, state>>
  BY DEF FlushCheckpoint, txnVars
<1>3. QED
  BY <1>1, <1>2, FlushKeeps

\* Recovery appends an ABORT record of nobody's for each transaction it undid.
LEMMA RecoverStep == ASSUME LogInv, Recover PROVE LogInv'
<1>1. Lsns /\ Traces /\ FlushedIsDurable /\ AckedIsDurable
  BY DEF LogInv
<1>2. Len(log) \in Nat /\ DOMAIN log = 1 .. Len(log)
  BY <1>1, LogLength DEF Lsns
<1>3. PICK losers \in SetToSeqs(ActiveTxns) :
        /\ log' = log \o [i \in 1..Len(losers) |->
                            WithLsn(Record("ABORT", losers[i], "none", "none"), nextLsn + i - 1)]
        /\ nextLsn' = nextLsn + Len(losers)
  BY DEF Recover
<1>4. durable' = durable /\ flushedLsn' = flushedLsn /\ alive' = alive /\ state' = state
  BY DEF Recover, txnVars
<1>5. Len(losers) \in Nat
  <2>1. IsFiniteSet(ActiveTxns)
    <3> DEFINE ends == {j \in DOMAIN log :
                          /\ log[j].type = "BEGIN" \/ IsWrite(log[j])
                          /\ \A m \in j + 1..Len(log) : ~(IsEnd(log[m]) /\ log[m].txn = log[j].txn)}
    <3>1. IsFiniteSet(1 .. Len(log))
      BY <1>2, FS_Interval
    <3>2. IsFiniteSet(ends)
      BY <1>2, <3>1, FS_Subset
    <3>3. ActiveTxns = {log[i].txn : i \in ends}
      BY DEF ActiveTxns
    <3> HIDE DEF ends
    <3> DEFINE owner == [i \in ends |-> log[i].txn]
    <3>4. owner \in Surjection(ends, ActiveTxns)
      BY <3>3 DEF Surjection
    <3>5. QED
      BY <3>2, <3>4, FS_Surjection
  <2>2. Cardinality(ActiveTxns) \in Nat /\ losers \in [1 .. Cardinality(ActiveTxns) -> ActiveTxns]
    BY <2>1, FS_CardinalityType DEF SetToSeqs
  <2>3. losers \in Seq(ActiveTxns)
    BY <2>2
  <2>4. QED
    BY <2>3
<1> DEFINE rec(i) == WithLsn(Record("ABORT", losers[i], "none", "none"), nextLsn + i - 1)
           recs == [i \in 1 .. Len(losers) |-> rec(i)]
<1>6. \A i \in 1 .. Len(losers) : rec(i).lsn = nextLsn + i - 1 /\ rec(i).by = "none"
  BY DEF WithLsn, Record
<1>7. log' = log \o recs
  BY <1>3
<1> HIDE DEF rec
<1>8. /\ recs \in Seq({rec(i) : i \in 1 .. Len(losers)}) /\ Len(recs) = Len(losers)
      /\ \A i \in 1 .. Len(losers) : recs[i] = rec(i)
  BY <1>5
<1> HIDE DEF recs
<1>9. /\ IsLog(log') /\ Len(log') = Len(log) + Len(losers)
      /\ \A i \in 1 .. Len(log) : log'[i] = log[i]
      /\ \A i \in 1 .. Len(losers) : log'[Len(log) + i] = rec(i)
  <2>1. IsLog(recs)
    BY <1>8 DEF IsLog
  <2>2. QED
    BY <1>1, <1>7, <1>8, <2>1, Joined DEF Lsns
<1>10. /\ nextLsn \in Nat \ {0} /\ flushedLsn \in Nat /\ flushedLsn < nextLsn /\ durable \in 0 .. Len(log)
       /\ "none" \notin Txn
  BY <1>1, MvccAssumption DEF Lsns
<1>11. ASSUME NEW i \in 1 .. Len(log'), i \notin 1 .. Len(log)
       PROVE  log'[i].by = "none" /\ log'[i].lsn \in Nat \ {0} /\ log'[i].lsn > flushedLsn
                /\ log'[i].lsn < nextLsn'
  <2>1. PICK j \in 1 .. Len(losers) : i = Len(log) + j
    <3>1. i - Len(log) \in 1 .. Len(losers) /\ i = Len(log) + (i - Len(log))
      BY <1>2, <1>5, <1>9, <1>11
    <3>2. QED
      BY <3>1
  <2>2. log'[i].by = "none" /\ log'[i].lsn = nextLsn + j - 1
    BY <1>6, <1>9, <2>1
  <2>3. QED
    BY <1>3, <1>5, <1>10, <2>2, SMTT(30)
<1>12. Lsns'
  <2>1. durable' \in 0 .. Len(log') /\ nextLsn' \in Nat \ {0} /\ flushedLsn' < nextLsn' /\ nextLsn' >= nextLsn
    BY <1>2, <1>3, <1>4, <1>5, <1>9, <1>10
  <2>2. \A i \in 1 .. Len(log) : log'[i].lsn \in Nat \ {0} /\ (log'[i].by \in alive' => log'[i].lsn < nextLsn')
    BY <1>1, <1>4, <1>9, <1>10, <2>1 DEF Lsns
  <2>3. QED
    BY <1>4, <1>9, <1>10, <1>11, <2>1, <2>2 DEF Lsns
<1>13. Traces'
  <2>1. \A i \in 1 .. Len(log') : log'[i].by \in Txn => state'[log'[i].by] \notin {"unborn", "starting"}
    BY <1>1, <1>4, <1>9, <1>10, <1>11 DEF Traces
  <2>2. \A i \in 1 .. Len(log) : i \in 1 .. Len(log')
    BY <1>2, <1>5, <1>9
  <2>3. QED
    BY <1>1, <1>4, <1>9, <2>1, <2>2 DEF Traces
<1>14. FlushedIsDurable'
  <2>1. ASSUME NEW i \in durable' + 1 .. Len(log') PROVE log'[i].lsn > flushedLsn'
    <3>1. i \in 1 .. Len(log')
      BY <1>2, <1>4, <1>5, <1>9, <1>10
    <3>2. CASE i \in 1 .. Len(log)
      <4>1. i \in durable + 1 .. Len(log)
        BY <1>2, <1>4, <1>10, <2>1, <3>2
      <4>2. QED
        BY <1>1, <1>4, <1>9, <3>2, <4>1 DEF FlushedIsDurable
    <3>3. QED
      BY <1>4, <1>11, <3>1, <3>2
  <2>2. QED
    BY <2>1 DEF FlushedIsDurable
<1>15. AckedIsDurable'
  <2>1. \A i \in 1 .. durable : i \in 1 .. Len(log)
    BY <1>2, <1>10
  <2>2. QED
    BY <1>1, <1>4, <1>9, <2>1 DEF AckedIsDurable
<1>16. QED
  BY <1>12, <1>13, <1>14, <1>15 DEF LogInv

\* What was flushed is still there, and no transaction of the old process is.
LEMMA CrashStep == ASSUME LogInv, Crash PROVE LogInv'
<1>1. Lsns /\ Traces /\ AckedIsDurable
  BY DEF LogInv
<1>2. Len(log) \in Nat /\ durable \in 0 .. Len(log)
  BY <1>1, LogLength DEF Lsns
<1>3. /\ durable' \in durable .. Len(log) /\ log' = SubSeq(log, 1, durable')
      /\ nextLsn' = 1 /\ flushedLsn' = 0 /\ alive' = {}
      /\ state' = [t \in Txn |-> IF state[t] \in {"unborn", "committed", "aborted"}
                                 THEN state[t] ELSE "lost"]
  BY DEF Crash, FreshProcess
<1>4. durable' \in 0 .. Len(log)
  BY <1>2, <1>3
<1>5. IsLog(log') /\ Len(log') = durable' /\ \A i \in 1 .. durable' : log'[i] = log[i]
  BY <1>1, <1>3, <1>4, Cut DEF Lsns
<1>6. \A i \in 1 .. durable' : i \in 1 .. Len(log)
  BY <1>2, <1>4
<1>7. \A i \in 1 .. durable : i \in 1 .. durable'
  BY <1>2, <1>3
<1>8. Lsns'
  <2>1. durable' \in 0 .. Len(log')
    BY <1>4, <1>5
  <2>2. \A i \in 1 .. Len(log') : log'[i].lsn \in Nat \ {0} /\ log'[i].by \notin alive'
    BY <1>1, <1>3, <1>5, <1>6 DEF Lsns
  <2>3. nextLsn' \in Nat \ {0} /\ flushedLsn' \in Nat /\ flushedLsn' < nextLsn'
    BY <1>3
  <2>4. QED
    BY <1>5, <2>1, <2>2, <2>3 DEF Lsns
<1>9. Traces'
  <2>1. state' \in [Txn -> TxnStates] /\ \A t \in Txn : state'[t] # "committing"
    BY <1>1, <1>3 DEF Traces, TxnStates
  <2>2. \A t \in Txn : state[t] \notin {"unborn", "starting"} => state'[t] \notin {"unborn", "starting"}
    BY <1>3
  <2>3. alive' \subseteq Txn
    BY <1>3
  <2>4. \A i \in 1 .. Len(log') : log'[i].by \in Txn => state[log'[i].by] \notin {"unborn", "starting"}
    BY <1>1, <1>5, <1>6 DEF Traces
  <2>5. QED
    BY <2>1, <2>2, <2>3, <2>4 DEF Traces
<1>10. FlushedIsDurable'
  <2>1. \A i \in 1 .. durable' : log'[i].lsn \in Nat \ {0}
    BY <1>1, <1>5, <1>6 DEF Lsns
  <2>2. durable' + 1 .. Len(log') = {}
    BY <1>4, <1>5
  <2>3. QED
    BY <2>2 DEF FlushedIsDurable
<1>11. AckedIsDurable'
  <2>1. \A t \in Txn : state'[t] = "committed" => state[t] = "committed"
    BY <1>3
  <2>2. QED
    BY <1>1, <1>5, <1>7, <2>1 DEF AckedIsDurable
<1>12. QED
  BY <1>8, <1>9, <1>10, <1>11 DEF LogInv

LEMMA LogSteps == LogInv /\ Pending /\ [Next]_vars => LogInv'
<1> SUFFICES ASSUME LogInv, Pending, [Next]_vars PROVE LogInv'
  OBVIOUS
<1>1. ASSUME NEW t \in Txn, Step(t) PROVE LogInv'
  BY <1>1, BeginStep, LogBeginStep, WriteStep, CommitStep, AbortStep, FlushEndStep
     DEF Step, Put, Delete
<1>2. CASE Vacuum
  BY <1>2, CalmKeeps DEF Vacuum, txnVars
<1>3. CASE UNCHANGED vars
  BY <1>3, CalmKeeps DEF vars, txnVars
<1>4. QED
  BY <1>1, <1>2, <1>3, CheckpointStep, FlushCheckpointStep, RecoverStep, CrashStep DEF Next

\* Only Checkpoint sets ckptLsn, and only a crash, when it goes, sets LSNs back.
LEMMA PendingSteps == LogInv /\ LogInv' /\ Pending /\ [Next]_vars => Pending'
<1> SUFFICES ASSUME LogInv, LogInv', Pending, [Next]_vars PROVE Pending'
  OBVIOUS
<1>1. nextLsn \in Nat \ {0} /\ nextLsn' \in Nat \ {0} /\ ckptLsn \in Nat /\ ckptLsn < nextLsn
  BY DEF LogInv, Lsns, Pending
<1>2. ASSUME ckptLsn' = ckptLsn, nextLsn' \in {nextLsn, nextLsn + 1} PROVE Pending'
  BY <1>1, <1>2 DEF Pending
<1>3. ASSUME ckptLsn' = 0 PROVE Pending'
  BY <1>1, <1>3 DEF Pending
<1>4. ASSUME NEW t \in Txn, Step(t) PROVE Pending'
  <2>1. ckptLsn' = ckptLsn
    BY <1>4 DEF Step, Begin, LogBegin, Put, Delete, Write, Commit, Abort, FlushEnd, engineVars
  <2>2. nextLsn' \in {nextLsn, nextLsn + 1}
    BY <1>4 DEF Step, Begin, LogBegin, Put, Delete, Write, Commit, Abort, FlushEnd, walVars, AppendRecord
  <2>3. QED
    BY <1>2, <2>1, <2>2
<1>5. CASE Checkpoint
  <2>1. ckptLsn' = nextLsn /\ nextLsn' = nextLsn + 1
    BY <1>5 DEF Checkpoint, AppendRecord
  <2>2. QED
    BY <1>1, <2>1 DEF Pending
<1>6. CASE FlushCheckpoint
  BY <1>3, <1>6 DEF FlushCheckpoint
<1>7. CASE Vacuum
  BY <1>2, <1>7 DEF Vacuum, walVars
<1>8. CASE Recover
  BY <1>3, <1>8 DEF Recover, LatchFree
<1>9. CASE Crash
  BY <1>3, <1>9 DEF Crash, FreshProcess
<1>10. CASE UNCHANGED vars
  BY <1>2, <1>10 DEF vars, walVars, engineVars
<1>11. QED
  BY <1>4, <1>5, <1>6, <1>7, <1>8, <1>9, <1>10 DEF Next

WalInv == LogInv /\ Pending

LEMMA WalInitially == Init => WalInv
BY WalInitial DEF WalInv, Init, Pending

LEMMA WalSteps == WalInv /\ [Next]_vars => WalInv'
BY LogSteps, PendingSteps DEF WalInv

LEMMA WalInvariant == Spec => []WalInv
BY WalInitially, WalSteps, PTL DEF Spec

--------------------------------------------------------------------------------
\* Whatever a record's LSN, and though LSNs start again with every process, a
\* record that a crash can take is above flushed_lsn_ (WALManager::Flush).
THEOREM MarkIsOnDisk == Spec => []FlushedIsDurable
<1>1. WalInv => FlushedIsDurable
  BY DEF WalInv, LogInv
<1>2. QED
  BY <1>1, WalInvariant, PTL

\* No interleaving of appends and flushes, no crash and no recovery loses the
\* COMMIT record of a call to Commit that returned (Transaction::Commit).
THEOREM AckedCommitsStay == Spec => []AckedIsDurable
<1>1. WalInv => AckedIsDurable
  BY DEF WalInv, LogInv
<1>2. QED
  BY <1>1, WalInvariant, PTL

--------------------------------------------------------------------------------
(* Induction, and functions defined from one position of a sequence to the next. *)

\* A set of numbers has a least one.
LEMMA LeastIs ==
  ASSUME NEW S \in SUBSET Nat, S # {}
  PROVE  Min(S) \in S /\ Min(S) \in Nat /\ \A n \in S : Min(S) <= n
<1> DEFINE R == OpToRel(<, Nat)
<1>1. IsWellFoundedOn(R, Nat)
  BY NatLessThanWellFounded
<1>2. \A m, n \in Nat : m < n => <<m, n>> \in R
  BY DEF OpToRel
<1> HIDE DEF R
<1>3. PICK n \in S : \A m \in S : <<m, n>> \notin R
  <2>1. S \subseteq Nat
    OBVIOUS
  <2>2. QED
    BY <1>1, <2>1, WFMin
<1>4. \A m \in S : m \in Nat /\ n \in Nat /\ ~(m < n)
  BY <1>2, <1>3
<1>5. n \in S /\ n \in Nat /\ \A m \in S : n <= m
  BY <1>3, <1>4
<1>6. QED
  BY <1>5 DEF Min

\* What holds of 0, and of a position if of the one before it, holds of all.
LEMMA UpTo ==
  ASSUME NEW n \in Nat, NEW P, 0 \in P, \A i \in 1 .. n : i - 1 \in P => i \in P
  PROVE  \A i \in 0 .. n : i \in P
<1> SUFFICES ASSUME NEW k \in 0 .. n, k \notin P PROVE FALSE
  OBVIOUS
<1> DEFINE S == {i \in 0 .. n : i \notin P}
<1>1. S \in SUBSET Nat /\ S # {}
  OBVIOUS
<1>2. Min(S) \in S /\ \A i \in S : Min(S) <= i
  BY <1>1, LeastIs
<1>3. PICK m : m = Min(S)
  OBVIOUS
<1>4. m \in 0 .. n /\ m \notin P /\ \A i \in 0 .. n : i \notin P => m <= i
  BY <1>2, <1>3
<1>5. m # 0
  BY <1>4
<1>6. m \in 1 .. n /\ m - 1 \in 0 .. n /\ ~(m <= m - 1)
  BY <1>4, <1>5
<1>7. QED
  BY <1>4, <1>6

\* g makes each value from the one before it, beginning with base.
Steps(n, X, base, step) == n \in Nat /\ base \in X /\ step \in [1 .. n -> [X -> X]]
Stepwise(n, base, step, g) == g[0] = base /\ \A i \in 1 .. n : g[i] = step[i][g[i - 1]]

LEMMA StepwiseExists ==
  ASSUME NEW n, NEW X, NEW base, NEW step, Steps(n, X, base, step)
  PROVE  \E g : g \in [0 .. n -> X] /\ Stepwise(n, base, step, g)
<1> USE DEF Steps
<1> DEFINE Up(m) == \E g \in [0 .. n -> X] : g[0] = base /\ \A i \in 1 .. n : i <= m => g[i] = step[i][g[i - 1]]
           P == {m \in 0 .. n : Up(m)}
<1>1. 0 \in P
  <2> DEFINE g == [i \in 0 .. n |-> base]
  <2>1. g \in [0 .. n -> X] /\ g[0] = base /\ \A i \in 1 .. n : ~(i <= 0)
    OBVIOUS
  <2> HIDE DEF g
  <2>2. Up(0) /\ 0 \in 0 .. n
    BY <2>1
  <2> HIDE DEF Up
  <2>3. QED
    BY <2>2
<1>2. ASSUME NEW m \in 1 .. n, m - 1 \in P PROVE m \in P
  <2>1. Up(m - 1)
    BY <1>2
  <2>2. PICK g \in [0 .. n -> X] : g[0] = base /\ \A i \in 1 .. n : i <= m - 1 => g[i] = step[i][g[i - 1]]
    BY <2>1
  <2> DEFINE v == step[m][g[m - 1]]
             h == [g EXCEPT ![m] = v]
  <2>3. m - 1 \in 0 .. n /\ m \in 0 .. n /\ m # 0 /\ v \in X
    OBVIOUS
  <2> HIDE DEF v
  <2>4. h \in [0 .. n -> X] /\ \A i \in 0 .. n : h[i] = IF i = m THEN v ELSE g[i]
    BY <2>3
  <2> HIDE DEF h
  <2>5. ASSUME NEW i \in 1 .. n, i <= m PROVE h[i] = step[i][h[i - 1]]
    <3>1. i \in 0 .. n /\ i - 1 \in 0 .. n /\ i - 1 # m /\ i \in Int /\ m \in Int
      BY <2>5
    <3>2. h[i - 1] = g[i - 1]
      BY <2>4, <3>1
    <3>3. CASE i = m
      BY <2>4, <3>1, <3>2, <3>3 DEF v
    <3>4. CASE i # m
      <4>1. i <= m - 1 /\ h[i] = g[i]
        BY <2>4, <2>5, <3>1, <3>4
      <4>2. QED
        BY <2>2, <3>2, <4>1
    <3>5. QED
      BY <3>3, <3>4
  <2>6. h[0] = base
    BY <2>2, <2>3, <2>4
  <2>7. Up(m)
    BY <2>4, <2>5, <2>6
  <2> HIDE DEF Up
  <2>8. QED
    BY <2>3, <2>7
<1> HIDE DEF P
<1>3. n \in P
  <2>1. \A i \in 0 .. n : i \in P
    BY <1>1, <1>2, UpTo
  <2>2. QED
    BY <2>1
<1>4. Up(n)
  BY <1>3 DEF P
<1>5. QED
  BY <1>4 DEF Stepwise

--------------------------------------------------------------------------------
(* What recovery makes of the log. *)

TypeInv == TypeOK /\ \A i \in 1 .. Len(log) : IsWrite(log[i]) => log[i].by \in Txn

LEMMA RecordFacts ==
  ASSUME TypeInv
  PROVE  /\ Len(log) \in Nat /\ DOMAIN log = 1 .. Len(log) /\ log \in Seq(LogRecord)
         /\ \A i \in 1 .. Len(log) :
              /\ log[i] \in LogRecord /\ log[i].txn \in Nat /\ log[i].lsn \in Nat \ {0}
              /\ log[i].by \in Txn \union {"none"}
              /\ IsWrite(log[i]) => VersionOf(log[i]) \in Version
<1>1. log \in Seq(LogRecord)
  BY DEF TypeInv, TypeOK
<1>2. Len(log) \in Nat /\ DOMAIN log = 1 .. Len(log) /\ \A i \in 1 .. Len(log) : log[i] \in LogRecord
  BY <1>1
<1>3. ASSUME NEW i \in 1 .. Len(log)
      PROVE  /\ log[i].txn \in Nat /\ log[i].lsn \in Nat \ {0} /\ log[i].by \in Txn \union {"none"}
             /\ IsWrite(log[i]) => VersionOf(log[i]) \in Version
  BY <1>2 DEF LogRecord, VersionOf, Version, TypeInv
<1>4. QED
  BY <1>1, <1>2, <1>3

\* One version before a chain.
LEMMA Pushed ==
  ASSUME NEW v \in Version, NEW c \in Seq(Version)
  PROVE  /\ <<v>> \o c \in Seq(Version) /\ Len(<<v>> \o c) = Len(c) + 1 /\ Len(c) \in Nat
         /\ (<<v>> \o c)[1] = v
         /\ \A i \in 1 .. Len(c) : (<<v>> \o c)[i + 1] = c[i]
<1>1. <<v>> \in Seq(Version) /\ Len(<<v>>) = 1 /\ <<v>>[1] = v /\ Len(c) \in Nat
  OBVIOUS
<1>2. /\ <<v>> \o c \in Seq(Version) /\ Len(<<v>> \o c) = 1 + Len(c)
      /\ \A i \in 1 .. 1 + Len(c) : (<<v>> \o c)[i] = IF i <= 1 THEN <<v>>[i] ELSE c[i - 1]
  BY <1>1, ConcatProperties
<1>3. 1 \in 1 .. 1 + Len(c) /\ \A i \in 1 .. Len(c) : i + 1 \in 1 .. 1 + Len(c) /\ ~(i + 1 <= 1) /\ (i + 1) - 1 = i
  BY <1>1
<1>4. QED
  BY <1>1, <1>2, <1>3

\* Redo goes through the log, from the oldest record to the newest.
LEMMA RedoneIs ==
  ASSUME TypeInv, NEW k \in Key
  PROVE  \E c \in [0 .. Len(log) -> Seq(Version)] :
           /\ c[0] = <<>> /\ Redone(k) = c[Len(log)]
           /\ \A n \in 1 .. Len(log) :
                c[n] = IF IsWrite(log[n]) /\ log[n].key = k THEN <<VersionOf(log[n])>> \o c[n - 1]
                                                             ELSE c[n - 1]
<1> DEFINE X == Seq(Version)
           N == Len(log)
           IsChain(c) == c = [n \in 0 .. N |->
                                IF n = 0 THEN <<>>
                                ELSE IF IsWrite(log[n]) /\ log[n].key = k
                                     THEN <<VersionOf(log[n])>> \o c[n - 1] ELSE c[n - 1]]
           step == [n \in 1 .. N |-> [s \in X |-> IF IsWrite(log[n]) /\ log[n].key = k
                                                  THEN <<VersionOf(log[n])>> \o s ELSE s]]
<1>1. N \in Nat /\ \A n \in 1 .. N : IsWrite(log[n]) => VersionOf(log[n]) \in Version
  BY RecordFacts
<1>2. \A n \in 1 .. N, s \in X : IsWrite(log[n]) => <<VersionOf(log[n])>> \o s \in X
  BY <1>1, Pushed
<1>3. step \in [1 .. N -> [X -> X]] /\ <<>> \in X
  BY <1>2
<1>4. \A n \in 1 .. N, s \in X : step[n][s] = IF IsWrite(log[n]) /\ log[n].key = k
                                                  THEN <<VersionOf(log[n])>> \o s ELSE s
  OBVIOUS
<1>5. Redone(k) = (CHOOSE c : IsChain(c))[N]
  BY DEF Redone
<1> HIDE DEF step
<1>6. PICK g : g \in [0 .. N -> X] /\ Stepwise(N, <<>>, step, g)
  <2> HIDE DEF N, X
  <2>1. Steps(N, X, <<>>, step)
    BY <1>1, <1>3 DEF Steps
  <2>2. QED
    BY <2>1, StepwiseExists
<1>7. IsChain(g)
  <2>1. \A n \in 0 .. N : n # 0 => n \in 1 .. N /\ n - 1 \in 0 .. N
    BY <1>1
  <2>2. \A n \in 0 .. N : n # 0 => g[n - 1] \in X
    BY <1>6, <2>1
  <2>3. \A n \in 0 .. N : n # 0 =>
          step[n][g[n - 1]] = IF IsWrite(log[n]) /\ log[n].key = k
                                  THEN <<VersionOf(log[n])>> \o g[n - 1] ELSE g[n - 1]
    BY <1>4, <2>1, <2>2
  <2> HIDE DEF X, N
  <2>4. \A n \in 0 .. N : g[n] = IF n = 0 THEN <<>>
                                  ELSE IF IsWrite(log[n]) /\ log[n].key = k
                                       THEN <<VersionOf(log[n])>> \o g[n - 1] ELSE g[n - 1]
    BY <1>6, <2>1, <2>3 DEF Stepwise
  <2>5. QED
    BY <1>6, <2>4
<1>8. PICK c : IsChain(c) /\ Redone(k) = c[N]
  <2> HIDE DEF IsChain
  <2>1. QED
    BY <1>5, <1>7
<1>9. c[0] = <<>> /\ \A n \in 1 .. N : c[n] = IF IsWrite(log[n]) /\ log[n].key = k
                                               THEN <<VersionOf(log[n])>> \o c[n - 1] ELSE c[n - 1]
  <2>1. 0 \in 0 .. N /\ \A n \in 1 .. N : n \in 0 .. N /\ n # 0
    BY <1>1
  <2> HIDE DEF N
  <2>2. QED
    BY <1>8, <2>1
<1> HIDE DEF X
<1>10. \A n \in 0 .. N : n \in {m \in 0 .. N : c[m] \in X}
  <2> DEFINE P == {m \in 0 .. N : c[m] \in X}
  <2>1. 0 \in P
    BY <1>1, <1>3, <1>9
  <2>2. ASSUME NEW n \in 1 .. N, n - 1 \in P PROVE n \in P
    <3>1. n \in 0 .. N /\ c[n - 1] \in X
      BY <1>1, <2>2
    <3> HIDE DEF N
    <3>2. c[n] \in X
      BY <1>2, <1>9, <3>1
    <3>3. QED
      BY <3>1, <3>2
  <2> HIDE DEF P
  <2>3. \A n \in 0 .. N : n \in P
    BY <1>1, <2>1, <2>2, UpTo
  <2>4. QED
    BY <2>3 DEF P
<1>11. c \in [0 .. N -> X]
  <2>1. DOMAIN c = 0 .. N /\ c = [n \in DOMAIN c |-> c[n]]
    <3> HIDE DEF N
    <3> QED BY <1>8
  <2>2. QED
    BY <1>10, <2>1
<1>12. QED
  BY <1>8, <1>9, <1>11 DEF X

LEMMA StripFacts ==
  ASSUME NEW c \in Seq(Version), NEW id
  PROVE  /\ Stripped(c, id) \in Seq(Version) /\ Len(c) \in Nat
         /\ \/ Stripped(c, id) = <<>> /\ \A j \in 1 .. Len(c) : c[j].txn = id
            \/ \E i \in 1 .. Len(c) :
                 /\ c[i].txn # id /\ \A j \in 1 .. i - 1 : c[j].txn = id
                 /\ Len(Stripped(c, id)) = Len(c) - i + 1
                 /\ \A j \in 1 .. Len(c) - i + 1 : Stripped(c, id)[j] = c[j + i - 1]
<1> DEFINE others == {i \in DOMAIN c : c[i].txn # id}
<1>1. Len(c) \in Nat /\ DOMAIN c = 1 .. Len(c)
  OBVIOUS
<1>2. CASE others = {}
  BY <1>1, <1>2 DEF Stripped
<1>3. CASE others # {}
  <2>1. others \in SUBSET Nat
    BY <1>1
  <2> HIDE DEF others
  <2>2. Min(others) \in others /\ \A i \in others : Min(others) <= i
    BY <1>3, <2>1, LeastIs
  <2>3. PICK i : i = Min(others)
    OBVIOUS
  <2>4. i \in 1 .. Len(c) /\ c[i].txn # id
    BY <1>1, <2>2, <2>3 DEF others
  <2>5. ASSUME NEW j \in 1 .. i - 1 PROVE c[j].txn = id
    <3>1. j \in 1 .. Len(c) /\ ~(i <= j)
      BY <1>1, <2>4
    <3>2. QED
      BY <1>1, <2>2, <2>3, <3>1 DEF others
  <2>6. Stripped(c, id) = SubSeq(c, i, Len(c))
    BY <1>3, <2>3 DEF Stripped, others
  <2>7. /\ SubSeq(c, i, Len(c)) \in Seq(Version) /\ Len(SubSeq(c, i, Len(c))) = Len(c) - i + 1
        /\ \A j \in 1 .. Len(c) - i + 1 : SubSeq(c, i, Len(c))[j] = c[j + i - 1]
    <3>1. /\ Len(SubSeq(c, i, Len(c))) = IF i <= Len(c) THEN Len(c) - i + 1 ELSE 0
          /\ \A j \in 1 .. Len(c) - i + 1 : SubSeq(c, i, Len(c))[j] = c[i + j - 1]
          /\ SubSeq(c, i, Len(c)) \in Seq(Version)
      BY <1>1, <2>4, SubSeqProperties
    <3>2. \A j \in 1 .. Len(c) - i + 1 : i + j - 1 = j + i - 1
      BY <1>1, <2>4
    <3>3. QED
      BY <1>1, <2>4, <3>1, <3>2
  <2>8. QED
    BY <1>1, <2>4, <2>5, <2>6, <2>7
<1>4. QED
  BY <1>2, <1>3

\* Undo takes the transactions one after the other.
LEMMA UndoneIs ==
  ASSUME TypeInv, NEW k \in Key, NEW losers, Len(losers) \in Nat
  PROVE  \E c \in [0 .. Len(losers) -> Seq(Version)] :
           /\ c[0] = Redone(k) /\ Undone(k, losers) = c[Len(losers)]
           /\ \A n \in 1 .. Len(losers) : c[n] = Stripped(c[n - 1], losers[n])
<1> DEFINE X == Seq(Version)
           N == Len(losers)
           IsChain(c) == c = [n \in 0 .. N |-> IF n = 0 THEN Redone(k) ELSE Stripped(c[n - 1], losers[n])]
           step == [n \in 1 .. N |-> [s \in X |-> Stripped(s, losers[n])]]
<1>1. N \in Nat /\ Redone(k) \in X
  BY RedoneIs, RecordFacts
<1>2. \A n \in 1 .. N, s \in X : Stripped(s, losers[n]) \in X
  BY StripFacts
<1>3. step \in [1 .. N -> [X -> X]]
  BY <1>2
<1>4. \A n \in 1 .. N, s \in X : step[n][s] = Stripped(s, losers[n])
  OBVIOUS
<1>5. Undone(k, losers) = (CHOOSE c : IsChain(c))[N]
  BY DEF Undone
<1> HIDE DEF step, X
<1>6. PICK g : g \in [0 .. N -> X] /\ Stepwise(N, Redone(k), step, g)
  <2> HIDE DEF N
  <2>1. Steps(N, X, Redone(k), step)
    BY <1>1, <1>3 DEF Steps
  <2>2. QED
    BY <2>1, StepwiseExists
<1>7. IsChain(g)
  <2>1. \A n \in 0 .. N : n # 0 => n \in 1 .. N /\ n - 1 \in 0 .. N
    BY <1>1
  <2>2. \A n \in 0 .. N : n # 0 => g[n - 1] \in X
    BY <1>6, <2>1
  <2>3. \A n \in 0 .. N : n # 0 => step[n][g[n - 1]] = Stripped(g[n - 1], losers[n])
    BY <1>4, <2>1, <2>2
  <2> HIDE DEF N
  <2>4. \A n \in 0 .. N : g[n] = IF n = 0 THEN Redone(k) ELSE Stripped(g[n - 1], losers[n])
    BY <1>6, <2>1, <2>3 DEF Stepwise
  <2>5. QED
    BY <1>6, <2>4
<1>8. PICK c : IsChain(c) /\ Undone(k, losers) = c[N]
  <2> HIDE DEF IsChain
  <2>1. QED
    BY <1>5, <1>7
<1>9. c[0] = Redone(k) /\ \A n \in 1 .. N : c[n] = Stripped(c[n - 1], losers[n])
  <2>1. 0 \in 0 .. N /\ \A n \in 1 .. N : n \in 0 .. N /\ n # 0
    BY <1>1
  <2> HIDE DEF N
  <2>2. QED
    BY <1>8, <2>1
<1>10. \A n \in 0 .. N : n \in {m \in 0 .. N : c[m] \in X}
  <2> DEFINE P == {m \in 0 .. N : c[m] \in X}
  <2>1. 0 \in P
    BY <1>1, <1>9
  <2>2. ASSUME NEW n \in 1 .. N, n - 1 \in P PROVE n \in P
    <3>1. n \in 0 .. N /\ c[n - 1] \in X
      BY <1>1, <2>2
    <3> HIDE DEF N
    <3>2. c[n] \in X
      BY <1>2, <1>9, <3>1
    <3>3. QED
      BY <3>1, <3>2
  <2> HIDE DEF P
  <2>3. \A n \in 0 .. N : n \in P
    BY <1>1, <2>1, <2>2, UpTo
  <2>4. QED
    BY <2>3 DEF P
<1>11. c \in [0 .. N -> X]
  <2>1. DOMAIN c = 0 .. N /\ c = [n \in DOMAIN c |-> c[n]]
    <3> HIDE DEF N
    <3> QED BY <1>8
  <2>2. QED
    BY <1>10, <2>1
<1>12. QED
  BY <1>8, <1>9, <1>11 DEF X

\* No write in the log is newer than MaxTs.
LEMMA MaxTsIs ==
  ASSUME TypeInv
  PROVE  /\ MaxTs \in Nat \ {0}
         /\ \A i \in 1 .. Len(log) : IsWrite(log[i]) => log[i].lsn <= MaxTs
<1> DEFINE X == Nat \ {0}
           N == Len(log)
           Next_(n, m) == IF IsWrite(log[n]) /\ log[n].lsn > m THEN log[n].lsn ELSE m
           IsMax(c) == c = [n \in 0 .. N |-> IF n = 0 THEN 1 ELSE Next_(n, c[n - 1])]
           step == [n \in 1 .. N |-> [m \in X |-> Next_(n, m)]]
<1>1. N \in Nat /\ 1 \in X
  BY RecordFacts
<1>2. \A n \in 1 .. N, m \in X : Next_(n, m) \in X /\ Next_(n, m) >= m
                                 /\ (IsWrite(log[n]) => log[n].lsn <= Next_(n, m))
  BY RecordFacts
<1>3. step \in [1 .. N -> [X -> X]]
  BY <1>2
<1>4. \A n \in 1 .. N, m \in X : step[n][m] = Next_(n, m)
  OBVIOUS
<1>5. MaxTs = (CHOOSE c : IsMax(c))[N]
  BY DEF MaxTs
<1> HIDE DEF step, X, Next_
<1>6. PICK g : g \in [0 .. N -> X] /\ Stepwise(N, 1, step, g)
  <2> HIDE DEF N
  <2>1. Steps(N, X, 1, step)
    BY <1>1, <1>3 DEF Steps
  <2>2. QED
    BY <2>1, StepwiseExists
<1>7. IsMax(g)
  <2>1. \A n \in 0 .. N : n # 0 => n \in 1 .. N /\ n - 1 \in 0 .. N
    BY <1>1
  <2>2. \A n \in 0 .. N : n # 0 => g[n - 1] \in X
    BY <1>6, <2>1
  <2>3. \A n \in 0 .. N : n # 0 => step[n][g[n - 1]] = Next_(n, g[n - 1])
    BY <1>4, <2>1, <2>2
  <2> HIDE DEF N
  <2>4. \A n \in 0 .. N : g[n] = IF n = 0 THEN 1 ELSE Next_(n, g[n - 1])
    BY <1>6, <2>1, <2>3 DEF Stepwise
  <2>5. QED
    BY <1>6, <2>4
<1>8. PICK c : IsMax(c) /\ MaxTs = c[N]
  <2> HIDE DEF IsMax
  <2>1. QED
    BY <1>5, <1>7
<1>9. c[0] = 1 /\ \A n \in 1 .. N : c[n] = Next_(n, c[n - 1])
  <2>1. 0 \in 0 .. N /\ \A n \in 1 .. N : n \in 0 .. N /\ n # 0
    BY <1>1
  <2> HIDE DEF N
  <2>2. QED
    BY <1>8, <2>1
<1> DEFINE P == {m \in 0 .. N : c[m] \in X /\ \A i \in 1 .. m : IsWrite(log[i]) => log[i].lsn <= c[m]}
<1>10. 0 \in P
  BY <1>1, <1>9
<1>11. ASSUME NEW n \in 1 .. N, n - 1 \in P PROVE n \in P
  <2>1. n \in 0 .. N /\ c[n - 1] \in X /\ \A i \in 1 .. n - 1 : IsWrite(log[i]) => log[i].lsn <= c[n - 1]
    BY <1>1, <1>11
  <2>2. \A i \in 1 .. n : i = n \/ i \in 1 .. n - 1
    BY <1>1
  <2>3. c[n] \in X /\ c[n] >= c[n - 1] /\ (IsWrite(log[n]) => log[n].lsn <= c[n])
    <3> HIDE DEF N
    <3> QED BY <1>2, <1>9, <2>1
  <2>4. ASSUME NEW i \in 1 .. n, IsWrite(log[i]) PROVE log[i].lsn <= c[n]
    <3>1. CASE i = n
      BY <2>3, <2>4, <3>1
    <3>2. CASE i # n
      <4>1. i \in 1 .. N /\ i \in 1 .. n - 1
        BY <1>1, <2>2, <3>2
      <4>2. log[i].lsn \in Nat /\ log[i].lsn <= c[n - 1]
        BY <2>1, <2>4, <4>1, RecordFacts
      <4>3. c[n] \in Nat /\ c[n - 1] \in Nat /\ c[n] >= c[n - 1]
        BY <2>1, <2>3 DEF X
      <4> HIDE DEF N
      <4>4. QED
        BY <4>2, <4>3
    <3>3. QED
      BY <3>1, <3>2
  <2>5. QED
    BY <2>1, <2>3, <2>4
<1> HIDE DEF P
<1>12. N \in P
  <2>1. \A n \in 0 .. N : n \in P
    BY <1>1, <1>10, <1>11, UpTo
  <2>2. QED
    BY <1>1, <2>1
<1>13. QED
  BY <1>8, <1>12 DEF P, X

LEMMA NextTxnIdIs == ASSUME TypeInv PROVE NextTxnId \in Nat \ {0}
<1> DEFINE X == Nat \ {0}
           N == Len(log)
           Next_(n, m) == IF log[n].txn > m THEN log[n].txn + 1 ELSE m
           IsNext(c) == c = [n \in 0 .. N |-> IF n = 0 THEN nextTxnId ELSE Next_(n, c[n - 1])]
           step == [n \in 1 .. N |-> [m \in X |-> Next_(n, m)]]
<1>1. N \in Nat /\ nextTxnId \in X
  BY RecordFacts DEF TypeInv, TypeOK
<1>2. \A n \in 1 .. N, m \in X : Next_(n, m) \in X
  BY RecordFacts
<1>3. step \in [1 .. N -> [X -> X]]
  BY <1>2
<1>4. \A n \in 1 .. N, m \in X : step[n][m] = Next_(n, m)
  OBVIOUS
<1>5. NextTxnId = (CHOOSE c : IsNext(c))[N]
  BY DEF NextTxnId
<1> HIDE DEF step, X, Next_
<1>6. PICK g : g \in [0 .. N -> X] /\ Stepwise(N, nextTxnId, step, g)
  <2> HIDE DEF N
  <2>1. Steps(N, X, nextTxnId, step)
    BY <1>1, <1>3 DEF Steps
  <2>2. QED
    BY <2>1, StepwiseExists
<1>7. IsNext(g)
  <2>1. \A n \in 0 .. N : n # 0 => n \in 1 .. N /\ n - 1 \in 0 .. N
    BY <1>1
  <2>2. \A n \in 0 .. N : n # 0 => g[n - 1] \in X
    BY <1>6, <2>1
  <2>3. \A n \in 0 .. N : n # 0 => step[n][g[n - 1]] = Next_(n, g[n - 1])
    BY <1>4, <2>1, <2>2
  <2> HIDE DEF N
  <2>4. \A n \in 0 .. N : g[n] = IF n = 0 THEN nextTxnId ELSE Next_(n, g[n - 1])
    BY <1>6, <2>1, <2>3 DEF Stepwise
  <2>5. QED
    BY <1>6, <2>4
<1>8. PICK c : IsNext(c) /\ NextTxnId = c[N]
  <2> HIDE DEF IsNext
  <2>1. QED
    BY <1>5, <1>7
<1>9. c[0] = nextTxnId /\ \A n \in 1 .. N : c[n] = Next_(n, c[n - 1])
  <2>1. 0 \in 0 .. N /\ \A n \in 1 .. N : n \in 0 .. N /\ n # 0
    BY <1>1
  <2> HIDE DEF N
  <2>2. QED
    BY <1>8, <2>1
<1> DEFINE P == {m \in 0 .. N : c[m] \in X}
<1>10. 0 \in P
  BY <1>1, <1>9
<1>11. ASSUME NEW n \in 1 .. N, n - 1 \in P PROVE n \in P
  <2>1. n \in 0 .. N /\ c[n - 1] \in X
    BY <1>1, <1>11
  <2> HIDE DEF N
  <2>2. c[n] \in X
    BY <1>2, <1>9, <2>1
  <2>3. QED
    BY <2>1, <2>2
<1> HIDE DEF P
<1>12. N \in P
  <2>1. \A n \in 0 .. N : n \in P
    BY <1>1, <1>10, <1>11, UpTo
  <2>2. QED
    BY <1>1, <2>1
<1>13. QED
  BY <1>8, <1>12 DEF P, X

LEMMA VacuumFacts ==
  ASSUME NEW c \in Seq(Version), globalTs \in Nat
  PROVE  /\ Vacuumed(c) \in Seq(Version) /\ Len(c) \in Nat
         /\ \/ Vacuumed(c) = c
            \/ \E i \in 1 .. Len(c) - 1 :
                 LET d == IF c[i].deleted THEN i - 1 ELSE i
                 IN  /\ c[i].ts # Unstamped /\ c[i].ts < globalTs
                     /\ Len(Vacuumed(c)) = d /\ \A j \in 1 .. d : Vacuumed(c)[j] = c[j]
<1>1. Len(c) \in Nat
  OBVIOUS
<1>2. CASE Prunable(c) = {}
  BY <1>1, <1>2 DEF Vacuumed
<1>3. CASE Prunable(c) # {}
  <2>1. Prunable(c) \in SUBSET Nat
    BY <1>1 DEF Prunable
  <2>2. Min(Prunable(c)) \in Prunable(c)
    BY <1>3, <2>1, LeastIs
  <2>3. PICK i : i = Min(Prunable(c))
    OBVIOUS
  <2>4. i \in 1 .. Len(c) - 1 /\ c[i].ts # Unstamped /\ c[i].ts < globalTs
    BY <2>2, <2>3 DEF Prunable
  <2>5. PICK d : d = IF c[i].deleted THEN i - 1 ELSE i
    OBVIOUS
  <2>6. d \in 0 .. Len(c)
    BY <1>1, <2>4, <2>5
  <2>7. Vacuumed(c) = SubSeq(c, 1, d)
    BY <1>3, <2>3, <2>5 DEF Vacuumed
  <2>8. \A j \in 1 .. d : c[j] \in Version
    BY <1>1, <2>6
  <2>9. /\ SubSeq(c, 1, d) \in Seq(Version) /\ Len(SubSeq(c, 1, d)) = d
        /\ \A j \in 1 .. d : SubSeq(c, 1, d)[j] = c[j]
    BY <2>6
  <2>10. QED
    BY <1>1, <2>4, <2>5, <2>7, <2>9
<1>4. QED
  BY <1>2, <1>3

\* The transactions to undo, in some order: each of them once.
LEMMA LosersAre ==
  ASSUME TypeInv, NEW losers \in SetToSeqs(ActiveTxns)
  PROVE  /\ losers \in Seq(Nat) /\ Len(losers) \in Nat
         /\ \A id \in ActiveTxns : \E n \in 1 .. Len(losers) : losers[n] = id
         /\ \A n \in 1 .. Len(losers) : losers[n] \in ActiveTxns
<1>1. /\ Len(log) \in Nat /\ DOMAIN log = 1 .. Len(log) /\ \A i \in 1 .. Len(log) : log[i].txn \in Nat
  BY RecordFacts
<1> DEFINE ends == {j \in DOMAIN log :
                      /\ log[j].type = "BEGIN" \/ IsWrite(log[j])
                      /\ \A m \in j + 1..Len(log) : ~(IsEnd(log[m]) /\ log[m].txn = log[j].txn)}
<1>2. IsFiniteSet(ends)
  <2>1. IsFiniteSet(1 .. Len(log))
    BY <1>1, FS_Interval
  <2>2. QED
    BY <1>1, <2>1, FS_Subset
<1>3. ActiveTxns = {log[i].txn : i \in ends}
  BY DEF ActiveTxns
<1>4. \A i \in ends : i \in 1 .. Len(log)
  BY <1>1
<1> HIDE DEF ends
<1>5. ActiveTxns \subseteq Nat
  BY <1>1, <1>3, <1>4
<1>6. IsFiniteSet(ActiveTxns)
  <2> DEFINE owner == [i \in ends |-> log[i].txn]
  <2>1. owner \in Surjection(ends, ActiveTxns)
    BY <1>3 DEF Surjection
  <2>2. QED
    BY <1>2, <2>1, FS_Surjection
<1> DEFINE A == ActiveTxns
           m == Cardinality(A)
<1>7. /\ m \in Nat /\ losers \in [1 .. m -> A]
      /\ \A i, j \in 1 .. m : i # j => losers[i] # losers[j]
  BY <1>6, FS_CardinalityType DEF SetToSeqs
<1>8. losers \in Seq(A) /\ Len(losers) = m
  BY <1>7
<1>9. \A id \in A : \E n \in 1 .. m : losers[n] = id
  <2> HIDE DEF m, A
  <2> DEFINE D == 1 .. m
  <2>1. losers \in Injection(D, A)
    BY <1>7 DEF Injection, IsInjective
  <2>2. IsFiniteSet(D) /\ Cardinality(D) = m
    BY <1>7, FS_Interval
  <2>3. IsFiniteSet(A) /\ Cardinality(D) = Cardinality(A)
    BY <1>6, <2>2 DEF m, A
  <2>4. losers \in Surjection(D, A)
    BY <2>1, <2>3, FS_Injection
  <2>5. QED
    BY <2>4 DEF Surjection
<1>10. losers \in Seq(Nat)
  BY <1>5, <1>8, SeqMonotonic
<1>11. QED
  BY <1>7, <1>8, <1>9, <1>10

--------------------------------------------------------------------------------
(* Types. *)

LogTyped(l) == l \in Seq(LogRecord) /\ \A i \in 1 .. Len(l) : IsWrite(l[i]) => l[i].by \in Txn

EngineTyped ==
  /\ mode \in {"opened", "recovered", "running"} /\ nextTxnId \in Nat \ {0} /\ globalTs \in Nat \ {0}
  /\ index \in [Key -> Seq(Version)] /\ txnId \in [Txn -> Nat] /\ readTs \in [Txn -> Nat]
  /\ commitTs \in [Txn -> Nat] /\ writeSet \in [Txn -> [Key -> {"none", "put", "delete"}]]
  /\ ckptLsn \in Nat /\ crashes \in 0 .. MaxCrashes

LEMMA TypeParts ==
  WalInv => (TypeInv <=> LogTyped(log) /\ EngineTyped)
BY DEF WalInv, LogInv, Lsns, Traces, Pending, TypeInv, TypeOK, LogTyped, EngineTyped

GoodRecord(rec) ==
  /\ rec \in [type : LogTypes, txn : Nat, key : Key \union {"none"}, by : Txn \union {"none"}]
  /\ IsWrite(rec) => rec.by \in Txn

LEMMA LogGrows ==
  ASSUME LogTyped(log), NEW r \in LogRecord, IsWrite(r) => r.by \in Txn
  PROVE  LogTyped(Append(log, r))
<1>1. Append(log, r) \in Seq(LogRecord) /\ Len(Append(log, r)) = Len(log) + 1 /\ Len(log) \in Nat
  BY DEF LogTyped
<1>2. \A i \in 1 .. Len(log) + 1 : Append(log, r)[i] = IF i = Len(log) + 1 THEN r ELSE log[i]
  BY DEF LogTyped
<1>3. \A i \in 1 .. Len(log) + 1 : i = Len(log) + 1 \/ i \in 1 .. Len(log)
  BY <1>1
<1>4. QED
  BY <1>1, <1>2, <1>3 DEF LogTyped

LEMMA AppendTyped ==
  ASSUME LogTyped(log), nextLsn \in Nat \ {0}, NEW rec, GoodRecord(rec), AppendRecord(rec)
  PROVE  LogTyped(log')
<1> DEFINE r == WithLsn(rec, nextLsn)
<1>1. r \in LogRecord /\ (IsWrite(r) => r.by \in Txn)
  BY DEF GoodRecord, WithLsn, LogRecord, IsWrite
<1>2. log' = Append(log, r)
  BY DEF AppendRecord
<1> HIDE DEF r
<1>3. LogTyped(Append(log, r))
  BY <1>1, LogGrows
<1>4. QED
  BY <1>2, <1>3

LEMMA RecordIsGood ==
  ASSUME NEW type \in LogTypes, NEW id \in Nat, NEW k \in Key \union {"none"}, NEW by \in Txn \union {"none"},
         by = "none" => type \notin {"INSERT", "DELETE"}
  PROVE  GoodRecord(Record(type, id, k, by))
BY DEF GoodRecord, Record, IsWrite

LEMMA TypeInitial == Init => WalInv /\ TypeInv
<1> SUFFICES ASSUME Init PROVE WalInv /\ LogTyped(log) /\ EngineTyped
  BY TypeParts
<1>1. WalInv
  BY WalInitially
<1>2. log = <<>> /\ <<>> \in Seq(LogRecord) /\ <<>> \in Seq(Version) /\ Len(<<>>) = 0
  BY DEF Init
<1>3. LogTyped(log)
  BY <1>2 DEF LogTyped
<1>4. EngineTyped
  BY <1>2, MvccAssumption DEF Init, EngineTyped
<1>5. QED
  BY <1>1, <1>3, <1>4

LEMMA StepTyped ==
  ASSUME WalInv, TypeInv, NEW t \in Txn, Step(t)
  PROVE  LogTyped(log') /\ EngineTyped'
<1>1. LogTyped(log) /\ EngineTyped /\ nextLsn \in Nat \ {0} /\ state \in [Txn -> TxnStates]
  BY TypeParts DEF TypeInv, TypeOK
<1>2. txnId[t] \in Nat /\ readTs[t] \in Nat /\ commitTs[t] \in Nat
  BY <1>1 DEF EngineTyped
<1>3. CASE Begin(t)
  BY <1>1, <1>3 DEF Begin, EngineTyped, walVars
<1>4. CASE LogBegin(t)
  <2>1. GoodRecord(Record("BEGIN", txnId[t], "none", t))
    BY <1>2, RecordIsGood DEF LogTypes
  <2>2. QED
    BY <1>1, <1>4, <2>1, AppendTyped DEF LogBegin, EngineTyped, engineVars
<1>5. ASSUME NEW k \in Key, NEW op \in {"put", "delete"}, Write(t, k, op)
      PROVE  LogTyped(log') /\ EngineTyped'
  <2> DEFINE type == IF op = "put" THEN "INSERT" ELSE "DELETE"
             v == [ts |-> IF commitTs[t] # 0 THEN commitTs[t] ELSE Unstamped,
                   txn |-> txnId[t], deleted |-> op = "delete", by |-> t]
  <2>1. GoodRecord(Record(type, txnId[t], k, t))
    <3>1. type \in LogTypes /\ t # "none"
      BY MvccAssumption DEF LogTypes
    <3> HIDE DEF type
    <3>2. QED
      BY <1>2, <3>1, RecordIsGood
  <2>2. v \in Version
    BY <1>2, <1>5 DEF Version
  <2>3. index' = [index EXCEPT ![k] = <<v>> \o @] /\ AppendRecord(Record(type, txnId[t], k, t))
    BY <1>5 DEF Write
  <2> HIDE DEF v, type
  <2>4. index[k] \in Seq(Version) /\ <<v>> \o index[k] \in Seq(Version)
    BY <1>1, <2>2, Pushed DEF EngineTyped
  <2>5. index' \in [Key -> Seq(Version)]
    BY <1>1, <2>3, <2>4 DEF EngineTyped
  <2>6. writeSet' \in [Txn -> [Key -> {"none", "put", "delete"}]]
    <3>1. writeSet' = [writeSet EXCEPT ![t][k] = op]
      BY <1>5 DEF Write
    <3>2. QED
      BY <1>1, <1>5, <3>1 DEF EngineTyped
  <2>7. LogTyped(log')
    BY <1>1, <2>1, <2>3, AppendTyped
  <2>8. QED
    BY <1>1, <1>5, <2>5, <2>6, <2>7 DEF Write, EngineTyped
<1>6. CASE Commit(t)
  <2>1. GoodRecord(Record("COMMIT", txnId[t], "none", t))
    BY <1>2, RecordIsGood DEF LogTypes
  <2>2. commitTs' \in [Txn -> Nat]
    BY <1>1, <1>2, <1>6 DEF Commit, EngineTyped
  <2>3. QED
    BY <1>1, <1>6, <2>1, <2>2, AppendTyped DEF Commit, EngineTyped, engineVars
<1>7. CASE Abort(t)
  <2>1. GoodRecord(Record("ABORT", txnId[t], "none", t))
    BY <1>2, RecordIsGood DEF LogTypes
  <2>2. QED
    BY <1>1, <1>7, <2>1, AppendTyped DEF Abort, EngineTyped, engineVars
<1>8. CASE FlushEnd(t)
  BY <1>1, <1>8 DEF FlushEnd, EngineTyped, engineVars
<1>9. QED
  BY <1>3, <1>4, <1>5, <1>6, <1>7, <1>8 DEF Step, Put, Delete

LEMMA RecoverTyped ==
  ASSUME WalInv, TypeInv, Recover
  PROVE  LogTyped(log') /\ EngineTyped'
<1>1. LogTyped(log) /\ EngineTyped /\ nextLsn \in Nat \ {0} /\ state \in [Txn -> TxnStates]
  BY TypeParts DEF TypeInv, TypeOK
<1>2. PICK losers \in SetToSeqs(ActiveTxns) :
        /\ index' = [k \in Key |-> Undone(k, losers)]
        /\ log' = log \o [i \in 1 .. Len(losers) |->
                            WithLsn(Record("ABORT", losers[i], "none", "none"), nextLsn + i - 1)]
  BY DEF Recover
<1>3. Len(losers) \in Nat /\ \A i \in 1 .. Len(losers) : losers[i] \in Nat
  BY LosersAre
<1>4. \A k \in Key : Undone(k, losers) \in Seq(Version)
  BY <1>3, UndoneIs
<1>5. nextTxnId' \in Nat \ {0} /\ globalTs' \in Nat \ {0} /\ mode' = "recovered"
  BY NextTxnIdIs, MaxTsIs DEF Recover
<1>6. EngineTyped'
  BY <1>1, <1>2, <1>4, <1>5 DEF Recover, EngineTyped, txnVars
<1> DEFINE rec(i) == WithLsn(Record("ABORT", losers[i], "none", "none"), nextLsn + i - 1)
           recs == [i \in 1 .. Len(losers) |-> rec(i)]
<1>7. \A i \in 1 .. Len(losers) : rec(i) \in LogRecord /\ ~IsWrite(rec(i))
  BY <1>1, <1>3 DEF WithLsn, Record, LogRecord, LogTypes, IsWrite
<1>8. log' = log \o recs
  BY <1>2
<1> HIDE DEF rec
<1>9. /\ recs \in Seq(LogRecord) /\ Len(recs) = Len(losers)
      /\ \A i \in 1 .. Len(recs) : ~IsWrite(recs[i])
  BY <1>3, <1>7
<1> HIDE DEF recs
<1>10. LogTyped(log \o recs)
  <2>1. log \in Seq(LogRecord) /\ Len(log) \in Nat /\ Len(recs) \in Nat
    BY <1>1, <1>9 DEF LogTyped
  <2>2. /\ log \o recs \in Seq(LogRecord) /\ Len(log \o recs) = Len(log) + Len(recs)
        /\ \A i \in 1 .. Len(log) + Len(recs) :
             (log \o recs)[i] = IF i <= Len(log) THEN log[i] ELSE recs[i - Len(log)]
    BY <1>9, <2>1, ConcatProperties
  <2>3. ASSUME NEW i \in 1 .. Len(log) + Len(recs), IsWrite((log \o recs)[i])
        PROVE  (log \o recs)[i].by \in Txn
    <3>1. CASE i <= Len(log)
      <4>1. i \in 1 .. Len(log) /\ (log \o recs)[i] = log[i]
        BY <2>1, <2>2, <3>1
      <4>2. QED
        BY <1>1, <2>3, <4>1 DEF LogTyped
    <3>2. CASE ~(i <= Len(log))
      <4>1. i - Len(log) \in 1 .. Len(recs) /\ (log \o recs)[i] = recs[i - Len(log)]
        BY <2>1, <2>2, <3>2
      <4>2. QED
        BY <1>9, <2>3, <4>1
    <3>3. QED
      BY <3>1, <3>2
  <2>4. QED
    BY <2>2, <2>3 DEF LogTyped
<1>11. QED
  BY <1>6, <1>8, <1>10

LEMMA CrashTyped ==
  ASSUME WalInv, TypeInv, Crash
  PROVE  LogTyped(log') /\ EngineTyped'
<1>1. LogTyped(log) /\ EngineTyped /\ Len(log) \in Nat /\ durable \in 0 .. Len(log)
  BY TypeParts, RecordFacts DEF TypeInv, TypeOK
<1>2. durable' \in 0 .. Len(log) /\ log' = SubSeq(log, 1, durable')
  BY <1>1 DEF Crash
<1>3. PICK d : d = durable'
  OBVIOUS
<1>4. LogTyped(SubSeq(log, 1, d))
  <2>1. log \in Seq(LogRecord) /\ d \in 0 .. Len(log) /\ \A i \in 1 .. d : i \in 1 .. Len(log)
    BY <1>1, <1>2, <1>3 DEF LogTyped
  <2>2. /\ SubSeq(log, 1, d) \in Seq(LogRecord) /\ Len(SubSeq(log, 1, d)) = d
        /\ \A i \in 1 .. d : SubSeq(log, 1, d)[i] = log[i]
    BY <1>1, <2>1
  <2>3. QED
    BY <1>1, <2>1, <2>2 DEF LogTyped
<1>5. <<>> \in Seq(Version) /\ crashes' \in 0 .. MaxCrashes
  BY <1>1, MvccAssumption DEF Crash, EngineTyped
<1>6. EngineTyped'
  BY <1>1, <1>5 DEF Crash, FreshProcess, EngineTyped
<1>7. QED
  BY <1>2, <1>3, <1>4, <1>6

LEMMA TypeSteps == WalInv /\ TypeInv /\ [Next]_vars => TypeInv'
<1> SUFFICES ASSUME WalInv, TypeInv, [Next]_vars PROVE TypeInv'
  OBVIOUS
<1>1. LogTyped(log) /\ EngineTyped /\ nextLsn \in Nat \ {0}
  BY TypeParts DEF TypeInv, TypeOK
<1>2. ASSUME Checkpoint PROVE LogTyped(log') /\ EngineTyped'
  <2>1. GoodRecord(Record("CHECKPOINT", 0, "none", "none"))
    BY RecordIsGood DEF LogTypes
  <2>2. LogTyped(log')
    BY <1>1, <1>2, <2>1, AppendTyped DEF Checkpoint
  <2>3. QED
    BY <1>1, <1>2, <2>2 DEF Checkpoint, EngineTyped, txnVars
<1>3. ASSUME FlushCheckpoint PROVE LogTyped(log') /\ EngineTyped'
  BY <1>1, <1>3 DEF FlushCheckpoint, EngineTyped, txnVars
<1>4. ASSUME Vacuum PROVE LogTyped(log') /\ EngineTyped'
  <2>1. index \in [Key -> Seq(Version)] /\ globalTs \in Nat
    BY <1>1 DEF EngineTyped
  <2>2. \A k \in Key : Vacuumed(index[k]) \in Seq(Version)
    BY <2>1, VacuumFacts
  <2>3. index' \in [Key -> Seq(Version)]
    BY <1>4, <2>2 DEF Vacuum
  <2>4. QED
    BY <1>1, <1>4, <2>3 DEF Vacuum, EngineTyped, walVars, txnVars
<1>5. ASSUME UNCHANGED vars PROVE LogTyped(log') /\ EngineTyped'
  BY <1>1, <1>5 DEF vars, walVars, engineVars, txnVars, EngineTyped
<1>6. LogTyped(log') /\ EngineTyped'
  BY <1>2, <1>4, <1>5, <1>3, StepTyped, RecoverTyped, CrashTyped DEF Next
<1>7. WalInv'
  BY WalSteps
<1>8. (WalInv => (TypeInv <=> LogTyped(log) /\ EngineTyped))'
  BY TypeParts, PTL
<1>9. QED
  BY <1>6, <1>7, <1>8

LEMMA TypeInvariant == Spec => [](WalInv /\ TypeInv)
BY TypeInitial, WalSteps, TypeSteps, PTL DEF Spec

--------------------------------------------------------------------------------
(* What a transaction reads. *)

\* The first version that is seen is the one read, and without one nothing is.
LEMMA LookupIs ==
  ASSUME NEW c \in Seq(Version), NEW id, NEW ts
  PROVE  /\ \/ Lookup(c, id, ts) = "none" /\ \A j \in 1 .. Len(c) : ~Sees(c[j], id, ts)
            \/ \E i \in 1 .. Len(c) : Sees(c[i], id, ts) /\ \A j \in 1 .. i - 1 : ~Sees(c[j], id, ts)
         /\ \A i \in 1 .. Len(c) : Sees(c[i], id, ts) /\ (\A j \in 1 .. i - 1 : ~Sees(c[j], id, ts)) =>
              Lookup(c, id, ts) = IF c[i].deleted THEN "none" ELSE c[i].by
<1> DEFINE seen == {i \in DOMAIN c : Sees(c[i], id, ts)}
<1>1. Len(c) \in Nat /\ DOMAIN c = 1 .. Len(c) /\ seen \in SUBSET Nat
  OBVIOUS
<1>2. Lookup(c, id, ts) = IF seen = {} \/ c[Min(seen)].deleted THEN "none" ELSE c[Min(seen)].by
  BY DEF Lookup
<1>3. \A i \in 1 .. Len(c) : i \in seen <=> Sees(c[i], id, ts)
  BY <1>1
<1>4. \A i \in seen : i \in 1 .. Len(c)
  BY <1>1
<1> HIDE DEF seen
<1>5. CASE seen = {}
  BY <1>2, <1>3, <1>5
<1>6. CASE seen # {}
  <2>1. PICK m : m = Min(seen)
    OBVIOUS
  <2>2. m \in seen /\ \A i \in seen : m <= i
    BY <1>1, <1>6, <2>1, LeastIs
  <2>3. m \in 1 .. Len(c) /\ Sees(c[m], id, ts) /\ \A j \in 1 .. m - 1 : ~Sees(c[j], id, ts)
    <3>1. m \in 1 .. Len(c) /\ Sees(c[m], id, ts)
      BY <1>3, <1>4, <2>2
    <3>2. \A j \in 1 .. m - 1 : j \in 1 .. Len(c) /\ ~(m <= j)
      BY <1>1, <3>1
    <3>3. QED
      BY <1>3, <2>2, <3>1, <3>2
  <2>4. Lookup(c, id, ts) = IF c[m].deleted THEN "none" ELSE c[m].by
    BY <1>2, <1>6, <2>1
  <2>5. ASSUME NEW i \in 1 .. Len(c), Sees(c[i], id, ts), \A j \in 1 .. i - 1 : ~Sees(c[j], id, ts)
        PROVE  i = m
    <3>1. m <= i
      BY <1>3, <2>2, <2>5
    <3>2. ~(m < i)
      BY <1>1, <2>3, <2>5
    <3>3. QED
      BY <1>1, <2>3, <3>1, <3>2
  <2>6. QED
    BY <2>3, <2>4, <2>5
<1>7. QED
  BY <1>5, <1>6

\* A new version is read by those who see it, and changes nothing for others.
LEMMA LookupPushed ==
  ASSUME NEW v \in Version, NEW c \in Seq(Version), NEW id, NEW ts
  PROVE  /\ Sees(v, id, ts) => Lookup(<<v>> \o c, id, ts) = IF v.deleted THEN "none" ELSE v.by
         /\ ~Sees(v, id, ts) => Lookup(<<v>> \o c, id, ts) = Lookup(c, id, ts)
<1> DEFINE d == <<v>> \o c
<1>1. /\ d \in Seq(Version) /\ Len(d) = Len(c) + 1 /\ Len(c) \in Nat /\ d[1] = v
      /\ \A i \in 1 .. Len(c) : d[i + 1] = c[i]
  BY Pushed
<1> HIDE DEF d
<1>2. ASSUME Sees(v, id, ts) PROVE Lookup(d, id, ts) = IF v.deleted THEN "none" ELSE v.by
  <2>1. 1 \in 1 .. Len(d) /\ \A j \in 1 .. 1 - 1 : ~Sees(d[j], id, ts)
    BY <1>1
  <2>2. QED
    BY <1>1, <1>2, <2>1, LookupIs
<1>3. ASSUME ~Sees(v, id, ts) PROVE Lookup(d, id, ts) = Lookup(c, id, ts)
  <2>1. CASE \A j \in 1 .. Len(c) : ~Sees(c[j], id, ts)
    <3>1. ASSUME NEW i \in 1 .. Len(d) PROVE ~Sees(d[i], id, ts)
      <4>1. CASE i = 1
        BY <1>1, <1>3, <4>1
      <4>2. CASE i # 1
        <5>1. i - 1 \in 1 .. Len(c) /\ (i - 1) + 1 = i
          BY <1>1, <4>2
        <5>2. d[i] = c[i - 1]
          BY <1>1, <5>1
        <5>3. QED
          BY <2>1, <5>1, <5>2
      <4>3. QED
        BY <4>1, <4>2
    <3>2. Lookup(c, id, ts) = "none"
      BY <2>1, LookupIs
    <3>3. Lookup(d, id, ts) = "none"
      BY <1>1, <3>1, LookupIs
    <3>4. QED
      BY <3>2, <3>3
  <2>2. CASE ~\A j \in 1 .. Len(c) : ~Sees(c[j], id, ts)
    <3>1. PICK i \in 1 .. Len(c) : Sees(c[i], id, ts) /\ \A j \in 1 .. i - 1 : ~Sees(c[j], id, ts)
      BY <2>2, LookupIs
    <3>2. i + 1 \in 1 .. Len(d) /\ d[i + 1] = c[i]
      BY <1>1
    <3>3. ASSUME NEW j \in 1 .. (i + 1) - 1 PROVE ~Sees(d[j], id, ts)
      <4>1. CASE j = 1
        BY <1>1, <1>3, <4>1
      <4>2. CASE j # 1
        <5>1. j - 1 \in 1 .. i - 1 /\ j - 1 \in 1 .. Len(c) /\ (j - 1) + 1 = j
          BY <1>1, <4>2
        <5>2. d[j] = c[j - 1]
          BY <1>1, <5>1
        <5>3. QED
          BY <3>1, <5>1, <5>2
      <4>3. QED
        BY <4>1, <4>2
    <3>4. Lookup(d, id, ts) = IF c[i].deleted THEN "none" ELSE c[i].by
      <4>1. PICK m \in 1 .. Len(d) : m = i + 1
        BY <3>2
      <4>2. d[m] = c[i] /\ Sees(d[m], id, ts) /\ \A j \in 1 .. m - 1 : ~Sees(d[j], id, ts)
        BY <3>1, <3>2, <3>3, <4>1
      <4>3. Lookup(d, id, ts) = IF d[m].deleted THEN "none" ELSE d[m].by
        BY <1>1, <4>2, LookupIs
      <4>4. QED
        BY <4>2, <4>3
    <3>5. Lookup(c, id, ts) = IF c[i].deleted THEN "none" ELSE c[i].by
      BY <3>1, LookupIs
    <3>6. QED
      BY <3>4, <3>5
  <2>3. QED
    BY <2>1, <2>2
<1>4. QED
  BY <1>2, <1>3 DEF d

\* Vacuum drops nothing a transaction that reads at globalTs would have read.
LEMMA LookupVacuumed ==
  ASSUME NEW c \in Seq(Version), globalTs \in Nat, NEW id
  PROVE  Lookup(Vacuumed(c), id, globalTs) = Lookup(c, id, globalTs)
<1> DEFINE d == Vacuumed(c)
<1>1. d \in Seq(Version) /\ Len(c) \in Nat
  BY VacuumFacts
<1>2. CASE d = c
  BY <1>2
<1>3. ASSUME NEW p \in 1 .. Len(c) - 1, c[p].ts # Unstamped, c[p].ts < globalTs,
             Len(d) = (IF c[p].deleted THEN p - 1 ELSE p), \A j \in 1 .. Len(d) : d[j] = c[j]
      PROVE  Lookup(d, id, globalTs) = Lookup(c, id, globalTs)
  <2> HIDE DEF d
  <2>1. p \in 1 .. Len(c) /\ Sees(c[p], id, globalTs)
    <3>1. p \in 1 .. Len(c)
      BY <1>1
    <3>2. c[p] \in Version
      BY <3>1
    <3>3. c[p].ts \in Int
      BY <3>2 DEF Version, Unstamped
    <3>4. QED
      BY <1>3, <3>1, <3>3 DEF Sees
  <2>2. PICK i \in 1 .. Len(c) : Sees(c[i], id, globalTs) /\ \A j \in 1 .. i - 1 : ~Sees(c[j], id, globalTs)
    BY <2>1, LookupIs
  <2>3. Lookup(c, id, globalTs) = IF c[i].deleted THEN "none" ELSE c[i].by
    BY <2>2, LookupIs
  <2>4. i <= p
    BY <1>1, <2>1, <2>2
  <2>5. CASE i <= Len(d)
    <3>1. i \in 1 .. Len(d) /\ \A j \in 1 .. i : d[j] = c[j]
      BY <1>1, <1>3, <2>5
    <3>2. d[i] = c[i] /\ \A j \in 1 .. i - 1 : d[j] = c[j]
      BY <1>1, <3>1
    <3>3. QED
      BY <1>1, <2>2, <2>3, <3>1, <3>2, LookupIs
  <2>6. CASE ~(i <= Len(d))
    <3>1. Len(d) = i - 1 /\ i = p /\ c[p].deleted
      BY <1>1, <1>3, <2>4, <2>6
    <3>2. \A j \in 1 .. Len(d) : ~Sees(d[j], id, globalTs)
      BY <1>3, <2>2, <3>1
    <3>3. Lookup(d, id, globalTs) = "none"
      <4>1. ~\E j \in 1 .. Len(d) : Sees(d[j], id, globalTs)
        BY <3>2
      <4>2. QED
        BY <1>1, <4>1, LookupIs
    <3>4. QED
      BY <2>3, <3>1, <3>3
  <2>7. QED
    BY <2>5, <2>6
<1>4. CASE d # c
  <2>1. PICK p \in 1 .. Len(c) - 1 :
          /\ c[p].ts # Unstamped /\ c[p].ts < globalTs
          /\ Len(d) = (IF c[p].deleted THEN p - 1 ELSE p)
          /\ \A j \in 1 .. (IF c[p].deleted THEN p - 1 ELSE p) : d[j] = c[j]
    BY <1>4, VacuumFacts
  <2>2. \A j \in 1 .. Len(d) : d[j] = c[j]
    BY <2>1
  <2> HIDE DEF d
  <2>3. QED
    BY <1>3, <2>1, <2>2 DEF d
<1>5. QED
  BY <1>2, <1>4

--------------------------------------------------------------------------------
(* Isolation. *)

\* All transactions of a process read at one timestamp and commit at the next,
\* each under an id of its own; those that have not begun wrote nothing.
Stamps ==
  /\ alive # {} => mode = "running"
  /\ \A t \in Txn \ alive : commitTs[t] = 0 /\ \A k \in Key : writeSet[t][k] = "none"
  /\ \A t \in alive : /\ state[t] # "unborn" /\ readTs[t] = globalTs
                      /\ txnId[t] < nextTxnId /\ commitTs[t] \in {0, globalTs + 1}
  /\ \A t, u \in alive : t # u => txnId[t] # txnId[u]

IsolationInv == Stamps /\ ReadYourWrites

\* A step is seen by no transaction at a key it does not write itself.
Unseen ==
  \A t \in alive \intersect alive', k \in Key :
    writeSet'[t][k] = writeSet[t][k] => Get(t, k)' = Get(t, k)

MvccInv == WalInv /\ TypeInv /\ IsolationInv

LEMMA GetIsLocal ==
  ASSUME NEW t \in Txn, NEW k \in Key, index'[k] = index[k], txnId'[t] = txnId[t], readTs'[t] = readTs[t]
  PROVE  Get(t, k)' = Get(t, k)
BY DEF Get

\* A step that leaves the transactions' ids, timestamps and reads alone.
LEMMA QuietKeeps ==
  ASSUME MvccInv, UNCHANGED <<mode, nextTxnId, globalTs, alive, txnId, readTs, writeSet>>,
         \A t \in alive : state'[t] # "unborn",
         \A t \in Txn : commitTs'[t] = commitTs[t] \/ (t \in alive /\ commitTs'[t] = globalTs + 1),
         \A t \in alive, k \in Key : Get(t, k)' = Get(t, k)
  PROVE  IsolationInv' /\ Unseen
<1>1. Stamps'
  <2>1. Stamps /\ alive \subseteq Txn
    BY DEF MvccInv, IsolationInv, TypeInv, TypeOK
  <2>2. \A t \in Txn \ alive' : commitTs'[t] = 0 /\ \A k \in Key : writeSet'[t][k] = "none"
    BY <2>1 DEF Stamps
  <2>3. \A t \in alive' : commitTs'[t] \in {0, globalTs' + 1}
    BY <2>1 DEF Stamps
  <2>4. QED
    BY <2>1, <2>2, <2>3 DEF Stamps
<1>2. ReadYourWrites'
  <2>1. ReadYourWrites
    BY DEF MvccInv, IsolationInv
  <2>2. ASSUME NEW t \in alive', NEW k \in Key, writeSet'[t][k] # "none"
        PROVE  Get(t, k)' = IF writeSet'[t][k] = "put" THEN t ELSE "none"
    BY <2>1, <2>2 DEF ReadYourWrites
  <2>3. QED
    BY <2>2 DEF ReadYourWrites
<1>3. Unseen
  BY DEF Unseen
<1>4. QED
  BY <1>1, <1>2, <1>3 DEF IsolationInv

LEMMA BeginIsolated == ASSUME MvccInv, NEW t \in Txn, Begin(t) PROVE IsolationInv' /\ Unseen
<1>1. Stamps /\ ReadYourWrites /\ TypeOK /\ alive \subseteq Txn
  BY DEF MvccInv, IsolationInv, TypeInv, TypeOK
<1>2. nextTxnId \in Nat /\ txnId \in [Txn -> Nat] /\ readTs \in [Txn -> Nat] /\ state \in [Txn -> TxnStates]
  BY <1>1 DEF TypeOK
<1>3. /\ t \notin alive /\ alive' = alive \union {t} /\ mode' = "running" /\ nextTxnId' = nextTxnId + 1
      /\ UNCHANGED <<globalTs, index, commitTs, writeSet>>
      /\ txnId' = [txnId EXCEPT ![t] = nextTxnId] /\ readTs' = [readTs EXCEPT ![t] = globalTs]
      /\ state' = [state EXCEPT ![t] = "starting"]
  BY <1>1 DEF Begin, Stamps
<1>4. /\ txnId'[t] = nextTxnId /\ readTs'[t] = globalTs /\ state'[t] = "starting"
      /\ \A u \in alive : u # t /\ txnId'[u] = txnId[u] /\ readTs'[u] = readTs[u] /\ state'[u] = state[u]
  BY <1>1, <1>2, <1>3
<1>5. Stamps'
  <2>1. /\ alive' # {} => mode' = "running"
        /\ \A u \in Txn \ alive' : commitTs'[u] = 0 /\ \A k \in Key : writeSet'[u][k] = "none"
    BY <1>1, <1>3 DEF Stamps
  <2>2. \A u \in alive' : u \in alive \/ u = t
    BY <1>3
  <2>3. /\ state'[t] # "unborn" /\ readTs'[t] = globalTs'
        /\ txnId'[t] < nextTxnId' /\ commitTs'[t] \in {0, globalTs' + 1}
    <3>1. commitTs[t] = 0
      BY <1>1, <1>3 DEF Stamps
    <3>2. QED
      BY <1>2, <1>3, <1>4, <3>1
  <2>4. \A u \in alive : /\ state'[u] # "unborn" /\ readTs'[u] = globalTs'
                         /\ txnId'[u] < nextTxnId' /\ commitTs'[u] \in {0, globalTs' + 1}
    <3>1. \A u \in alive : txnId[u] \in Nat
      BY <1>1, <1>2
    <3>2. QED
      BY <1>1, <1>2, <1>3, <1>4, <3>1 DEF Stamps
  <2>5. \A u \in alive : txnId'[u] # txnId'[t]
    <3>1. \A u \in alive : txnId[u] \in Nat /\ txnId[u] < nextTxnId
      BY <1>1, <1>2 DEF Stamps
    <3>2. QED
      BY <1>2, <1>4, <3>1
  <2>6. \A u, w \in alive : u # w => txnId'[u] # txnId'[w]
    BY <1>1, <1>4 DEF Stamps
  <2>7. \A u, w \in alive' : u # w => txnId'[u] # txnId'[w]
    BY <2>2, <2>5, <2>6
  <2>8. QED
    BY <2>1, <2>2, <2>3, <2>4, <2>7 DEF Stamps
<1>6. \A u \in alive, k \in Key : Get(u, k)' = Get(u, k)
  BY <1>1, <1>3, <1>4, GetIsLocal
<1>7. ReadYourWrites'
  <2>1. ASSUME NEW u \in alive', NEW k \in Key, writeSet'[u][k] # "none"
        PROVE  Get(u, k)' = IF writeSet'[u][k] = "put" THEN u ELSE "none"
    <3>1. writeSet[t][k] = "none"
      BY <1>1, <1>3 DEF Stamps
    <3>2. u \in alive
      BY <1>3, <2>1, <3>1
    <3>3. QED
      BY <1>1, <1>3, <1>6, <2>1, <3>2 DEF ReadYourWrites
  <2>2. QED
    BY <2>1 DEF ReadYourWrites
<1>8. Unseen
  <2>1. alive \intersect alive' = alive
    BY <1>3
  <2>2. QED
    BY <1>6, <2>1 DEF Unseen
<1>9. QED
  BY <1>5, <1>7, <1>8 DEF IsolationInv

\* No other transaction sees a write: neither its id, nor, at the timestamp
\* all of them read at, its commit timestamp.
LEMMA WriteIsolated ==
  ASSUME MvccInv, NEW t \in Txn, NEW k \in Key, NEW op \in {"put", "delete"}, Write(t, k, op)
  PROVE  IsolationInv' /\ Unseen
<1> DEFINE v == [ts |-> IF commitTs[t] # 0 THEN commitTs[t] ELSE Unstamped,
                 txn |-> txnId[t], deleted |-> op = "delete", by |-> t]
<1>1. Stamps /\ ReadYourWrites /\ TypeOK /\ alive \subseteq Txn /\ t \in alive
  BY DEF MvccInv, IsolationInv, TypeInv, TypeOK, Write
<1>2. /\ globalTs \in Nat /\ txnId \in [Txn -> Nat] /\ readTs \in [Txn -> Nat] /\ commitTs \in [Txn -> Nat]
      /\ writeSet \in [Txn -> [Key -> {"none", "put", "delete"}]] /\ index \in [Key -> Seq(Version)]
  BY <1>1 DEF TypeOK
<1>3. /\ UNCHANGED <<mode, nextTxnId, globalTs, alive, state, txnId, readTs, commitTs>>
      /\ index' = [index EXCEPT ![k] = <<v>> \o @] /\ writeSet' = [writeSet EXCEPT ![t][k] = op]
  BY DEF Write
<1>4. v \in Version
  BY <1>1, <1>2 DEF Version
<1>5. v.txn = txnId[t] /\ v.deleted = (op = "delete") /\ v.by = t /\ v.ts \in {Unstamped, globalTs + 1}
  BY <1>1 DEF Stamps
<1> HIDE DEF v
<1>6. /\ index'[k] = <<v>> \o index[k] /\ index[k] \in Seq(Version)
      /\ \A l \in Key : l # k => index'[l] = index[l]
  BY <1>2, <1>3
<1>7. \A u \in Txn, l \in Key : writeSet'[u][l] = IF u = t /\ l = k THEN op ELSE writeSet[u][l]
  BY <1>2, <1>3
<1>8. ASSUME NEW u \in alive, NEW l \in Key, ~(u = t /\ l = k) PROVE Get(u, l)' = Get(u, l)
  <2>1. CASE l # k
    BY <1>1, <1>3, <1>6, <2>1, GetIsLocal
  <2>2. CASE l = k
    <3>1. readTs[u] = globalTs /\ txnId[u] # txnId[t]
      BY <1>1, <1>8, <2>2 DEF Stamps
    <3>2. ~Sees(v, txnId[u], readTs[u])
      BY <1>2, <1>5, <3>1 DEF Sees, Unstamped
    <3>3. Lookup(<<v>> \o index[k], txnId[u], readTs[u]) = Lookup(index[k], txnId[u], readTs[u])
      BY <1>4, <1>6, <3>2, LookupPushed
    <3>4. QED
      BY <1>3, <1>6, <2>2, <3>3 DEF Get
  <2>3. QED
    BY <2>1, <2>2
<1>9. Get(t, k)' = IF op = "put" THEN t ELSE "none"
  <2>1. Sees(v, txnId[t], readTs[t])
    BY <1>5 DEF Sees
  <2>2. Lookup(<<v>> \o index[k], txnId[t], readTs[t]) = IF v.deleted THEN "none" ELSE v.by
    BY <1>4, <1>6, <2>1, LookupPushed
  <2>3. v.deleted <=> op = "delete"
    BY <1>5
  <2>4. QED
    BY <1>3, <1>5, <1>6, <2>2, <2>3 DEF Get
<1>10. Stamps'
  <2>1. \A u \in Txn \ alive, l \in Key : writeSet'[u][l] = "none"
    BY <1>1, <1>7 DEF Stamps
  <2>2. QED
    BY <1>1, <1>3, <2>1 DEF Stamps
<1>11. ReadYourWrites'
  <2>1. ASSUME NEW u \in alive', NEW l \in Key, writeSet'[u][l] # "none"
        PROVE  Get(u, l)' = IF writeSet'[u][l] = "put" THEN u ELSE "none"
    <3>1. CASE u = t /\ l = k
      BY <1>1, <1>7, <1>9, <3>1
    <3>2. CASE ~(u = t /\ l = k)
      <4>1. u \in alive /\ u \in Txn /\ writeSet'[u][l] = writeSet[u][l]
        BY <1>1, <1>3, <1>7, <3>2
      <4>2. Get(u, l)' = Get(u, l)
        BY <1>8, <3>2, <4>1
      <4>3. QED
        BY <1>1, <2>1, <4>1, <4>2 DEF ReadYourWrites
    <3>3. QED
      BY <3>1, <3>2
  <2>2. QED
    BY <2>1 DEF ReadYourWrites
<1>12. Unseen
  <2>1. ASSUME NEW u \in alive, NEW l \in Key, writeSet'[u][l] = writeSet[u][l]
        PROVE  Get(u, l)' = Get(u, l)
    <3>1. CASE u = t /\ l = k
      <4>1. writeSet[t][k] = op
        BY <1>1, <1>7, <2>1, <3>1
      <4>2. Get(t, k) = IF op = "put" THEN t ELSE "none"
        BY <1>1, <4>1 DEF ReadYourWrites
      <4>3. QED
        BY <1>9, <3>1, <4>2
    <3>2. QED
      BY <1>8, <3>1
  <2>2. QED
    BY <1>3, <2>1 DEF Unseen
<1>13. QED
  BY <1>10, <1>11, <1>12 DEF IsolationInv

\* All other steps of a transaction leave the index alone.
LEMMA StepIsolated == ASSUME MvccInv, NEW t \in Txn, Step(t) PROVE IsolationInv' /\ Unseen
<1>1. /\ Stamps /\ alive \subseteq Txn /\ state \in [Txn -> TxnStates] /\ commitTs \in [Txn -> Nat]
  BY DEF MvccInv, IsolationInv, TypeInv, TypeOK
<1>2. ASSUME UNCHANGED <<index, mode, nextTxnId, globalTs, alive, txnId, readTs, writeSet>>,
             \E s \in TxnStates \ {"unborn"} : state' = [state EXCEPT ![t] = s],
             commitTs' = commitTs \/ (t \in alive /\ commitTs' = [commitTs EXCEPT ![t] = readTs[t] + 1])
      PROVE  IsolationInv' /\ Unseen
  <2>1. \A u \in alive : state'[u] # "unborn"
    BY <1>1, <1>2 DEF Stamps
  <2>2. \A u \in Txn : commitTs'[u] = commitTs[u] \/ (u \in alive /\ commitTs'[u] = globalTs + 1)
    BY <1>1, <1>2 DEF Stamps
  <2>3. \A u \in alive, k \in Key : Get(u, k)' = Get(u, k)
    BY <1>1, <1>2, GetIsLocal
  <2>4. QED
    BY <1>2, <2>1, <2>2, <2>3, QuietKeeps
<1>3. CASE LogBegin(t)
  BY <1>2, <1>3 DEF LogBegin, engineVars, TxnStates
<1>4. CASE Commit(t)
  BY <1>2, <1>4 DEF Commit, engineVars, TxnStates
<1>5. CASE Abort(t)
  BY <1>2, <1>5 DEF Abort, engineVars, TxnStates
<1>6. CASE FlushEnd(t)
  <2>1. /\ UNCHANGED <<index, mode, nextTxnId, globalTs, alive, txnId, readTs, writeSet, commitTs>>
        /\ state' = [state EXCEPT ![t] = IF @ = "committing" THEN "committed" ELSE "aborted"]
    BY <1>6 DEF FlushEnd, engineVars
  <2>2. \E s \in TxnStates \ {"unborn"} : state' = [state EXCEPT ![t] = s]
    BY <1>1, <2>1 DEF TxnStates
  <2>3. QED
    BY <1>2, <2>1, <2>2
<1>7. QED
  BY <1>3, <1>4, <1>5, <1>6, BeginIsolated, WriteIsolated DEF Step, Put, Delete

\* While no transaction is there, nothing can be seen.
LEMMA NobodySees ==
  ASSUME alive' = {}, \A t \in Txn : commitTs'[t] = 0 /\ \A k \in Key : writeSet'[t][k] = "none"
  PROVE  IsolationInv' /\ Unseen
BY DEF IsolationInv, Stamps, ReadYourWrites, Unseen

LEMMA IsolationSteps == MvccInv /\ [Next]_vars => IsolationInv' /\ Unseen
<1> SUFFICES ASSUME MvccInv, [Next]_vars PROVE IsolationInv' /\ Unseen
  OBVIOUS
<1>1. Stamps /\ TypeOK /\ alive \subseteq Txn
  BY DEF MvccInv, IsolationInv, TypeInv, TypeOK
<1>2. ASSUME UNCHANGED <<index, mode, nextTxnId, globalTs, txnVars>> PROVE IsolationInv' /\ Unseen
  <2>1. UNCHANGED <<alive, state, txnId, readTs, commitTs, writeSet>>
    BY <1>2 DEF txnVars
  <2>2. \A t \in alive : state'[t] # "unborn"
    BY <1>1, <2>1 DEF Stamps
  <2>3. \A t \in alive, k \in Key : Get(t, k)' = Get(t, k)
    BY <1>1, <1>2, <2>1, GetIsLocal
  <2>4. QED
    BY <1>2, <2>1, <2>2, <2>3, QuietKeeps
<1>3. ASSUME Vacuum PROVE IsolationInv' /\ Unseen
  <2>1. UNCHANGED <<mode, nextTxnId, globalTs, alive, state, txnId, readTs, commitTs, writeSet>>
    BY <1>3 DEF Vacuum, txnVars
  <2>2. index \in [Key -> Seq(Version)] /\ globalTs \in Nat
    BY <1>1 DEF TypeOK
  <2>3. ASSUME NEW t \in alive, NEW k \in Key PROVE Get(t, k)' = Get(t, k)
    <3>1. readTs[t] = globalTs
      BY <1>1 DEF Stamps
    <3>2. index'[k] = Vacuumed(index[k])
      BY <1>3 DEF Vacuum
    <3>3. Lookup(Vacuumed(index[k]), txnId[t], globalTs) = Lookup(index[k], txnId[t], globalTs)
      BY <2>2, LookupVacuumed
    <3>4. QED
      BY <2>1, <3>1, <3>2, <3>3 DEF Get
  <2>4. \A t \in alive : state'[t] # "unborn"
    BY <1>1, <2>1 DEF Stamps
  <2>5. QED
    BY <2>1, <2>3, <2>4, QuietKeeps
<1>4. CASE Checkpoint
  BY <1>2, <1>4 DEF Checkpoint
<1>5. CASE FlushCheckpoint
  BY <1>2, <1>5 DEF FlushCheckpoint
<1>6. CASE Recover
  <2>1. alive = {} /\ UNCHANGED <<alive, commitTs, writeSet>>
    BY <1>1, <1>6 DEF Recover, Stamps, txnVars
  <2>2. QED
    BY <1>1, <2>1, NobodySees DEF Stamps
<1>7. CASE Crash
  BY <1>7, NobodySees DEF Crash, FreshProcess
<1>8. CASE UNCHANGED vars
  BY <1>2, <1>8 DEF vars, engineVars
<1>9. QED
  BY <1>3, <1>4, <1>6, <1>7, <1>8, <1>5, StepIsolated DEF Next

LEMMA MvccInitial == Init => MvccInv
<1> SUFFICES ASSUME Init PROVE Stamps /\ ReadYourWrites
  BY TypeInitial DEF MvccInv, IsolationInv
<1>1. alive = {} /\ \A t \in Txn : commitTs[t] = 0 /\ \A k \in Key : writeSet[t][k] = "none"
  BY DEF Init
<1>2. QED
  BY <1>1 DEF Stamps, ReadYourWrites

LEMMA MvccSteps == MvccInv /\ [Next]_vars => MvccInv'
BY WalSteps, TypeSteps, IsolationSteps DEF MvccInv

LEMMA MvccInvariant == Spec => []MvccInv
BY MvccInitial, MvccSteps, PTL DEF Spec

--------------------------------------------------------------------------------
\* Whatever the log and the index hold after crashes and recoveries, every
\* variable keeps its type (StorageEngine, WALManager, Transaction).
THEOREM TypeCorrect == Spec => []TypeOK
<1>1. MvccInv => TypeOK
  BY DEF MvccInv, TypeInv
<1>2. QED
  BY <1>1, MvccInvariant, PTL

\* A transaction reads back its own last write, whatever others write, commit,
\* abort, vacuum or recover meanwhile (Get, Put, Delete, Vacuum).
THEOREM OwnWritesAreRead == Spec => []ReadYourWrites
<1>1. MvccInv => ReadYourWrites
  BY DEF MvccInv, IsolationInv
<1>2. QED
  BY <1>1, MvccInvariant, PTL

\* No step of another transaction, no checkpoint, vacuum or commit of its own
\* changes what a transaction reads (Get, Scan).
THEOREM SnapshotsAreStable == Spec => SnapshotStable
<1>1. MvccInv /\ [Next]_vars =>
        [\A t \in alive \intersect alive', k \in Key :
           writeSet'[t][k] = writeSet[t][k] => Get(t, k)' = Get(t, k)]_vars
  BY IsolationSteps DEF Unseen
<1>2. QED
  BY <1>1, MvccInvariant, PTL DEF Spec, SnapshotStable

--------------------------------------------------------------------------------
(* What recovery brings back. *)

LEMMA MaxIs ==
  ASSUME NEW S, S \subseteq Nat, NEW m \in S, \A i \in S : i <= m
  PROVE  Max(S) = m
<1>1. m \in S /\ \A y \in S : m >= y
  OBVIOUS
<1>2. \A x \in S : (\A y \in S : x >= y) => x = m
  OBVIOUS
<1>3. QED
  BY <1>1, <1>2 DEF Max

\* p takes each version of a chain to its write in the log: all writes to the
\* key among the first n records, the newest first.
Mirrors(s, n, k, p) ==
  /\ s \in Seq(Version) /\ p \in [1 .. Len(s) -> WritesTo(k)]
  /\ \A j \in 1 .. Len(s) : p[j] <= n /\ s[j] = VersionOf(log[p[j]])
  /\ \A i, j \in 1 .. Len(s) : i < j => p[j] < p[i]
  /\ \A w \in WritesTo(k) : w <= n => \E j \in 1 .. Len(s) : p[j] = w

LEMMA MirrorsMore ==
  ASSUME TypeInv, NEW k \in Key, NEW n \in 1 .. Len(log), NEW s, NEW p, Mirrors(s, n - 1, k, p),
         NEW d, d = IF IsWrite(log[n]) /\ log[n].key = k THEN <<VersionOf(log[n])>> \o s ELSE s
  PROVE  \E q : Mirrors(d, n, k, q)
<1>1. Len(log) \in Nat /\ DOMAIN log = 1 .. Len(log)
  BY RecordFacts
<1>2. /\ s \in Seq(Version) /\ Len(s) \in Nat /\ p \in [1 .. Len(s) -> WritesTo(k)]
      /\ \A w \in WritesTo(k) : w \in 1 .. Len(log)
  BY <1>1 DEF Mirrors, WritesTo
<1>3. CASE ~(IsWrite(log[n]) /\ log[n].key = k)
  <2>1. \A w \in WritesTo(k) : w <= n => w <= n - 1
    BY <1>1, <1>2, <1>3 DEF WritesTo
  <2>2. \A j \in 1 .. Len(s) : p[j] \in Nat /\ (p[j] <= n - 1 => p[j] <= n)
    BY <1>2
  <2>3. Mirrors(d, n, k, p)
    BY <1>3, <2>1, <2>2 DEF Mirrors
  <2>4. QED
    BY <2>3
<1>4. CASE IsWrite(log[n]) /\ log[n].key = k
  <2> DEFINE v == VersionOf(log[n])
             q == [j \in 1 .. Len(s) + 1 |-> IF j = 1 THEN n ELSE p[j - 1]]
  <2>1. v \in Version /\ n \in WritesTo(k)
    BY <1>1, <1>4, RecordFacts DEF WritesTo
  <2>2. /\ d \in Seq(Version) /\ Len(d) = Len(s) + 1 /\ d[1] = v
        /\ \A i \in 1 .. Len(s) : d[i + 1] = s[i]
    BY <1>2, <1>4, <2>1, Pushed
  <2> HIDE DEF v
  <2>3. \A j \in 1 .. Len(d) : j = 1 \/ (j # 1 /\ j - 1 \in 1 .. Len(s) /\ d[j] = s[j - 1])
    <3>1. \A j \in 1 .. Len(d) : j # 1 => j - 1 \in 1 .. Len(s) /\ (j - 1) + 1 = j
      BY <1>2, <2>2
    <3>2. QED
      BY <2>2, <3>1
  <2>4. \A j \in 1 .. Len(d) : q[j] = IF j = 1 THEN n ELSE p[j - 1]
    BY <2>2
  <2>5. q \in [1 .. Len(d) -> WritesTo(k)]
    BY <1>2, <2>1, <2>2, <2>3
  <2> HIDE DEF q
  <2>6. 1 \in 1 .. Len(d) /\ q[1] = n /\ \A j \in 1 .. Len(s) : j + 1 \in 1 .. Len(d) /\ q[j + 1] = p[j]
    <3>1. 1 \in 1 .. Len(d) /\ \A j \in 1 .. Len(s) : j + 1 \in 1 .. Len(d) /\ j + 1 # 1 /\ (j + 1) - 1 = j
      BY <1>2, <2>2
    <3>2. QED
      BY <2>4, <3>1
  <2>7. \A j \in 1 .. Len(s) : p[j] \in Nat /\ p[j] <= n - 1 /\ s[j] = VersionOf(log[p[j]])
    BY <1>2 DEF Mirrors
  <2>8. \A j \in 1 .. Len(d) : q[j] <= n /\ d[j] = VersionOf(log[q[j]])
    <3>1. \A j \in 1 .. Len(s) : p[j] <= n
      BY <2>7
    <3>2. ASSUME NEW j \in 1 .. Len(d), j # 1 PROVE q[j] <= n /\ d[j] = VersionOf(log[q[j]])
      <4>1. j - 1 \in 1 .. Len(s) /\ d[j] = s[j - 1] /\ q[j] = p[j - 1]
        BY <2>3, <2>4, <3>2
      <4>2. QED
        BY <2>7, <3>1, <4>1
    <3>3. q[1] <= n /\ d[1] = VersionOf(log[q[1]])
      BY <2>2, <2>6 DEF v
    <3>4. QED
      BY <3>2, <3>3
  <2>9. ASSUME NEW i \in 1 .. Len(d), NEW j \in 1 .. Len(d), i < j PROVE q[j] < q[i]
    <3>1. j # 1 /\ j - 1 \in 1 .. Len(s) /\ q[j] = p[j - 1] /\ p[j - 1] <= n - 1 /\ p[j - 1] \in Nat
      <4>1. j # 1
        BY <1>2, <2>2, <2>9
      <4>2. QED
        BY <2>3, <2>4, <2>7, <4>1
    <3>2. CASE i = 1
      BY <2>6, <3>1, <3>2
    <3>3. CASE i # 1
      <4>1. i - 1 \in 1 .. Len(s) /\ q[i] = p[i - 1]
        BY <2>3, <2>4, <3>3
      <4>2. i - 1 < j - 1
        BY <1>2, <2>2, <2>9
      <4>3. p[j - 1] < p[i - 1]
        BY <3>1, <4>1, <4>2 DEF Mirrors
      <4>4. QED
        BY <3>1, <4>1, <4>3
    <3>4. QED
      BY <3>2, <3>3
  <2>10. ASSUME NEW w \in WritesTo(k), w <= n PROVE \E j \in 1 .. Len(d) : q[j] = w
    <3>1. CASE w = n
      BY <2>6, <3>1
    <3>2. CASE w # n
      <4>1. w <= n - 1
        BY <1>1, <1>2, <2>10, <3>2
      <4>2. PICK j \in 1 .. Len(s) : p[j] = w
        BY <4>1 DEF Mirrors
      <4>3. QED
        BY <2>6, <4>2
    <3>3. QED
      BY <3>1, <3>2
  <2>11. Mirrors(d, n, k, q)
    BY <2>2, <2>5, <2>8, <2>9, <2>10 DEF Mirrors
  <2>12. QED
    BY <2>11
<1>5. QED
  BY <1>3, <1>4

\* Redo makes a version of every write in the log.
LEMMA RedoneMirrors ==
  ASSUME TypeInv, NEW k \in Key
  PROVE  \E p : Mirrors(Redone(k), Len(log), k, p)
<1> DEFINE N == Len(log)
<1>1. N \in Nat /\ DOMAIN log = 1 .. N
  BY RecordFacts
<1>2. PICK c \in [0 .. N -> Seq(Version)] :
        /\ c[0] = <<>> /\ Redone(k) = c[N]
        /\ \A n \in 1 .. N :
             c[n] = IF IsWrite(log[n]) /\ log[n].key = k THEN <<VersionOf(log[n])>> \o c[n - 1] ELSE c[n - 1]
  BY RedoneIs
<1> HIDE DEF N
<1> DEFINE P == {n \in 0 .. N : \E p : Mirrors(c[n], n, k, p)}
<1>3. 0 \in P
  <2>1. <<>> \in Seq(Version) /\ Len(<<>>) = 0 /\ \A w \in WritesTo(k) : ~(w <= 0)
    BY <1>1 DEF WritesTo
  <2>2. Mirrors(<<>>, 0, k, <<>>)
    BY <2>1 DEF Mirrors
  <2>3. QED
    BY <1>1, <1>2, <2>2
<1>4. ASSUME NEW n \in 1 .. N, n - 1 \in P PROVE n \in P
  <2>1. PICK p : Mirrors(c[n - 1], n - 1, k, p)
    BY <1>4
  <2>2. c[n] = IF IsWrite(log[n]) /\ log[n].key = k THEN <<VersionOf(log[n])>> \o c[n - 1] ELSE c[n - 1]
    BY <1>2
  <2>3. \E q : Mirrors(c[n], n, k, q)
    BY <2>1, <2>2, MirrorsMore DEF N
  <2>4. QED
    BY <1>1, <2>3
<1> HIDE DEF P
<1>5. \A n \in 0 .. N : n \in P
  BY <1>1, <1>3, <1>4, UpTo
<1>6. N \in P
  BY <1>1, <1>5
<1>7. QED
  BY <1>2, <1>6 DEF P, N

\* s is R without its first m versions.
Dropped(s, R, m) ==
  s \in Seq(Version) /\ Len(s) = Len(R) - m /\ \A j \in 1 .. Len(R) - m : s[j] = R[j + m]

Strips(s, R, m, id, e) ==
  /\ e \in m .. Len(R) /\ Dropped(Stripped(s, id), R, e)
  /\ \A j \in m + 1 .. e : R[j].txn = id
  /\ e < Len(R) => R[e + 1].txn # id

\* Undo of one transaction drops just the versions that come first and are its own.
LEMMA StripDrops ==
  ASSUME NEW R \in Seq(Version), NEW m \in 0 .. Len(R), NEW s, Dropped(s, R, m), NEW id
  PROVE  \E e : Strips(s, R, m, id, e)
<1>1. /\ s \in Seq(Version) /\ Len(R) \in Nat /\ Len(s) = Len(R) - m
      /\ \A j \in 1 .. Len(s) : s[j] = R[j + m]
  BY DEF Dropped
<1>2. \A j \in m + 1 .. Len(R) : j - m \in 1 .. Len(s) /\ s[j - m] = R[j]
  <2>1. \A j \in m + 1 .. Len(R) : j - m \in 1 .. Len(s) /\ (j - m) + m = j
    BY <1>1
  <2>2. QED
    BY <1>1, <2>1
<1>3. Stripped(s, id) \in Seq(Version)
  BY <1>1, StripFacts
<1>4. CASE Stripped(s, id) = <<>> /\ \A j \in 1 .. Len(s) : s[j].txn = id
  <2>1. Dropped(Stripped(s, id), R, Len(R))
    BY <1>1, <1>3, <1>4 DEF Dropped
  <2>2. Len(R) \in m .. Len(R) /\ ~(Len(R) < Len(R))
    BY <1>1
  <2>3. \A j \in m + 1 .. Len(R) : R[j].txn = id
    BY <1>2, <1>4
  <2>4. QED
    BY <2>1, <2>2, <2>3 DEF Strips
<1>5. ASSUME NEW i \in 1 .. Len(s), s[i].txn # id, \A j \in 1 .. i - 1 : s[j].txn = id,
             Len(Stripped(s, id)) = Len(s) - i + 1,
             \A j \in 1 .. Len(s) - i + 1 : Stripped(s, id)[j] = s[j + i - 1]
      PROVE  \E e : Strips(s, R, m, id, e)
  <2>1. PICK e \in m .. Len(R) : e = i + m - 1
    BY <1>1
  <2>2. Len(R) - e = Len(s) - i + 1
    BY <1>1, <2>1
  <2>3. ASSUME NEW j \in 1 .. Len(R) - e PROVE Stripped(s, id)[j] = R[j + e]
    <3>1. Stripped(s, id)[j] = s[j + i - 1] /\ j + i - 1 \in 1 .. Len(s)
      BY <1>1, <1>5, <2>1, <2>2
    <3>2. PICK x \in 1 .. Len(s) : x = j + i - 1
      BY <3>1
    <3>3. s[x] = R[x + m] /\ x + m = j + e
      BY <1>1, <2>1, <3>2
    <3>4. QED
      BY <3>1, <3>2, <3>3
  <2>4. Dropped(Stripped(s, id), R, e)
    BY <1>3, <1>5, <2>2, <2>3 DEF Dropped
  <2>5. ASSUME NEW j \in m + 1 .. e PROVE R[j].txn = id
    <3>1. j - m \in 1 .. i - 1 /\ j \in m + 1 .. Len(R)
      BY <1>1, <2>1
    <3>2. QED
      BY <1>2, <1>5, <3>1
  <2>6. R[e + 1].txn # id
    <3>1. e + 1 = i + m
      BY <1>1, <2>1
    <3>2. QED
      BY <1>1, <1>5, <3>1
  <2>7. QED
    BY <2>4, <2>5, <2>6 DEF Strips
<1>6. CASE ~(Stripped(s, id) = <<>> /\ \A j \in 1 .. Len(s) : s[j].txn = id)
  <2>1. PICK i \in 1 .. Len(s) :
          /\ s[i].txn # id /\ \A j \in 1 .. i - 1 : s[j].txn = id
          /\ Len(Stripped(s, id)) = Len(s) - i + 1
          /\ \A j \in 1 .. Len(s) - i + 1 : Stripped(s, id)[j] = s[j + i - 1]
    <3>1. s \in Seq(Version)
      BY <1>1
    <3>2. \/ Stripped(s, id) = <<>> /\ \A j \in 1 .. Len(s) : s[j].txn = id
          \/ \E i \in 1 .. Len(s) :
               /\ s[i].txn # id /\ \A j \in 1 .. i - 1 : s[j].txn = id
               /\ Len(Stripped(s, id)) = Len(s) - i + 1
               /\ \A j \in 1 .. Len(s) - i + 1 : Stripped(s, id)[j] = s[j + i - 1]
      BY ONLY <3>1, StripFacts
    <3>3. QED
      BY <1>6, <3>2
  <2>2. QED
    BY <1>5, <2>1
<1>7. QED
  BY <1>4, <1>6

\* The versions before position h are those of x, an unfinished transaction,
\* and that at h is of a finished one, if there is one.
Ahead(R, h, x) ==
  /\ R \in Seq(Version) /\ h \in 1 .. Len(R) + 1
  /\ \A j \in 1 .. h - 1 : R[j].txn = x
  /\ h <= Len(R) => R[h].txn \notin ActiveTxns

\* Undo then drops nothing from position h on, and all before it if it takes x.
LEMMA UndoneDrops ==
  ASSUME TypeInv, NEW k \in Key, NEW losers \in SetToSeqs(ActiveTxns), NEW h, NEW x,
         Ahead(Redone(k), h, x), h # 1 => x \in ActiveTxns
  PROVE  Dropped(Undone(k, losers), Redone(k), h - 1)
<1> DEFINE R == Redone(k)
           N == Len(losers)
           Upto(n, m) == h # 1 /\ (\E i \in 1 .. n : losers[i] = x) => m = h - 1
<1>1. /\ N \in Nat /\ \A n \in 1 .. N : losers[n] \in ActiveTxns
      /\ \A id \in ActiveTxns : \E n \in 1 .. N : losers[n] = id
  BY LosersAre
<1>2. PICK c \in [0 .. N -> Seq(Version)] :
        c[0] = R /\ Undone(k, losers) = c[N] /\ \A n \in 1 .. N : c[n] = Stripped(c[n - 1], losers[n])
  BY <1>1, UndoneIs
<1>3. /\ R \in Seq(Version) /\ Len(R) \in Nat /\ h \in 1 .. Len(R) + 1
      /\ \A j \in 1 .. h - 1 : R[j].txn = x
      /\ h <= Len(R) => R[h].txn \notin ActiveTxns
  BY DEF Ahead
<1> HIDE DEF R, N
<1> DEFINE P == {n \in 0 .. N : \E m \in 0 .. h - 1 : Dropped(c[n], R, m) /\ Upto(n, m)}
<1>4. 0 \in P
  <2>1. Dropped(R, R, 0)
    BY <1>3 DEF Dropped
  <2>2. Upto(0, 0) /\ 0 \in 0 .. h - 1
    BY <1>3
  <2> HIDE DEF Upto
  <2>3. QED
    BY <1>1, <1>2, <2>1, <2>2
<1>5. ASSUME NEW n \in 1 .. N, n - 1 \in P PROVE n \in P
  <2>1. PICK m \in 0 .. h - 1 : Dropped(c[n - 1], R, m) /\ Upto(n - 1, m)
    BY <1>5
  <2>2. m \in 0 .. Len(R)
    BY <1>3
  <2>3. PICK e \in m .. Len(R) :
          /\ Dropped(Stripped(c[n - 1], losers[n]), R, e)
          /\ \A j \in m + 1 .. e : R[j].txn = losers[n]
          /\ e < Len(R) => R[e + 1].txn # losers[n]
    <3>1. \E e : Strips(c[n - 1], R, m, losers[n], e)
      BY <1>3, <2>1, <2>2, StripDrops
    <3>2. QED
      BY <3>1 DEF Strips
  <2>4. Dropped(c[n], R, e)
    BY <1>2, <2>3
  <2>5. e \in 0 .. h - 1
    <3>1. SUFFICES ASSUME ~(e <= h - 1) PROVE FALSE
      BY <1>3, <2>1, <2>3
    <3>2. h \in m + 1 .. e /\ h <= Len(R)
      BY <1>3, <2>1, <2>3, <3>1
    <3>3. QED
      BY <1>1, <1>3, <2>3, <3>2
  <2>6. Upto(n, e)
    <3>1. SUFFICES ASSUME h # 1, NEW i \in 1 .. n, losers[i] = x PROVE e = h - 1
      OBVIOUS
    <3>2. CASE i = n
      <4>1. SUFFICES ASSUME e < h - 1 PROVE FALSE
        BY <1>3, <2>3, <2>5
      <4>2. e + 1 \in 1 .. h - 1 /\ e < Len(R)
        BY <1>3, <2>3, <2>5, <4>1
      <4>3. QED
        BY <1>3, <2>3, <3>1, <3>2, <4>2
    <3>3. CASE i # n
      <4>1. i \in 1 .. n - 1
        BY <1>1, <3>3
      <4>2. m = h - 1
        BY <2>1, <3>1, <4>1
      <4>3. QED
        BY <1>3, <2>3, <2>5, <4>2
    <3>4. QED
      BY <3>2, <3>3
  <2> HIDE DEF Upto
  <2>7. n \in 0 .. N
    BY <1>1
  <2>8. QED
    BY <2>4, <2>5, <2>6, <2>7
<1> HIDE DEF P
<1>6. N \in P
  <2>1. \A n \in 0 .. N : n \in P
    BY <1>1, <1>4, <1>5, UpTo
  <2>2. QED
    BY <1>1, <2>1
<1>7. PICK m \in 0 .. h - 1 : Dropped(c[N], R, m) /\ Upto(N, m)
  BY <1>6 DEF P
<1>8. m = h - 1
  <2>1. CASE h = 1
    BY <1>7, <2>1
  <2>2. CASE h # 1
    BY <1>1, <1>7, <2>2
  <2>3. QED
    BY <2>1, <2>2
<1>9. QED
  BY <1>2, <1>7, <1>8 DEF R

LEMMA UnfinishedIsActive ==
  ASSUME TypeInv, NEW i \in 1 .. Len(log), IsWrite(log[i])
  PROVE  Unfinished(log[i].txn) <=> log[i].txn \in ActiveTxns
BY DEF Unfinished, ActiveTxns, IsWrite

\* Two elements are one too many.
LEMMA AtMostOne ==
  ASSUME NEW S, IsFiniteSet(S), Cardinality(S) <= 1, NEW x \in S, NEW y \in S
  PROVE  x = y
<1> SUFFICES ASSUME x # y PROVE FALSE
  OBVIOUS
<1>1. IsFiniteSet({x}) /\ Cardinality({x}) = 1
  BY FS_Singleton
<1>2. IsFiniteSet({x} \union {y}) /\ Cardinality({x} \union {y}) = 2
  <2>1. y \notin {x}
    OBVIOUS
  <2>2. IsFiniteSet({x} \union {y}) /\ Cardinality({x} \union {y}) = Cardinality({x}) + 1
    BY <1>1, <2>1, FS_AddElement
  <2>3. QED
    BY <1>1, <2>2
<1>3. {x} \union {y} \subseteq S
  OBVIOUS
<1>4. Cardinality({x} \union {y}) <= Cardinality(S) /\ Cardinality(S) \in Nat
  BY <1>3, FS_Subset, FS_CardinalityType
<1>5. QED
  BY <1>2, <1>4

LEMMA LosersFinite == ASSUME TypeInv, NEW k \in Key PROVE IsFiniteSet(Losers(k))
<1> DEFINE W == {j \in WritesTo(k) : Unfinished(log[j].txn)}
<1>1. IsFiniteSet(1 .. Len(log)) /\ DOMAIN log = 1 .. Len(log)
  BY RecordFacts, FS_Interval
<1>2. IsFiniteSet(W)
  BY <1>1, FS_Subset DEF WritesTo
<1> DEFINE f == [i \in W |-> log[i].txn]
<1>3. f \in Surjection(W, Losers(k))
  BY DEF Surjection, Losers
<1>4. QED
  BY <1>2, <1>3, FS_Surjection

\* The set of finished writes has a greatest one.
LEMMA GreatestFinished ==
  ASSUME TypeInv, NEW k \in Key, Finished(k) # {}
  PROVE  /\ Max(Finished(k)) \in Finished(k) /\ Finished(k) \subseteq Nat
         /\ \A w \in Finished(k) : w <= Max(Finished(k))
<1> DEFINE F == Finished(k)
<1>1. Len(log) \in Nat /\ F \subseteq 1 .. Len(log)
  BY RecordFacts DEF Finished, WritesTo
<1> HIDE DEF F
<1> DEFINE back == {Len(log) - w : w \in F}
           b == Min(back)
<1>2. back \in SUBSET Nat /\ back # {}
  BY <1>1 DEF F
<1> HIDE DEF back
<1>3. b \in back /\ \A x \in back : b <= x
  BY <1>2, LeastIs
<1> HIDE DEF b
<1>4. PICK m \in F : b = Len(log) - m
  BY <1>3 DEF back
<1>5. ASSUME NEW w \in F PROVE w <= m
  <2>1. Len(log) - w \in back
    BY DEF back
  <2>2. Len(log) - m <= Len(log) - w
    BY <1>3, <1>4, <2>1
  <2>3. w \in Nat /\ m \in Nat
    BY <1>1, <1>4
  <2>4. QED
    BY <1>1, <2>2, <2>3
<1>6. F \subseteq Nat /\ \A w \in F : w <= m
  BY <1>1, <1>5
<1>7. Max(F) = m
  BY <1>4, <1>6, MaxIs
<1>8. QED
  BY <1>4, <1>6, <1>7 DEF F

Restored(k) ==
  LET last == IF Finished(k) = {} THEN "none" ELSE Written(log[Max(Finished(k))])
  IN  (\/ Cardinality(Losers(k)) <= 1
       \/ Finished(k) # {} /\ Max(Finished(k)) = Max(WritesTo(k)))
      => Lookup(index'[k], 0, globalTs') = last

LEMMA RecoverRestores == ASSUME TypeInv, Recover, NEW k \in Key PROVE Restored(k)
<1> DEFINE R == Redone(k)
           U == index'[k]
           A == ActiveTxns
<1>1. PICK losers \in SetToSeqs(A) : index' = [l \in Key |-> Undone(l, losers)]
  BY DEF Recover
<1>2. PICK p : Mirrors(R, Len(log), k, p)
  BY RedoneMirrors
<1>3. /\ R \in Seq(Version) /\ Len(R) \in Nat /\ p \in [1 .. Len(R) -> WritesTo(k)]
      /\ \A j \in 1 .. Len(R) : R[j] = VersionOf(log[p[j]])
      /\ \A i, j \in 1 .. Len(R) : i < j => p[j] < p[i]
      /\ \A w \in WritesTo(k) : w <= Len(log) => \E j \in 1 .. Len(R) : p[j] = w
  BY <1>2 DEF Mirrors
<1>8. U = Undone(k, losers)
  BY <1>1
<1> HIDE DEF R, U, A
<1>4. /\ Len(log) \in Nat /\ \A w \in WritesTo(k) : w \in 1 .. Len(log) /\ IsWrite(log[w])
  BY RecordFacts DEF WritesTo
<1>5. \A w \in WritesTo(k) : Unfinished(log[w].txn) <=> log[w].txn \in A
  BY <1>4, UnfinishedIsActive DEF A
<1>6. \A j \in 1 .. Len(R) : /\ p[j] \in WritesTo(k) /\ R[j].txn = log[p[j]].txn
                             /\ p[j] \in Finished(k) <=> R[j].txn \notin A
  <2>1. \A j \in 1 .. Len(R) : p[j] \in WritesTo(k) /\ R[j].txn = log[p[j]].txn
    <3>1. \A j \in 1 .. Len(R) : p[j] \in WritesTo(k)
      BY <1>3
    <3>2. \A w : VersionOf(log[w]).txn = log[w].txn
      BY DEF VersionOf
    <3>3. QED
      BY <1>3, <3>1, <3>2
  <2>2. QED
    BY <1>5, <2>1 DEF Finished
<1>7. \A w \in WritesTo(k) : \E j \in 1 .. Len(R) : p[j] = w
  BY <1>3, <1>4
<1> DEFINE done == {j \in 1 .. Len(R) : R[j].txn \notin A}
<1>9. \E h \in 1 .. Len(R) + 1 : /\ \A j \in 1 .. h - 1 : R[j].txn \in A
                                 /\ h <= Len(R) => R[h].txn \notin A
  <2>1. CASE done = {}
    <3>1. Len(R) + 1 \in 1 .. Len(R) + 1 /\ (Len(R) + 1) - 1 = Len(R) /\ ~(Len(R) + 1 <= Len(R))
      BY <1>3
    <3>2. \A j \in 1 .. Len(R) : R[j].txn \in A
      BY <2>1
    <3>3. QED
      BY <3>1, <3>2
  <2>2. CASE done # {}
    <3>1. done \in SUBSET Nat
      BY <1>3
    <3> HIDE DEF done
    <3>2. PICK h : h = Min(done)
      OBVIOUS
    <3>3. h \in done /\ \A j \in done : h <= j
      BY <2>2, <3>1, <3>2, LeastIs
    <3>4. h \in 1 .. Len(R) /\ R[h].txn \notin A
      BY <3>3 DEF done
    <3>5. \A j \in 1 .. h - 1 : j \in 1 .. Len(R) /\ ~(h <= j)
      BY <1>3, <3>4
    <3>6. \A j \in 1 .. h - 1 : R[j].txn \in A
      BY <3>3, <3>5 DEF done
    <3>7. h \in 1 .. Len(R) + 1
      BY <1>3, <3>4
    <3>8. QED
      BY <3>4, <3>6, <3>7
  <2>3. QED
    BY <2>1, <2>2
<1> HIDE DEF done
<1>10. PICK h \in 1 .. Len(R) + 1 : /\ \A j \in 1 .. h - 1 : R[j].txn \in A
                                    /\ h <= Len(R) => R[h].txn \notin A
  BY <1>9
<1>11. /\ h <= Len(R) => Finished(k) # {} /\ Max(Finished(k)) = p[h]
       /\ h = Len(R) + 1 => Finished(k) = {}
  <2>1. Finished(k) \subseteq Nat /\ Finished(k) \subseteq WritesTo(k)
    BY <1>4 DEF Finished
  <2>2. \A w \in Finished(k) : \E j \in 1 .. Len(R) : p[j] = w /\ ~(j \in 1 .. h - 1)
    BY <1>6, <1>7, <1>10, <2>1
  <2>3. ASSUME h <= Len(R) PROVE Finished(k) # {} /\ Max(Finished(k)) = p[h]
    <3>1. h \in 1 .. Len(R) /\ p[h] \in Finished(k)
      BY <1>3, <1>6, <1>10, <2>3
    <3>2. ASSUME NEW w \in Finished(k) PROVE w <= p[h]
      <4>1. PICK j \in 1 .. Len(R) : p[j] = w /\ ~(j \in 1 .. h - 1)
        BY <2>2
      <4>2. j = h \/ h < j
        BY <1>3, <3>1, <4>1
      <4>3. j = h \/ p[j] < p[h]
        BY <1>3, <3>1, <4>2
      <4>4. w \in Nat /\ p[h] \in Nat
        BY <2>1, <3>1
      <4>5. QED
        BY <4>1, <4>3, <4>4
    <3>3. QED
      BY <2>1, <3>1, <3>2, MaxIs
  <2>4. ASSUME h = Len(R) + 1 PROVE Finished(k) = {}
    <3>1. \A j \in 1 .. Len(R) : j \in 1 .. h - 1
      BY <1>3, <2>4
    <3>2. QED
      BY <2>2, <3>1
  <2>5. QED
    BY <2>3, <2>4
<1>12. SUFFICES ASSUME \/ Cardinality(Losers(k)) <= 1
                       \/ Finished(k) # {} /\ Max(Finished(k)) = Max(WritesTo(k))
                PROVE  Lookup(U, 0, globalTs') = IF h <= Len(R) THEN Written(log[p[h]]) ELSE "none"
  <2>1. h <= Len(R) \/ h = Len(R) + 1
    BY <1>3, <1>10
  <2>2. h = Len(R) + 1 => ~(h <= Len(R))
    BY <1>3
  <2>3. QED
    BY <1>11, <2>1, <2>2 DEF Restored, U
<1>13. \E x : Ahead(R, h, x) /\ (h # 1 => x \in A)
  <2>1. CASE h = 1
    <3>1. Ahead(R, h, 0)
      BY <1>3, <1>10, <2>1 DEF Ahead, A
    <3>2. QED
      BY <2>1, <3>1
  <2>2. CASE h # 1
    <3>1. 1 \in 1 .. Len(R) /\ 1 \in 1 .. h - 1
      BY <1>3, <1>10, <2>2
    <3>2. Cardinality(Losers(k)) <= 1
      <4>1. SUFFICES ASSUME Finished(k) # {}, Max(Finished(k)) = Max(WritesTo(k)) PROVE FALSE
        BY <1>12
      <4>2. h <= Len(R) /\ h \in 1 .. Len(R) /\ 1 < h
        BY <1>3, <1>10, <1>11, <2>2, <4>1
      <4>3. p[h] < p[1] /\ p[1] \in Nat /\ p[h] \in Nat /\ p[1] \in WritesTo(k)
        BY <1>3, <1>4, <3>1, <4>2
      <4>4. \A w \in WritesTo(k) : w <= p[1]
        <5>1. ASSUME NEW w \in WritesTo(k) PROVE w <= p[1]
          <6>1. PICK j \in 1 .. Len(R) : p[j] = w
            BY <1>7
          <6>2. j = 1 \/ 1 < j
            BY <1>3
          <6>3. j = 1 \/ p[j] < p[1]
            BY <1>3, <3>1, <6>2
          <6>4. w \in Nat
            BY <1>4
          <6>5. QED
            BY <4>3, <6>1, <6>3, <6>4
        <5>2. QED
          BY <5>1
      <4>5. Max(WritesTo(k)) = p[1]
        <5>1. WritesTo(k) \subseteq Nat
          BY <1>4
        <5>2. QED
          BY <4>3, <4>4, <5>1, MaxIs
      <4>6. QED
        BY <1>11, <4>1, <4>2, <4>3, <4>5
    <3>3. \A j \in 1 .. h - 1 : R[j].txn \in Losers(k) /\ R[j].txn \in A
      <4>1. \A j \in 1 .. h - 1 : j \in 1 .. Len(R)
        BY <1>3, <1>10
      <4>2. \A j \in 1 .. h - 1 : R[j].txn = log[p[j]].txn /\ p[j] \in WritesTo(k) /\ Unfinished(log[p[j]].txn)
        BY <1>5, <1>6, <1>10, <4>1
      <4>3. QED
        BY <1>10, <4>2 DEF Losers
    <3>4. \A j \in 1 .. h - 1 : R[j].txn = R[1].txn
      BY <3>1, <3>2, <3>3, LosersFinite, AtMostOne
    <3>5. Ahead(R, h, R[1].txn)
      BY <1>3, <1>10, <3>4 DEF Ahead, A
    <3>6. QED
      BY <3>1, <3>3, <3>5
  <2>3. QED
    BY <2>1, <2>2
<1>14. PICK x : Ahead(R, h, x) /\ (h # 1 => x \in A)
  BY <1>13
<1>15. Dropped(U, R, h - 1)
  BY <1>1, <1>8, <1>14, UndoneDrops DEF R, A
<1>16. U \in Seq(Version) /\ Len(U) = Len(R) - (h - 1) /\ \A j \in 1 .. Len(R) - (h - 1) : U[j] = R[j + (h - 1)]
  BY <1>15 DEF Dropped
<1>17. CASE h <= Len(R)
  <2>1. 1 \in 1 .. Len(U) /\ h \in 1 .. Len(R) /\ 1 + (h - 1) = h /\ 1 \in 1 .. Len(R) - (h - 1)
    BY <1>3, <1>10, <1>16, <1>17
  <2>2. U[1] = VersionOf(log[p[h]]) /\ p[h] \in 1 .. Len(log) /\ IsWrite(log[p[h]])
    BY <1>3, <1>4, <1>16, <2>1
  <2>3. log[p[h]].lsn \in Nat /\ log[p[h]].lsn <= MaxTs /\ MaxTs \in Nat /\ globalTs' = MaxTs + 1
    BY <2>2, RecordFacts, MaxTsIs DEF Recover
  <2>4. Sees(U[1], 0, globalTs')
    <3>1. U[1].ts = log[p[h]].lsn
      BY <2>2 DEF VersionOf
    <3>2. U[1].ts # Unstamped /\ U[1].ts <= globalTs'
      BY <2>3, <3>1 DEF Unstamped
    <3>3. QED
      BY <3>2 DEF Sees
  <2>5. Lookup(U, 0, globalTs') = IF U[1].deleted THEN "none" ELSE U[1].by
    <3>1. \A j \in 1 .. 1 - 1 : ~Sees(U[j], 0, globalTs')
      OBVIOUS
    <3>2. QED
      BY <1>16, <2>1, <2>4, <3>1, LookupIs
  <2>6. U[1].by = log[p[h]].by /\ (U[1].deleted <=> log[p[h]].type = "DELETE")
    <3>1. /\ VersionOf(log[p[h]]).by = log[p[h]].by
          /\ VersionOf(log[p[h]]).deleted = (log[p[h]].type = "DELETE")
      BY DEF VersionOf
    <3>2. QED
      BY <2>2, <3>1
  <2>7. Written(log[p[h]]) = IF log[p[h]].type = "DELETE" THEN "none" ELSE log[p[h]].by
    BY <2>2 DEF Written, IsWrite
  <2>8. QED
    BY <1>17, <2>5, <2>6, <2>7
<1>18. CASE ~(h <= Len(R))
  <2>1. Len(U) = 0
    BY <1>3, <1>10, <1>16, <1>18
  <2>2. Lookup(U, 0, globalTs') = "none"
    <3>1. ~\E j \in 1 .. Len(U) : Sees(U[j], 0, globalTs')
      BY <2>1
    <3>2. QED
      BY <1>16, <3>1, LookupIs
  <2>3. QED
    BY <1>18, <2>2
<1>19. QED
  BY <1>17, <1>18

\* Only Recover takes the engine from "opened" to "recovered".
LEMMA OnlyRecover == mode = "opened" /\ mode' = "recovered" /\ [Next]_vars => Recover
<1> SUFFICES ASSUME mode = "opened", mode' = "recovered", [Next]_vars PROVE Recover
  OBVIOUS
<1>1. mode' # mode
  OBVIOUS
<1>2. \A t \in Txn : ~Step(t)
  BY <1>1 DEF Step, Begin, LogBegin, Put, Delete, Write, Commit, Abort, FlushEnd, engineVars
<1>3. ~Checkpoint /\ ~FlushCheckpoint /\ ~Vacuum /\ ~Crash /\ ~UNCHANGED vars
  BY <1>1 DEF Checkpoint, FlushCheckpoint, Vacuum, Crash, FreshProcess, vars, engineVars
<1>4. QED
  BY <1>2, <1>3 DEF Next

\* Where none of the three exceptions holds, the last finished write is the
\* last committed one, and is what recovery brings back.
LEMMA RecoverKeepsPromise ==
  ASSUME TypeInv, Recover, NEW k \in Key
  PROVE  AbortedLast(k) \/ LosersInTurn(k) \/ Reopened(k) \/ Recovered(k) = Promised(k)
<1> SUFFICES ASSUME ~AbortedLast(k), ~LosersInTurn(k), ~Reopened(k)
             PROVE  Recovered(k) = Promised(k)
  OBVIOUS
<1>1. /\ Finished(k) = {} => Recovered(k) = "none"
      /\ Finished(k) # {} => Recovered(k) = Written(log[Max(Finished(k))])
  <2>1. Cardinality(Losers(k)) \in Nat
    BY LosersFinite, FS_CardinalityType
  <2>2. \/ Cardinality(Losers(k)) <= 1
        \/ Finished(k) # {} /\ Max(Finished(k)) = Max(WritesTo(k))
    <3>1. Cardinality(Losers(k)) <= 1 \/ Cardinality(Losers(k)) > 1
      BY <2>1
    <3>2. QED
      BY <3>1 DEF LosersInTurn
  <2>3. QED
    BY <2>2, RecoverRestores DEF Restored, Recovered
<1>2. CommittedWrites(k) \subseteq Finished(k)
  BY DEF CommittedWrites, Finished, Reopened
<1>3. CASE Finished(k) = {}
  BY <1>1, <1>2, <1>3 DEF Promised
<1>4. CASE Finished(k) # {}
  <2>1. /\ Max(Finished(k)) \in Finished(k) /\ Finished(k) \subseteq Nat
        /\ \A w \in Finished(k) : w <= Max(Finished(k))
    BY <1>4, GreatestFinished
  <2>2. Max(Finished(k)) \in CommittedWrites(k)
    BY <1>4, <2>1 DEF AbortedLast, CommittedWrites, Finished
  <2>3. Max(CommittedWrites(k)) = Max(Finished(k))
    <3>1. CommittedWrites(k) \subseteq Nat /\ \A w \in CommittedWrites(k) : w <= Max(Finished(k))
      BY <1>2, <2>1
    <3>2. QED
      BY <2>2, <3>1, MaxIs
  <2>4. QED
    BY <1>1, <1>4, <2>2, <2>3 DEF Promised
<1>5. QED
  BY <1>3, <1>4

\* Recovery brings back the last committed write of each key and no uncommitted
\* one, for any transactions, keys, length of the log and order of the losers,
\* but for the three exceptions RecoveryRestores names (Recover).
THEOREM RecoveryIsExact == Spec => RecoveryRestores
<1>1. MvccInv /\ [Next]_vars =>
        [Recovering =>
           \A k \in Key : \/ AbortedLast(k) \/ LosersInTurn(k) \/ Reopened(k)
                          \/ Recovered(k) = Promised(k)]_vars
  <2>1. Recovering /\ [Next]_vars => Recover
    BY OnlyRecover DEF Recovering
  <2>2. QED
    BY <2>1, RecoverKeepsPromise DEF MvccInv
<1>2. QED
  BY <1>1, MvccInvariant, PTL DEF Spec, RecoveryRestores
================================================================================
