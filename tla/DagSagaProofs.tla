----------------------------- MODULE DagSagaProofs -----------------------------
(***************************************************************************)
(* Proofs about DagSaga, for every set of steps, every dependency graph    *)
(* and every number of pauses and retries.                                 *)
(***************************************************************************)
EXTENDS DagSaga, SequenceTheorems, TLAPS

JournalRow == (SagaStates \union {"null"}) \X SagaStates

\* Appending a row to the journal logs its to_status and nothing else.
LEMMA LoggedAppend ==
  ASSUME journal \in Seq(JournalRow), NEW from, NEW to, NEW st,
         LogJournal(from, to)
  PROVE  Logged(st)' <=> Logged(st) \/ st = to
<1> DEFINE row == <<from, to>>
<1>1. journal' = Append(journal, row)
  BY DEF LogJournal
<1>2. /\ DOMAIN journal = 1..Len(journal)
      /\ Len(journal) \in Nat
      /\ DOMAIN journal' = 1..(Len(journal) + 1)
      /\ \A i \in 1..Len(journal) : journal'[i] = journal[i]
      /\ journal'[Len(journal) + 1] = row
  BY <1>1
<1>3. row[2] = to
  OBVIOUS
<1> HIDE DEF row
<1>4. QED
  BY <1>2, <1>3 DEF Logged

LEMMA LogJournalType ==
  ASSUME journal \in Seq(JournalRow), NEW from \in SagaStates \union {"null"},
         NEW to \in SagaStates, LogJournal(from, to)
  PROVE  journal' \in Seq(JournalRow)
<1>1. <<from, to>> \in JournalRow
  BY DEF JournalRow
<1>2. QED
  BY <1>1 DEF LogJournal

\* Every variable keeps its type.
THEOREM TypeCorrect == Spec => []TypeOK
<1> USE StepAssumption
<1>1. Init => TypeOK
  BY DEF Init, TypeOK, SagaStates, StepStates, Running
<1>2. TypeOK /\ [Next]_vars => TypeOK'
  <2> SUFFICES ASSUME TypeOK, [Next]_vars
               PROVE  TypeOK'
    OBVIOUS
  <2>j. journal \in Seq(JournalRow)
    BY DEF TypeOK, JournalRow
  <2> USE DEF TypeOK, StepStates, Running, dbVars, runVars, envVars, InState
  <2>1. CASE CreateSaga
    <3> PICK g \in Submissions : Accepted(g) /\ InsertSteps(g, g.steps)
      BY <2>1 DEF CreateSaga
    <3>1. deps' \in [Step -> SUBSET Step] /\ retries' \in [Step -> Int]
          /\ stepStatus' \in [Step -> StepStates]
      BY DEF Accepted, InsertSteps
    <3>2. journal' \in Seq(JournalRow)
      BY <2>1, <2>j, LogJournalType DEF CreateSaga, SagaStates
    <3>3. QED
      BY <2>1, <3>1, <3>2 DEF CreateSaga, JournalRow, SagaStates
  <2>2. CASE CreateTorn
    <3> PICK g \in Submissions, rows \in SUBSET Step :
               /\ Accepted(g)
               /\ rows \subseteq g.steps
               /\ InsertSteps(g, rows)
      BY <2>2 DEF CreateTorn
    <3>1. deps' \in [Step -> SUBSET Step] /\ retries' \in [Step -> Int]
          /\ stepStatus' \in [Step -> StepStates]
      BY DEF Accepted, InsertSteps
    <3>2. journal' \in Seq(JournalRow)
      BY <2>2, <2>j, LogJournalType DEF CreateTorn, SagaStates
    <3>3. QED
      BY <2>2, <3>1, <3>2 DEF CreateTorn, JournalRow, SagaStates
  <2>3. CASE RunSaga
    <3>1. CASE ScanFailed \/ ScanCompleted
      <4>1. journal' \in Seq(JournalRow)
        <5>1. ASSUME NEW st \in SagaStates, LogJournal(sagaStatus, st)
              PROVE  journal' \in Seq(JournalRow)
          BY <5>1, <2>j, LogJournalType
        <5>2. QED
          BY <3>1, <5>1 DEF ScanFailed, ScanCompleted, SagaStates
      <4>2. QED
        BY <3>1, <4>1 DEF ScanFailed, ScanCompleted, JournalRow, SagaStates
    <3>2. CASE ScanDispatch
      BY <3>2 DEF ScanDispatch, Ready
    <3>3. CASE GatherDone
      BY <3>3 DEF GatherDone
    <3>4. QED
      BY <2>3, <3>1, <3>2, <3>3 DEF RunSaga
  <2>4. CASE CompensateSaga
    <3>1. CASE CompDispatch
      BY <3>1 DEF CompDispatch, Leaves
    <3>2. CASE CompGatherDone
      BY <3>2 DEF CompGatherDone
    <3>3. CASE CompFinished
      <4>1. journal' \in Seq(JournalRow)
        BY <3>3, <2>j, LogJournalType DEF CompFinished, SagaStates
      <4>2. QED
        BY <3>3, <4>1 DEF CompFinished, JournalRow, SagaStates
    <3>4. QED
      BY <2>4, <3>1, <3>2, <3>3 DEF CompensateSaga
  <2>5. ASSUME NEW s \in Step, ExecStep(s)
        PROVE  TypeOK'
    <3> USE DEF Executing, SetStep
    <3>1. CASE ExecSuccess(s)
      BY <3>1 DEF ExecSuccess
    <3>e. ASSUME AfterException(s)
          PROVE  /\ stepStatus' \in [Step -> StepStates]
                 /\ inflight' \in SUBSET Step
                 /\ attempt' \in [Step -> Nat]
                 /\ UNCHANGED <<sagaStatus, deps, retries, journal, pc, controls>>
      <4>1. attempt' \in [Step -> Nat]
        BY <3>e DEF AfterException
      <4>2. CASE UNCHANGED <<stepStatus, inflight>>
        BY <3>e, <4>1, <4>2 DEF AfterException
      <4>3. CASE SetStep(s, "failed") /\ inflight' = inflight \ {s}
        BY <3>e, <4>1, <4>3 DEF AfterException
      <4>4. QED
        BY <3>e, <4>2, <4>3 DEF AfterException
    <3>2. CASE ExecRefused(s)
      BY <3>2, <3>e DEF ExecRefused
    <3>3. CASE ExecTimeout(s)
      <4>1. late' \in [Step -> Nat] /\ unsure' \in SUBSET Step
        BY <3>3 DEF ExecTimeout
      <4>2. AfterException(s) /\ UNCHANGED <<effects, undone, lateUndo>>
        BY <3>3 DEF ExecTimeout
      <4>3. QED
        BY <4>1, <4>2, <3>e
    <3>4. CASE ExecNoAttempt(s)
      BY <3>4 DEF ExecNoAttempt
    <3>5. QED
      BY <2>5, <3>1, <3>2, <3>3, <3>4 DEF ExecStep
  <2>6. ASSUME NEW s \in Step, CompStep(s)
        PROVE  TypeOK'
    <3>1. CompReturns(s)
      BY <2>6 DEF CompStep, CompSuccess, CompRefused, CompTimeout
    <3>2. stepStatus' \in [Step -> StepStates] /\ inflight' \in SUBSET Step
      BY <3>1 DEF CompReturns, SetStep
    <3>3. /\ undone' \in [Step -> Nat]
          /\ lateUndo' \in [Step -> Nat]
          /\ unsure' \in SUBSET Step
      <4>1. CASE CompSuccess(s)
        BY <4>1 DEF CompSuccess
      <4>2. CASE CompRefused(s)
        BY <4>2 DEF CompRefused
      <4>3. CASE CompTimeout(s)
        BY <4>3 DEF CompTimeout
      <4>4. QED
        BY <2>6, <4>1, <4>2, <4>3, Zenon DEF CompStep
    <3>4. UNCHANGED <<sagaStatus, deps, retries, journal, pc, attempt, effects, late, controls>>
      BY <3>1 DEF CompReturns
    <3>5. QED
      BY <3>2, <3>3, <3>4
  <2>7. ASSUME NEW s \in Step, LateArrival(s)
        PROVE  TypeOK'
    <3>1. late' \in [Step -> Nat] /\ effects' \in [Step -> Nat]
      BY <2>7 DEF LateArrival
    <3>2. UNCHANGED <<dbVars, runVars, undone, lateUndo, unsure, controls>>
      BY <2>7 DEF LateArrival
    <3>3. QED
      BY <3>1, <3>2
  <2>14. ASSUME NEW s \in Step, LateCompensation(s)
         PROVE  TypeOK'
    <3>1. lateUndo' \in [Step -> Nat] /\ undone' \in [Step -> Nat]
      BY <2>14 DEF LateCompensation
    <3>2. UNCHANGED <<dbVars, runVars, effects, late, unsure, controls>>
      BY <2>14 DEF LateCompensation
    <3>3. QED
      BY <3>1, <3>2
  <2>8. ASSUME NEW from \in SagaStates, NEW to \in SagaStates, Control(from, to)
        PROVE  TypeOK'
    <3>1. sagaStatus' \in SagaStates /\ controls' \in 0..MaxControls
      BY <2>8 DEF Control, SetSagaStatus, SagaStates
    <3>2. journal' \in Seq(JournalRow)
      BY <2>8, <2>j, LogJournalType DEF Control
    <3>3. UNCHANGED <<stepStatus, deps, retries, runVars, envVars>>
      BY <2>8 DEF Control
    <3>4. QED
      BY <3>1, <3>2, <3>3 DEF JournalRow
  <2>9. CASE Crash
    BY <2>9 DEF Crash, WorkerLost
  <2>10. ASSUME NEW to \in {"paused", "running"}, CrashInControl(to)
         PROVE  TypeOK'
    BY <2>10 DEF CrashInControl, WorkerLost, SagaStates
  <2>11. CASE UNCHANGED vars
    BY <2>11 DEF vars
  <2>12. PauseSaga \/ ResumeSaga => TypeOK'
    BY <2>8 DEF PauseSaga, ResumeSaga, SagaStates
  <2>13. QED
    BY <2>1, <2>2, <2>3, <2>4, <2>5, <2>6, <2>7, <2>9, <2>10, <2>11, <2>12,
       <2>14 DEF Next
<1>3. QED
  BY <1>1, <1>2, PTL DEF Spec

LEMMA LoggedUnchanged ==
  ASSUME UNCHANGED journal, NEW st
  PROVE  Logged(st)' <=> Logged(st)
  BY DEF Logged

\* The inductive step of SafetyInv, action by action.
LEMMA SafetyInvStep ==
  ASSUME TypeOK, SafetyInv, [Next]_vars
  PROVE  SafetyInv'
<1> USE StepAssumption DEF SafetyInv, CoroutinePhase, GatherMembers, StepsFitPhase,
        DependencyOrder, OutcomeIsTrue, InState, Running, StepStates
<1>t. /\ stepStatus \in [Step -> StepStates]
      /\ deps \in [Step -> SUBSET Step]
      /\ pc \in Running \union {"none", "returned", "lost"}
      /\ inflight \in SUBSET Step
      /\ journal \in Seq(JournalRow)
  BY DEF TypeOK, JournalRow
<1>1. CASE CreateSaga
  <2> PICK g \in Submissions : Accepted(g) /\ InsertSteps(g, g.steps)
    BY <1>1 DEF CreateSaga
  <2>1. \A st : Logged(st)' <=> Logged(st) \/ st = "running"
    BY <1>1, <1>t, LoggedAppend DEF CreateSaga
  <2>2. QED
    BY <1>1, <1>t, <2>1 DEF CreateSaga, InsertSteps
<1>2. CASE CreateTorn
  <2> PICK g \in Submissions, rows \in SUBSET Step : InsertSteps(g, rows)
    BY <1>2 DEF CreateTorn
  <2>1. /\ Logged("compensating")' <=> Logged("compensating")
        /\ Logged("completed")' <=> Logged("completed")
        /\ Logged("compensated")' <=> Logged("compensated")
    BY <1>2, <1>t, LoggedAppend, LoggedUnchanged DEF CreateTorn
  <2>2. QED
    BY <1>2, <1>t, <2>1 DEF CreateTorn, InsertSteps
<1>3. CASE ScanFailed
  <2>1. \A st : Logged(st)' <=> Logged(st) \/ st = "compensating"
    BY <1>3, <1>t, LoggedAppend DEF ScanFailed
  <2>2. QED
    BY <1>3, <1>t, <2>1 DEF ScanFailed, Scanning
<1>4. CASE ScanCompleted
  <2>1. \A st : Logged(st)' <=> Logged(st) \/ st = "completed"
    BY <1>4, <1>t, LoggedAppend DEF ScanCompleted
  <2>2. QED
    BY <1>4, <1>t, <2>1 DEF ScanCompleted, NothingLeft, Scanning
<1>5. CASE ScanDispatch
  <2>1. \A st : Logged(st)' <=> Logged(st)
    BY <1>5, LoggedUnchanged DEF ScanDispatch
  <2>2. QED
    BY <1>5, <1>t, <2>1 DEF ScanDispatch, Scanning, Ready
<1>6. CASE GatherDone
  <2>1. \A st : Logged(st)' <=> Logged(st)
    BY <1>6, LoggedUnchanged DEF GatherDone, dbVars
  <2>2. QED
    BY <1>6, <1>t, <2>1 DEF GatherDone, dbVars
<1>7. CASE CompDispatch
  <2>1. \A st : Logged(st)' <=> Logged(st)
    BY <1>7, LoggedUnchanged DEF CompDispatch
  <2>2. QED
    BY <1>7, <1>t, <2>1 DEF CompDispatch, Leaves
<1>8. CASE CompGatherDone
  <2>1. \A st : Logged(st)' <=> Logged(st)
    BY <1>8, LoggedUnchanged DEF CompGatherDone, dbVars
  <2>2. QED
    BY <1>8, <1>t, <2>1 DEF CompGatherDone, dbVars
<1>9. CASE CompFinished
  <2>1. \A st : Logged(st)' <=> Logged(st) \/ st = "compensated"
    BY <1>9, <1>t, LoggedAppend DEF CompFinished
  <2>2. QED
    BY <1>9, <1>t, <2>1 DEF CompFinished
<1>10. ASSUME NEW s \in Step, ExecStep(s)
       PROVE  SafetyInv'
  <2>1. \A st : Logged(st)' <=> Logged(st)
    BY <1>10, LoggedUnchanged DEF ExecStep, ExecSuccess, ExecRefused, ExecTimeout,
       ExecNoAttempt, AfterException, dbVars
  <2>2. /\ UNCHANGED <<sagaStatus, deps, pc>>
        /\ pc = "gather"
        /\ s \in inflight
        /\ \/ stepStatus' = stepStatus /\ inflight' \in {inflight, inflight \ {s}}
           \/ \E st \in {"completed", "failed"} :
                SetStep(s, st) /\ inflight' = inflight \ {s}
    BY <1>10 DEF ExecStep, ExecSuccess, ExecRefused, ExecTimeout, ExecNoAttempt,
       AfterException, Executing, dbVars
  <2>3. QED
    BY <1>t, <2>1, <2>2 DEF SetStep
<1>11. ASSUME NEW s \in Step, CompStep(s)
       PROVE  SafetyInv'
  <2>1. \A st : Logged(st)' <=> Logged(st)
    BY <1>11, LoggedUnchanged DEF CompStep, CompSuccess, CompRefused, CompTimeout, CompReturns
  <2>2. /\ UNCHANGED <<sagaStatus, deps, pc>>
        /\ pc = "compGather"
        /\ s \in inflight
        /\ SetStep(s, "compensated") /\ inflight' = inflight \ {s}
    BY <1>11 DEF CompStep, CompSuccess, CompRefused, CompTimeout, CompReturns
  <2>3. QED
    BY <1>t, <2>1, <2>2 DEF SetStep
<1>12. ASSUME NEW s \in Step, LateArrival(s) \/ LateCompensation(s)
       PROVE  SafetyInv'
  <2>1. UNCHANGED <<dbVars, runVars>>
    BY <1>12 DEF LateArrival, LateCompensation
  <2>2. QED
    BY <2>1, LoggedUnchanged DEF dbVars, runVars
<1>13. ASSUME NEW from, NEW to \in {"paused", "running"}, Control(from, to)
       PROVE  SafetyInv'
  <2>1. \A st : Logged(st)' <=> Logged(st) \/ st = to
    BY <1>13, <1>t, LoggedAppend DEF Control
  <2>2. QED
    BY <1>13, <1>t, <2>1 DEF Control, SetSagaStatus, runVars
<1>14. CASE Crash
  <2>1. \A st : Logged(st)' <=> Logged(st)
    BY <1>14, LoggedUnchanged DEF Crash
  <2>2. QED
    BY <1>14, <1>t, <2>1 DEF Crash, WorkerLost
<1>15. ASSUME NEW to \in {"paused", "running"}, CrashInControl(to)
       PROVE  SafetyInv'
  <2>1. \A st : Logged(st)' <=> Logged(st)
    BY <1>15, LoggedUnchanged DEF CrashInControl
  <2>2. QED
    BY <1>15, <1>t, <2>1 DEF CrashInControl, WorkerLost
<1>16. CASE UNCHANGED vars
  BY <1>16, LoggedUnchanged DEF vars, dbVars, runVars
<1>17. QED
  BY <1>1, <1>2, <1>3, <1>4, <1>5, <1>6, <1>7, <1>8, <1>9, <1>10, <1>11, <1>12,
     <1>13, <1>14, <1>15, <1>16
  DEF Next, RunSaga, CompensateSaga, PauseSaga, ResumeSaga

\* DependencyOrder and OutcomeIsTrue hold, through the inductive invariant.
THEOREM SafetyInvariant == Spec => []SafetyInv
<1>1. Init => SafetyInv
  BY DEF Init, SafetyInv, CoroutinePhase, GatherMembers, StepsFitPhase, DependencyOrder,
         OutcomeIsTrue, InState, Logged
<1>2. TypeOK /\ SafetyInv /\ [Next]_vars => SafetyInv'
  BY SafetyInvStep
<1>3. QED
  BY <1>1, <1>2, TypeCorrect, PTL DEF Spec

\* Forward execution follows the dependencies and compensation their reverse.
THEOREM StepsRunInDependencyOrder == Spec => []DependencyOrder
<1>1. SafetyInv => DependencyOrder
  BY DEF SafetyInv
<1>2. QED
  BY <1>1, SafetyInvariant, PTL

\* A completed saga completed every step; a compensated one left none behind.
THEOREM JournalTellsTheOutcome == Spec => []OutcomeIsTrue
<1>1. SafetyInv => OutcomeIsTrue
  BY DEF SafetyInv
<1>2. QED
  BY <1>1, SafetyInvariant, PTL

\* No step starts after a failure, in a paused saga or in a compensating one.
THEOREM NothingStartsLate == Spec => NoLateStart
<1> DEFINE Timely ==
      \A s \in Step :
        stepStatus[s] # "executing" /\ stepStatus'[s] = "executing"
          => InState("failed") = {} /\ sagaStatus # "paused" /\ ~Logged("compensating")
<1>1. ASSUME TypeOK, SafetyInv, [Next]_vars
      PROVE  [Timely]_vars
  <2> SUFFICES ASSUME NEW s \in Step,
                      stepStatus[s] # "executing", stepStatus'[s] = "executing"
               PROVE  ScanDispatch
    BY <1>1 DEF ScanDispatch, Scanning, SafetyInv, CoroutinePhase
  <2>1. stepStatus \in [Step -> StepStates]
    BY <1>1 DEF TypeOK
  <2>2. ~UNCHANGED stepStatus
    OBVIOUS
  <2>3. ~CreateSaga /\ ~CreateTorn
    BY DEF CreateSaga, CreateTorn, InsertSteps
  <2>4. ~CompDispatch
    BY <2>1 DEF CompDispatch
  <2>5. \A r \in Step : ~ExecStep(r) /\ ~CompStep(r)
    BY <2>1, <2>2 DEF ExecStep, ExecSuccess, ExecRefused, ExecTimeout, ExecNoAttempt,
       AfterException, CompStep, CompSuccess, CompRefused, CompTimeout, CompReturns, SetStep, dbVars
  <2>6. QED
    BY <1>1, <2>2, <2>3, <2>4, <2>5 DEF Next, vars, dbVars, RunSaga, ScanFailed, ScanCompleted,
       GatherDone, CompensateSaga, CompGatherDone, CompFinished, LateArrival, LateCompensation,
       PauseSaga, ResumeSaga, Control, Crash, WorkerLost, CrashInControl
<1>2. QED
  BY <1>1, TypeCorrect, SafetyInvariant, PTL DEF Spec, NoLateStart

--------------------------------------------------------------------------------
\* The steps done, as the refinement mapping reads them.
Done == InState("completed") \union InState("compensating")

\* DagSaga implements SagaTransaction: each action maps to the step named in
\* its case, or to a stutter.
LEMMA TransactionStep ==
  ASSUME TypeOK, TypeOK', SafetyInv, [Next]_vars
  PROVE  [Transaction!Next]_(Transaction!vars)
<1> USE StepAssumption DEF SafetyInv, InState, Running, StepStates, phase,
        Transaction!Next, Transaction!vars
<1>t. /\ stepStatus \in [Step -> StepStates]
      /\ deps \in [Step -> SUBSET Step]
      /\ deps' \in [Step -> SUBSET Step]
      /\ journal \in Seq(JournalRow)
  BY DEF TypeOK, JournalRow
<1>1. CASE CreateSaga \/ CreateTorn
  <2> PICK g \in Submissions, rows \in SUBSET Step : InsertSteps(g, rows)
    BY <1>1 DEF CreateSaga, CreateTorn
  <2>1. /\ Logged("compensating")' <=> Logged("compensating")
        /\ Logged("completed")' <=> Logged("completed")
        /\ Logged("compensated")' <=> Logged("compensated")
    BY <1>1, <1>t, LoggedAppend, LoggedUnchanged DEF CreateSaga, CreateTorn
  <2>2. Transaction!Submit
    <3>1. QED
      BY <1>1, <1>t, <2>1 DEF CreateSaga, CreateTorn, InsertSteps, CoroutinePhase, Transaction!Submit
  <2>3. QED
    BY <2>2
<1>3. CASE ScanFailed
  <2>1. \A st : Logged(st)' <=> Logged(st) \/ st = "compensating"
    BY <1>3, <1>t, LoggedAppend DEF ScanFailed
  <2>2. Transaction!GiveUp
    BY <1>3, <1>t, <2>1 DEF ScanFailed, Scanning, CoroutinePhase, Transaction!GiveUp
  <2>3. QED
    BY <2>2
<1>4. CASE ScanCompleted
  <2>1. \A st : Logged(st)' <=> Logged(st) \/ st = "completed"
    BY <1>4, <1>t, LoggedAppend DEF ScanCompleted
  <2>2. Transaction!Commit
    BY <1>4, <1>t, <2>1
    DEF ScanCompleted, NothingLeft, Scanning, CoroutinePhase, StepsFitPhase, Transaction!Commit
  <2>3. QED
    BY <2>2
<1>9. CASE CompFinished
  <2>1. \A st : Logged(st)' <=> Logged(st) \/ st = "compensated"
    BY <1>9, <1>t, LoggedAppend DEF CompFinished
  <2>2. Transaction!RolledBack
    BY <1>9, <1>t, <2>1 DEF CompFinished, CoroutinePhase, GatherMembers, Transaction!RolledBack
  <2>3. QED
    BY <2>2
<1>10. ASSUME NEW s \in Step, ExecStep(s)
       PROVE  Transaction!Do(s) \/ UNCHANGED Transaction!vars
  <2>1. UNCHANGED phase
    <3>1. UNCHANGED <<journal, sagaStatus>>
      BY <1>10 DEF ExecStep, ExecSuccess, ExecRefused, ExecTimeout,
         ExecNoAttempt, AfterException, dbVars
    <3>2. QED
      BY <3>1, LoggedUnchanged
  <2>2. pc = "gather" /\ s \in inflight /\ UNCHANGED deps
    BY <1>10 DEF ExecStep, ExecSuccess, ExecRefused, ExecTimeout, ExecNoAttempt,
       AfterException, Executing, dbVars
  <2>3. CASE ExecSuccess(s)
    <3>1. stepStatus[s] = "executing"
      BY <2>2 DEF GatherMembers
    <3>2. phase = "forward"
      BY <2>2 DEF CoroutinePhase
    <3>3. deps[s] \subseteq InState("completed")
      BY <2>2 DEF DependencyOrder
    <3>4. InState("absent")' = InState("absent") /\ Done' = Done \union {s}
          /\ s \notin Done /\ s \notin InState("absent")
      BY <2>3, <1>t, <3>1 DEF ExecSuccess, SetStep, Done
    <3>5. Transaction!Do(s)
      BY <2>1, <2>2, <3>2, <3>3, <3>4 DEF Transaction!Do, Done
    <3>6. QED
      BY <3>5
  <2>4. CASE ~ExecSuccess(s)
    <3>1. stepStatus[s] = "executing"
      BY <2>2 DEF GatherMembers
    <3>2. UNCHANGED stepStatus \/ SetStep(s, "failed")
      BY <1>10, <2>4 DEF ExecStep, ExecRefused, ExecTimeout, ExecNoAttempt,
         AfterException, dbVars
    <3>3. UNCHANGED <<InState("absent"), InState("completed"), InState("compensating")>>
      BY <1>t, <3>1, <3>2 DEF SetStep
    <3>4. QED
      BY <2>1, <2>2, <3>3
  <2>5. QED
    BY <2>3, <2>4
<1>11. ASSUME NEW s \in Step, CompStep(s)
       PROVE  Transaction!Undo(s)
  <2>1. UNCHANGED <<journal, sagaStatus, deps>> /\ SetStep(s, "compensated")
        /\ pc = "compGather" /\ s \in inflight
    BY <1>11 DEF CompStep, CompSuccess, CompRefused, CompTimeout, CompReturns
  <2>2. UNCHANGED phase /\ phase = "backward"
    BY <2>1, LoggedUnchanged DEF CoroutinePhase
  <2>3. stepStatus[s] = "compensating"
    BY <2>1 DEF GatherMembers
  <2>4. \A t \in Done : s \notin deps[t]
    BY <2>3 DEF DependencyOrder, Done
  <2>5. InState("absent")' = InState("absent") /\ Done' = Done \ {s} /\ s \in Done
    BY <1>t, <2>1, <2>3 DEF SetStep, Done
  <2>6. QED
    BY <2>1, <2>2, <2>4, <2>5 DEF Transaction!Undo, Done
<1>12. ASSUME UNCHANGED <<deps, InState("absent"), Done>>,
              UNCHANGED sagaStatus \/ (sagaStatus # "none" /\ sagaStatus' # "none"),
              \A st \in {"compensating", "completed", "compensated"} :
                Logged(st)' <=> Logged(st)
       PROVE  UNCHANGED Transaction!vars
  BY <1>12 DEF Done
<1>13. CASE ScanDispatch
  <2>1. \A st : Logged(st)' <=> Logged(st)
    BY <1>13, LoggedUnchanged DEF ScanDispatch
  <2>2. QED
    BY <1>13, <1>t, <1>12, <2>1 DEF ScanDispatch, Ready, Done
<1>14. CASE CompDispatch
  <2>1. \A st : Logged(st)' <=> Logged(st)
    BY <1>14, LoggedUnchanged DEF CompDispatch
  <2>2. QED
    BY <1>14, <1>t, <1>12, <2>1 DEF CompDispatch, Leaves, Done
<1>15. ASSUME NEW from, NEW to \in {"paused", "running"}, Control(from, to)
       PROVE  UNCHANGED Transaction!vars
  <2>1. \A st : Logged(st)' <=> Logged(st) \/ st = to
    BY <1>15, <1>t, LoggedAppend DEF Control
  <2>2. QED
    BY <1>15, <1>12, <2>1 DEF Control, SetSagaStatus, Done
<1>17. ASSUME \/ GatherDone \/ CompGatherDone \/ Crash \/ UNCHANGED vars
              \/ \E s \in Step : LateArrival(s) \/ LateCompensation(s)
              \/ \E to \in {"paused", "running"} : CrashInControl(to)
       PROVE  UNCHANGED Transaction!vars
  <2> DEFINE Quiet ==
        /\ UNCHANGED <<stepStatus, deps, journal>>
        /\ \/ UNCHANGED sagaStatus
           \/ sagaStatus # "none" /\ sagaStatus' # "none"
  <2>1. GatherDone \/ CompGatherDone \/ (\E s \in Step : LateArrival(s)) => Quiet
    BY DEF GatherDone, CompGatherDone, LateArrival, dbVars
  <2>6. (\E s \in Step : LateCompensation(s)) => Quiet
    BY DEF LateCompensation, dbVars
  <2>2. Crash => Quiet
    BY DEF Crash, WorkerLost
  <2>3. ASSUME NEW to \in {"paused", "running"}, CrashInControl(to)
        PROVE  Quiet
    BY <2>3 DEF CrashInControl, WorkerLost
  <2>4. UNCHANGED vars => Quiet
    BY DEF vars, dbVars
  <2>5. Quiet
    BY <1>17, <2>1, <2>2, <2>3, <2>4, <2>6
  <2>7. QED
    BY <2>5, <1>12, LoggedUnchanged DEF Done
<1>18. QED
  BY <1>1, <1>3, <1>4, <1>9, <1>10, <1>11, <1>13, <1>14, <1>15, <1>17
  DEF Next, RunSaga, CompensateSaga, PauseSaga, ResumeSaga

THEOREM OrchestratorImplementsTransaction == Spec => ImplementsTransaction
<1>1. Init => Transaction!Init
  BY DEF Init, Transaction!Init, InState, phase, Logged
<1>2. TypeOK /\ TypeOK' /\ SafetyInv /\ [Next]_vars
        => [Transaction!Next]_(Transaction!vars)
  BY TransactionStep
<1>3. QED
  BY <1>1, <1>2, TypeCorrect, SafetyInvariant, PTL
  DEF Spec, ImplementsTransaction, Transaction!Spec

--------------------------------------------------------------------------------
\* The inductive step of EffectsInv: GatherMembers gives the state of a step
\* whose call is being answered.
LEMMA EffectsInvStep ==
  ASSUME TypeOK, SafetyInv, EffectsInv, [Next]_vars
  PROVE  EffectsInv'
<1> USE DEF EffectsInv, AnsweredMatchSteps
<1>t. /\ stepStatus \in [Step -> StepStates]
      /\ effects \in [Step -> Nat]
      /\ undone \in [Step -> Nat]
      /\ late \in [Step -> Nat]
      /\ lateUndo \in [Step -> Nat]
      /\ unsure \in SUBSET Step
      /\ inflight \in SUBSET Step
  BY DEF TypeOK
<1>1. CASE CreateSaga \/ CreateTorn
  <2>1. UNCHANGED envVars /\ \A s \in Step : stepStatus[s] = "absent"
    BY <1>1 DEF CreateSaga, CreateTorn, SafetyInv, CoroutinePhase
  <2>2. \A s \in Step : stepStatus'[s] \in {"absent", "pending"}
    BY <1>1 DEF CreateSaga, CreateTorn, InsertSteps
  <2>3. QED
    BY <2>1, <2>2 DEF envVars
<1>2. CASE ScanDispatch
  BY <1>2, <1>t DEF ScanDispatch, Ready, InState, envVars
<1>3. CASE CompDispatch
  BY <1>3, <1>t DEF CompDispatch, Leaves, InState, envVars
<1>4. ASSUME NEW s \in Step, ExecStep(s)
      PROVE  EffectsInv'
  <2>1. stepStatus[s] = "executing"
    BY <1>4 DEF ExecStep, ExecSuccess, ExecRefused, ExecTimeout, ExecNoAttempt, Executing,
       SafetyInv, GatherMembers, InState
  <2>2. CASE ExecSuccess(s)
    BY <1>t, <2>1, <2>2 DEF ExecSuccess, SetStep
  <2>3. CASE ExecRefused(s)
    BY <1>t, <2>1, <2>3 DEF ExecRefused, AfterException, SetStep, envVars
  <2>4. CASE ExecTimeout(s)
    BY <1>t, <2>1, <2>4 DEF ExecTimeout, AfterException, SetStep
  <2>5. CASE ExecNoAttempt(s)
    BY <2>5 DEF ExecNoAttempt, dbVars, envVars
  <2>6. QED
    BY <1>4, <2>2, <2>3, <2>4, <2>5 DEF ExecStep
<1>5. ASSUME NEW s \in Step, CompStep(s)
      PROVE  EffectsInv'
  <2>1. CompReturns(s)
    BY <1>5 DEF CompStep, CompSuccess, CompRefused, CompTimeout
  <2>2. stepStatus[s] = "compensating" /\ s \in inflight
    BY <2>1 DEF CompReturns, SafetyInv, GatherMembers, InState
  <2>3. undone[s] = 0 /\ lateUndo[s] = 0
    BY <1>t, <2>2
  <2>4. /\ stepStatus' = [stepStatus EXCEPT ![s] = "compensated"]
        /\ inflight' = inflight \ {s}
        /\ UNCHANGED <<effects, late>>
    BY <2>1 DEF CompReturns, SetStep
  <2>5. CASE CompSuccess(s)
    BY <1>t, <2>2, <2>3, <2>4, <2>5 DEF CompSuccess
  <2>6. CASE CompRefused(s)
    BY <1>t, <2>2, <2>3, <2>4, <2>6 DEF CompRefused
  <2>7. CASE CompTimeout(s)
    BY <1>t, <2>2, <2>3, <2>4, <2>7 DEF CompTimeout
  <2>8. QED
    BY <1>5, <2>5, <2>6, <2>7 DEF CompStep
<1>6. ASSUME NEW s \in Step, LateArrival(s)
      PROVE  EffectsInv'
  BY <1>6, <1>t DEF LateArrival, dbVars, runVars
<1>13. ASSUME NEW s \in Step, LateCompensation(s)
       PROVE  EffectsInv'
  <2>1. /\ undone' = [undone EXCEPT ![s] = @ + 1]
        /\ lateUndo' = [lateUndo EXCEPT ![s] = @ - 1]
        /\ lateUndo[s] > 0
        /\ UNCHANGED <<stepStatus, inflight, effects, late, unsure>>
    BY <1>13 DEF LateCompensation, dbVars, runVars
  <2>2. s \in unsure
    BY <1>t, <2>1
  <2>3. AnsweredMatchSteps' /\ \A t \in Step \ unsure' : late'[t] = 0 /\ lateUndo'[t] = 0
    BY <1>t, <2>1, <2>2
  <2>4. \A t \in Step : undone'[t] + lateUndo'[t] = undone[t] + lateUndo[t]
    BY <1>t, <2>1
  <2>5. QED
    BY <2>1, <2>3, <2>4
<1>7. CASE Crash \/ \E to \in {"paused", "running"} : CrashInControl(to)
  <2>1. WorkerLost
    BY <1>7 DEF Crash, CrashInControl
  <2>2. /\ UNCHANGED <<stepStatus, effects, undone>>
        /\ inflight' = {}
        /\ unsure' = unsure \union inflight
        /\ \A s \in Step \ inflight : late'[s] = late[s] /\ lateUndo'[s] = lateUndo[s]
    BY <1>t, <2>1 DEF WorkerLost
  <2>3. ASSUME NEW s \in Step, s \in inflight
        PROVE  \/ lateUndo'[s] = lateUndo[s]
               \/ /\ stepStatus[s] = "compensating"
                  /\ undone[s] = 0
                  /\ lateUndo'[s] = 1
    <3>1. CASE pc = "compGather"
      <4>1. stepStatus[s] = "compensating"
        BY <2>3, <3>1 DEF SafetyInv, GatherMembers, InState
      <4>2. undone[s] = 0 /\ lateUndo[s] = 0
        BY <1>t, <2>3, <4>1
      <4>3. lateUndo'[s] = lateUndo[s] + 1
        BY <2>1, <2>3, <3>1 DEF WorkerLost
      <4>4. QED
        BY <4>1, <4>2, <4>3
    <3>2. CASE pc # "compGather"
      BY <2>1, <3>2 DEF WorkerLost
    <3>3. QED
      BY <3>1, <3>2
  <2>4. QED
    BY <1>t, <2>2, <2>3
<1>8. CASE UNCHANGED <<stepStatus, inflight, envVars>>
  BY <1>8 DEF envVars
<1>9. ScanFailed \/ ScanCompleted \/ GatherDone => UNCHANGED <<stepStatus, inflight, envVars>>
  BY DEF ScanFailed, ScanCompleted, GatherDone, dbVars
<1>10. CompGatherDone \/ CompFinished => UNCHANGED <<stepStatus, inflight, envVars>>
  BY DEF CompGatherDone, CompFinished, dbVars
<1>11. PauseSaga \/ ResumeSaga \/ UNCHANGED vars => UNCHANGED <<stepStatus, inflight, envVars>>
  BY DEF PauseSaga, ResumeSaga, Control, vars, dbVars, runVars
<1> HIDE DEF EffectsInv, AnsweredMatchSteps
<1>12. QED
  BY <1>1, <1>2, <1>3, <1>4, <1>5, <1>6, <1>7, <1>8, <1>9, <1>10, <1>11, <1>13
  DEF Next, RunSaga, CompensateSaga

\* What EffectsMatchSteps rests on is an invariant.
THEOREM EffectsInvariant == Spec => []EffectsInv
<1>1. Init => EffectsInv
  BY DEF Init, EffectsInv, AnsweredMatchSteps
<1>2. TypeOK /\ SafetyInv /\ EffectsInv /\ [Next]_vars => EffectsInv'
  BY EffectsInvStep
<1>3. QED
  BY <1>1, <1>2, TypeCorrect, SafetyInvariant, PTL DEF Spec

\* The services agree with the steps table wherever every call was answered, and
\* only what was done is undone, and once, lost answers or not.
THEOREM ServicesAgreeWithSteps == Spec => []EffectsMatchSteps
<1>1. ASSUME TypeOK, EffectsInv, NEW s \in Step
      PROVE  undone[s] <= effects[s] /\ undone[s] <= 1
  <2>1. /\ effects[s] \in Nat
        /\ undone[s] \in Nat
        /\ lateUndo[s] \in Nat
        /\ undone[s] + lateUndo[s] \in {0, 1}
    BY <1>1 DEF TypeOK, EffectsInv
  <2>2. undone[s] = 1 => effects[s] >= 1
    BY <1>1, <2>1 DEF EffectsInv
  <2>3. QED
    BY <2>1, <2>2
<1>2. TypeOK /\ EffectsInv => UndoneWasDone
  BY <1>1 DEF UndoneWasDone
<1>3. EffectsInv => AnsweredMatchSteps
  BY DEF EffectsInv
<1>4. TypeOK /\ EffectsInv => EffectsMatchSteps
  BY <1>2, <1>3 DEF EffectsMatchSteps
<1>5. QED
  BY <1>4, TypeCorrect, EffectsInvariant, PTL
================================================================================
