-------------------------------- MODULE DagSaga --------------------------------
(***************************************************************************)
(* The saga orchestrator (tasks/dag-saga-orchestrator-api/solution): one   *)
(* saga, its rows in SQLite, the coroutine run_saga that drives it, the    *)
(* HTTP calls it awaits, the pause and resume endpoints, and a crash of    *)
(* the server.                                                             *)
(*                                                                         *)
(* Sagas share no row, so one saga is enough.  A handler or coroutine runs *)
(* on one event loop and changes hands only at an await, so an action is   *)
(* the code from one await to the next.  The connections are in autocommit *)
(* (isolation_level=None), where `with conn:` opens no transaction: each   *)
(* statement of create, pause and resume is durable by itself, and a crash *)
(* between two of them leaves a torn request.                              *)
(***************************************************************************)
EXTENDS Integers, Sequences, FiniteSetsExt

CONSTANTS
  Step,         \* the step ids a payload can define
  Foreign,      \* ids a payload can name as dependencies without defining
  Submissions,  \* the payloads clients post: [steps, deps, retries], where
                \* retries[s] is max_retries, which nothing validates
  MaxControls   \* bound: pause and resume calls in a behaviour

ASSUME StepAssumption ==
  /\ Submissions \subseteq [steps : SUBSET Step,
                            deps : [Step -> SUBSET (Step \union Foreign)],
                            retries : [Step -> Int]]
  /\ MaxControls \in Nat

VARIABLES
  \* Tables of the database: they survive a crash.
  sagaStatus,   \* sagas.status; "none" while there is no row
  stepStatus,   \* steps.status; "absent" while there is no row
  deps,         \* steps.dependencies
  retries,      \* steps.retry_policy, of which only max_retries matters here
  journal,      \* rows <<from_status, to_status>> in order of id
  \* The coroutine run_saga and the calls it awaits.
  pc,           \* where run_saga is, or "none", "returned", "lost"
  inflight,     \* the members of asyncio.gather that have not returned
  attempt,      \* attempt[s]: the local `attempt` of exec_step(s)
  \* The services the saga calls, and what became of the calls.
  effects,      \* effects[s]: times s's execute_url took effect
  undone,       \* undone[s]: times s's compensate_url took effect
  late,         \* late[s]: execute requests given up on, still in the network
  lateUndo,     \* lateUndo[s]: compensate requests given up on, likewise
  unsure,       \* steps with a call whose outcome the orchestrator never learned
  controls      \* pause and resume calls so far

dbVars  == <<sagaStatus, stepStatus, deps, retries, journal>>
runVars == <<pc, inflight, attempt>>
envVars == <<effects, undone, late, lateUndo, unsure>>
vars    == <<dbVars, runVars, envVars, controls>>

StepStates == {"absent", "pending", "executing", "completed", "failed",
               "compensating", "compensated"}
SagaStates == {"none", "running", "paused", "completed", "compensating",
               "compensated"}
Running    == {"scan", "gather", "compScan", "compGather"}

Init ==
  /\ sagaStatus = "none"
  /\ stepStatus = [s \in Step |-> "absent"]
  /\ deps = [s \in Step |-> {}]
  /\ retries = [s \in Step |-> 0]
  /\ journal = <<>>
  /\ pc = "none"
  /\ inflight = {}
  /\ attempt = [s \in Step |-> 0]
  /\ effects = [s \in Step |-> 0]
  /\ undone = [s \in Step |-> 0]
  /\ late = [s \in Step |-> 0]
  /\ lateUndo = [s \in Step |-> 0]
  /\ unsure = {}
  /\ controls = 0

\* Mutated form of LogJournal: the columns swapped.
LogJournalSwapped(from, to) == journal' = Append(journal, <<to, from>>)

LogJournal(from, to) == journal' = Append(journal, <<from, to>>)

InState(st) == {s \in Step : stepStatus[s] = st}

--------------------------------------------------------------------------------
(* Ingestion. *)

\* dfs of has_cycle, started from each of `roots` in turn: visited = 1 is
\* `path`, visited = 2 is the field visited.  A node met again on the path
\* closes a cycle, and the search stops there.
Dfs(g, roots) ==
  LET Visit[n \in Step, path \in SUBSET Step, visited \in SUBSET Step] ==
        IF n \in path \union visited
        THEN [cycle |-> n \in path, visited |-> visited]
        ELSE LET Dep(d, acc) ==
                   IF acc.cycle THEN acc ELSE Visit[d, path \union {n}, acc.visited]
                 below == FoldSet(Dep, [cycle |-> FALSE, visited |-> visited], g.deps[n])
             IN  [below EXCEPT !.visited = @ \union {n}]
      Root(n, acc) == IF acc.cycle THEN acc ELSE Visit[n, {}, acc.visited]
  IN  FoldSet(Root, [cycle |-> FALSE, visited |-> {}], roots)

HasCycle(g) == Dfs(g, g.steps).cycle

Accepted(g) ==
  /\ \A s \in g.steps : g.deps[s] \subseteq g.steps
  /\ ~HasCycle(g)

InsertSteps(g, rows) ==
  /\ stepStatus' = [s \in Step |-> IF s \in rows THEN "pending" ELSE "absent"]
  /\ deps' = [s \in Step |-> IF s \in rows THEN g.deps[s] ELSE {}]
  /\ retries' = [s \in Step |-> IF s \in rows THEN g.retries[s] ELSE 0]

\* create_saga: the rows, then run_saga as a background task.  A second
\* create with the same id breaks the primary key and changes nothing.
CreateSaga ==
  /\ sagaStatus = "none"
  /\ sagaStatus' = "running"
  /\ LogJournal("null", "running")
  /\ pc' = "scan"
  /\ \E g \in Submissions : Accepted(g) /\ InsertSteps(g, g.steps)
  /\ UNCHANGED <<inflight, attempt, envVars, controls>>

\* create_saga cut short after the INSERT of the saga, by a crash or by a
\* step id the payload defines twice: the saga row stays, with the rows
\* inserted so far and no background task.
CreateTorn ==
  /\ sagaStatus = "none"
  /\ sagaStatus' = "running"
  /\ pc' = "lost"
  /\ \E g \in Submissions :
       /\ Accepted(g)
       /\ \/ UNCHANGED journal /\ InsertSteps(g, {})
          \/ /\ LogJournal("null", "running")
             /\ \E rows \in SUBSET g.steps : InsertSteps(g, rows)
  /\ UNCHANGED <<inflight, attempt, envVars, controls>>

--------------------------------------------------------------------------------
(* run_saga: the transaction it runs each time round its loop.  The branches *)
(* that only sleep and look again (paused, nothing ready) change no state.   *)

\* Mutated form of Ready: dependencies need only have been started.
ReadyOnceStarted == {s \in InState("pending") : deps[s] \cap InState("pending") = {}}

Ready == {s \in InState("pending") : deps[s] \subseteq InState("completed")}

\* Mutated form of Scanning: without the look at sagas.status.
ScanningPaused == pc = "scan"

Scanning == pc = "scan" /\ sagaStatus # "paused"

ScanFailed ==
  /\ Scanning
  /\ InState("failed") # {}
  /\ LogJournal(sagaStatus, "compensating")
  /\ sagaStatus' = "compensating"
  /\ pc' = "compScan"
  /\ UNCHANGED <<stepStatus, deps, retries, inflight, attempt, envVars, controls>>

\* Mutated form of NothingLeft: a step left executing is overlooked.
NothingPending == InState("failed") \union InState("pending") = {}

NothingLeft ==
  InState("failed") \union InState("pending") \union InState("executing") = {}

ScanCompleted ==
  /\ Scanning
  /\ NothingLeft
  /\ LogJournal(sagaStatus, "completed")
  /\ sagaStatus' = "completed"
  /\ pc' = "returned"
  /\ UNCHANGED <<stepStatus, deps, retries, inflight, attempt, envVars, controls>>

ScanDispatch ==
  /\ Scanning
  /\ InState("failed") = {}
  /\ Ready # {}
  /\ stepStatus' = [s \in Step |-> IF s \in Ready THEN "executing" ELSE stepStatus[s]]
  /\ inflight' = Ready
  /\ attempt' = [s \in Step |-> IF s \in Ready THEN 0 ELSE attempt[s]]
  /\ pc' = "gather"
  /\ UNCHANGED <<sagaStatus, deps, retries, journal, envVars, controls>>

--------------------------------------------------------------------------------
(* exec_step: one POST to execute_url per attempt.  The request can be       *)
(* answered with success; it can be refused (an HTTP error, no effect); or   *)
(* it can time out, and then take effect later or never.                     *)

Executing(s) == pc = "gather" /\ s \in inflight

SetStep(s, st) == stepStatus' = [stepStatus EXCEPT ![s] = st]

ExecSuccess(s) ==
  /\ Executing(s)
  /\ attempt[s] <= retries[s]
  /\ effects' = [effects EXCEPT ![s] = @ + 1]
  /\ SetStep(s, "completed")
  /\ inflight' = inflight \ {s}
  /\ UNCHANGED <<sagaStatus, deps, retries, journal, pc, attempt, undone, late, lateUndo, unsure, controls>>

\* The except branch: sleep and try again, or give the step up as failed.
AfterException(s) ==
  /\ attempt' = [attempt EXCEPT ![s] = @ + 1]
  /\ IF attempt[s] + 1 <= retries[s]
     THEN UNCHANGED <<stepStatus, inflight>>
     ELSE SetStep(s, "failed") /\ inflight' = inflight \ {s}
  /\ UNCHANGED <<sagaStatus, deps, retries, journal, pc, controls>>

ExecRefused(s) ==
  /\ Executing(s)
  /\ attempt[s] <= retries[s]
  /\ AfterException(s)
  /\ UNCHANGED envVars

ExecTimeout(s) ==
  /\ Executing(s)
  /\ attempt[s] <= retries[s]
  /\ AfterException(s)
  /\ late' = [late EXCEPT ![s] = @ + 1]
  /\ unsure' = unsure \union {s}
  /\ UNCHANGED <<effects, undone, lateUndo>>

\* A negative max_retries: the while loop makes no attempt and writes nothing.
ExecNoAttempt(s) ==
  /\ Executing(s)
  /\ attempt[s] > retries[s]
  /\ inflight' = inflight \ {s}
  /\ UNCHANGED <<dbVars, pc, attempt, envVars, controls>>

\* A request the orchestrator stopped waiting for reaches the service.
LateArrival(s) ==
  /\ late[s] > 0
  /\ late' = [late EXCEPT ![s] = @ - 1]
  /\ effects' = [effects EXCEPT ![s] = @ + 1]
  /\ UNCHANGED <<dbVars, runVars, undone, lateUndo, unsure, controls>>

\* Mutated form of GatherDone: a failed member keeps gather from returning.
GatherDoneIfNoneFailed ==
  /\ pc = "gather"
  /\ inflight \union InState("failed") = {}
  /\ pc' = "scan"
  /\ UNCHANGED <<dbVars, inflight, attempt, envVars, controls>>

\* gather returns when its last member has, and run_saga loops.
GatherDone ==
  /\ pc = "gather"
  /\ inflight = {}
  /\ pc' = "scan"
  /\ UNCHANGED <<dbVars, inflight, attempt, envVars, controls>>

--------------------------------------------------------------------------------
(* compensate_saga.  It never looks at sagas.status. *)

\* Mutated forms of Leaves: with failed steps too; with no look at dependents;
\* blocked by any dependent, whether or not it ever ran.
LeavesAndFailed ==
  {s \in InState("completed") \union InState("failed") :
     \A t \in InState("completed") : s \notin deps[t]}
AllAtOnce == InState("completed")
LeavesOfGraph == {s \in InState("completed") : \A t \in Step : s \notin deps[t]}

Leaves ==
  {s \in InState("completed") :
     \A t \in InState("completed") \union InState("compensating") : s \notin deps[t]}

CompDispatch ==
  /\ pc = "compScan"
  /\ Leaves # {}
  /\ stepStatus' = [s \in Step |-> IF s \in Leaves THEN "compensating" ELSE stepStatus[s]]
  /\ inflight' = Leaves
  /\ pc' = "compGather"
  /\ UNCHANGED <<sagaStatus, deps, retries, journal, attempt, envVars, controls>>

\* comp_step: one POST to compensate_url, without raise_for_status and with
\* every exception swallowed, so the step is compensated whatever came back:
\* success, a refusal without effect, or nothing before the timeout.
CompReturns(s) ==
  /\ pc = "compGather"
  /\ s \in inflight
  /\ SetStep(s, "compensated")
  /\ inflight' = inflight \ {s}
  /\ UNCHANGED <<sagaStatus, deps, retries, journal, pc, attempt, effects, late, controls>>

CompSuccess(s) ==
  /\ CompReturns(s)
  /\ undone' = [undone EXCEPT ![s] = @ + 1]
  /\ UNCHANGED <<lateUndo, unsure>>

CompRefused(s) ==
  /\ CompReturns(s)
  /\ unsure' = unsure \union {s}
  /\ UNCHANGED <<undone, lateUndo>>

CompTimeout(s) ==
  /\ CompReturns(s)
  /\ lateUndo' = [lateUndo EXCEPT ![s] = @ + 1]
  /\ unsure' = unsure \union {s}
  /\ UNCHANGED undone

\* A compensation the orchestrator stopped waiting for takes effect.
LateCompensation(s) ==
  /\ lateUndo[s] > 0
  /\ lateUndo' = [lateUndo EXCEPT ![s] = @ - 1]
  /\ undone' = [undone EXCEPT ![s] = @ + 1]
  /\ UNCHANGED <<dbVars, runVars, effects, late, unsure, controls>>

CompGatherDone ==
  /\ pc = "compGather"
  /\ inflight = {}
  /\ pc' = "compScan"
  /\ UNCHANGED <<dbVars, inflight, attempt, envVars, controls>>

CompFinished ==
  /\ pc = "compScan"
  /\ InState("completed") = {}
  /\ LogJournal("compensating", "compensated")
  /\ sagaStatus' = "compensated"
  /\ pc' = "returned"
  /\ UNCHANGED <<stepStatus, deps, retries, inflight, attempt, envVars, controls>>

--------------------------------------------------------------------------------
(* pause_saga and resume_saga: an UPDATE of the saga's row, if there is one,  *)
(* and an INSERT into the journal, whatever the status was.                   *)

SetSagaStatus(st) == sagaStatus' = IF sagaStatus = "none" THEN "none" ELSE st

Control(from, to) ==
  /\ controls < MaxControls
  /\ controls' = controls + 1
  /\ SetSagaStatus(to)
  /\ LogJournal(from, to)
  /\ UNCHANGED <<stepStatus, deps, retries, runVars, envVars>>

PauseSaga == Control("running", "paused")

ResumeSaga == Control("paused", "running")

\* The server dies and comes back.  Startup only creates the tables: no saga
\* is driven again.  A request in flight, of either kind, may still arrive.
WorkerLost ==
  /\ pc' = IF pc \in Running THEN "lost" ELSE pc
  /\ inflight' = {}
  /\ late' = [s \in Step |-> IF pc = "gather" /\ s \in inflight
                                /\ attempt[s] <= retries[s]
                             THEN late[s] + 1 ELSE late[s]]
  /\ lateUndo' = [s \in Step |-> IF pc = "compGather" /\ s \in inflight
                                 THEN lateUndo[s] + 1 ELSE lateUndo[s]]
  /\ unsure' = unsure \union inflight
  /\ UNCHANGED <<stepStatus, deps, retries, attempt, effects, undone>>

Crash ==
  /\ pc \in Running
  /\ WorkerLost
  /\ UNCHANGED <<sagaStatus, journal, controls>>

\* A crash between the two statements of pause or resume.
CrashInControl(to) ==
  /\ controls < MaxControls
  /\ controls' = controls + 1
  /\ sagaStatus \notin {"none", to}
  /\ sagaStatus' = to
  /\ WorkerLost
  /\ UNCHANGED journal

--------------------------------------------------------------------------------
RunSaga == ScanFailed \/ ScanCompleted \/ ScanDispatch \/ GatherDone

CompensateSaga == CompDispatch \/ CompGatherDone \/ CompFinished

ExecStep(s) == ExecSuccess(s) \/ ExecRefused(s) \/ ExecTimeout(s) \/ ExecNoAttempt(s)

CompStep(s) == CompSuccess(s) \/ CompRefused(s) \/ CompTimeout(s)

Next ==
  \/ CreateSaga
  \/ CreateTorn
  \/ RunSaga
  \/ CompensateSaga
  \/ \E s \in Step : \/ ExecStep(s) \/ LateArrival(s)
                      \/ CompStep(s) \/ LateCompensation(s)
  \/ PauseSaga
  \/ ResumeSaga
  \/ Crash
  \/ \E to \in {"paused", "running"} : CrashInControl(to)

Spec == Init /\ [][Next]_vars

\* While the server is up the event loop runs every coroutine whose await is
\* over, and every HTTP call ends, by its timeout at the latest.  Clients, the
\* network's late requests and crashes owe nothing.
Fairness ==
  /\ WF_vars(RunSaga)
  /\ WF_vars(CompensateSaga)
  /\ \A s \in Step : WF_vars(ExecStep(s)) /\ WF_vars(CompStep(s))

FairSpec == Spec /\ Fairness

--------------------------------------------------------------------------------
(* Properties. *)

TypeOK ==
  /\ sagaStatus \in SagaStates
  /\ stepStatus \in [Step -> StepStates]
  /\ deps \in [Step -> SUBSET Step]
  /\ retries \in [Step -> Int]
  /\ journal \in Seq((SagaStates \union {"null"}) \X SagaStates)
  /\ pc \in Running \union {"none", "returned", "lost"}
  /\ inflight \in SUBSET Step
  /\ attempt \in [Step -> Nat]
  /\ effects \in [Step -> Nat]
  /\ undone \in [Step -> Nat]
  /\ late \in [Step -> Nat]
  /\ lateUndo \in [Step -> Nat]
  /\ unsure \in SUBSET Step
  /\ controls \in 0..MaxControls

Logged(st) == \E i \in DOMAIN journal : journal[i][2] = st

\* A step whose call is out, or that is completed or being compensated, rests
\* on completed dependencies only: the forward order, the reverse order of
\* compensation, and that the two never overlap (run_saga, compensate_saga).
DependencyOrder ==
  \A s \in Step :
    s \in inflight \/ stepStatus[s] \in {"completed", "compensating"}
      => deps[s] \subseteq InState("completed")

\* The journal is right about the end of a saga, whatever pauses and resumes
\* did to sagas.status: completed means every step completed, compensated that
\* a step failed and no other is left completed or half undone.
OutcomeIsTrue ==
  /\ Logged("completed") =>
       \A s \in Step : stepStatus[s] \in {"absent", "completed"}
  /\ Logged("compensated") =>
       /\ InState("failed") # {}
       /\ InState("completed") \union InState("compensating") = {}
       /\ inflight = {}

\* A completed step took effect once, a compensated one was undone once, and no
\* other left anything behind, if all its calls were answered.
AnsweredMatchSteps ==
  \A s \in Step \ unsure :
    /\ undone[s] = IF stepStatus[s] = "compensated" THEN 1 ELSE 0
    /\ effects[s] = IF stepStatus[s] \in {"completed", "compensating", "compensated"}
                    THEN 1 ELSE 0

UndoneWasDone == \A s \in Step : undone[s] <= effects[s] /\ undone[s] <= 1

\* Across retries, failures and compensation, the services agree with the steps
\* table about each step whose calls were all answered (exec_step), and even
\* with lost answers a compensation is asked once at most, and only of a step
\* that took effect (comp_step is only given completed steps).
EffectsMatchSteps == AnsweredMatchSteps /\ UndoneWasDone

\* No step starts once another has failed, even in the batch in flight when it
\* failed, nor while the saga is paused (run_saga's checks before dispatch).
NoLateStart ==
  [][\A s \in Step :
       stepStatus[s] # "executing" /\ stepStatus'[s] = "executing"
         => InState("failed") = {} /\ sagaStatus # "paused" /\ ~Logged("compensating")]_vars

\* The inductive invariant behind the properties above: where run_saga is
\* tells what the journal and the steps can hold.
CoroutinePhase ==
  /\ sagaStatus = "none" <=> pc = "none"
  /\ pc = "none" => \A s \in Step : stepStatus[s] = "absent"
  /\ pc \in {"none", "scan", "gather"} => ~Logged("compensating")
  /\ pc \in {"compScan", "compGather"} => Logged("compensating")
  /\ Logged("completed") \/ Logged("compensated") => pc = "returned"
  /\ Logged("compensated") => Logged("compensating")
  /\ Logged("completed") => ~Logged("compensating")

GatherMembers ==
  /\ pc \notin {"gather", "compGather"} => inflight = {}
  /\ pc = "gather" => inflight \subseteq InState("executing")
  /\ pc = "compGather" => InState("compensating") = inflight
  /\ pc = "compScan" => InState("compensating") = {}

StepsFitPhase ==
  /\ ~Logged("compensating") =>
       InState("compensating") \union InState("compensated") = {}
  /\ Logged("compensating") => InState("failed") # {}

SafetyInv ==
  /\ CoroutinePhase
  /\ GatherMembers
  /\ StepsFitPhase
  /\ DependencyOrder
  /\ OutcomeIsTrue

\* What EffectsMatchSteps rests on: a step is asked to compensate once, and the
\* request is then in its service, in the network or nowhere.
EffectsInv ==
  /\ AnsweredMatchSteps
  /\ \A s \in Step \ unsure : late[s] = 0 /\ lateUndo[s] = 0
  /\ \A s \in Step :
       /\ undone[s] + lateUndo[s] \in {0, 1}
       /\ undone[s] + lateUndo[s] = 1 =>
            \/ stepStatus[s] = "compensated"
            \/ stepStatus[s] = "compensating" /\ s \notin inflight
       /\ stepStatus[s] \in {"completed", "compensating", "compensated"}
            => effects[s] >= 1

\* The refinement: what is done is what is completed and not yet compensated,
\* and the phase is read from the journal, which a crash does not lose.
phase ==
  IF Logged("compensated") THEN "rolledBack"
  ELSE IF Logged("completed") THEN "committed"
  ELSE IF Logged("compensating") THEN "backward"
  ELSE IF sagaStatus = "none" THEN "new" ELSE "forward"

Transaction == INSTANCE SagaTransaction WITH
  steps <- Step \ InState("absent"),
  done <- InState("completed") \union InState("compensating")

\* The orchestrator keeps the promise of SagaTransaction.
ImplementsTransaction == Transaction!Spec

\* exec_step left the step executing without one attempt: no call is out for
\* it, and nothing will ever write its row.
NeverAttempted == {s \in InState("executing") : retries[s] < 0 /\ s \notin inflight}

\* A saga that is not paused for ever, and whose server stays up, ends.  The one
\* exception is a saga that waits for a step of negative max_retries, which
\* exec_step never attempts: if no other step fails, run_saga polls for ever.
SagaEnds ==
  \/ <>[](sagaStatus = "paused")
  \/ pc = "scan" ~> \/ pc \in {"returned", "lost"}
                     \/ [](NeverAttempted # {} /\ InState("failed") = {})

\* A failed step leads to a compensated saga, pauses and crashes apart.
FailureIsCompensated ==
  (InState("failed") # {})
    ~> (Logged("compensated") \/ pc = "lost" \/ [](sagaStatus = "paused"))
================================================================================
