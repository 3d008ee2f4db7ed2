---------------------------- MODULE SagaTransaction ----------------------------
(***************************************************************************)
(* What a saga promises to the services it calls, with the scheduler, the  *)
(* retries, the pauses and the database left out.  A saga is a set of      *)
(* steps with dependencies.  It goes forward, doing one step at a time     *)
(* whose dependencies are all done, and ends committed with every step     *)
(* done; or it gives up, undoes one step at a time that no done step       *)
(* depends on, and ends rolled back with nothing left done.                *)
(***************************************************************************)
CONSTANT Step

VARIABLES
  steps,   \* the steps of the submitted saga
  deps,    \* deps[s]: the steps s depends on
  done,    \* the steps done and not undone
  phase    \* "new", "forward", "backward", "committed" or "rolledBack"

vars == <<steps, deps, done, phase>>

Init ==
  /\ steps = {}
  /\ deps = [s \in Step |-> {}]
  /\ done = {}
  /\ phase = "new"

Submit ==
  /\ phase = "new"
  /\ phase' = "forward"
  /\ steps' \in SUBSET Step
  /\ deps' \in [Step -> SUBSET Step]
  /\ UNCHANGED done

Do(s) ==
  /\ phase = "forward"
  /\ s \in steps \ done
  /\ deps[s] \subseteq done
  /\ done' = done \union {s}
  /\ UNCHANGED <<steps, deps, phase>>

Commit ==
  /\ phase = "forward"
  /\ done = steps
  /\ phase' = "committed"
  /\ UNCHANGED <<steps, deps, done>>

GiveUp ==
  /\ phase = "forward"
  /\ done # steps
  /\ phase' = "backward"
  /\ UNCHANGED <<steps, deps, done>>

Undo(s) ==
  /\ phase = "backward"
  /\ s \in done
  /\ \A t \in done : s \notin deps[t]
  /\ done' = done \ {s}
  /\ UNCHANGED <<steps, deps, phase>>

RolledBack ==
  /\ phase = "backward"
  /\ done = {}
  /\ phase' = "rolledBack"
  /\ UNCHANGED <<steps, deps, done>>

Next ==
  \/ Submit
  \/ \E s \in Step : Do(s) \/ Undo(s)
  \/ Commit
  \/ GiveUp
  \/ RolledBack

Spec == Init /\ [][Next]_vars
================================================================================
