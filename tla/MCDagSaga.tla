------------------------------- MODULE MCDagSaga -------------------------------
(***************************************************************************)
(* DagSaga on every dependency graph over three steps, the dangling and    *)
(* cyclic ones included.                                                   *)
(***************************************************************************)
EXTENDS DagSaga

CONSTANTS a, b, c, ghost

MCStep == {a, b, c}
MCForeign == {ghost}

OneRetry == [s \in MCStep |-> IF s = a THEN 1 ELSE 0]

\* What a client can post by mistake: max_retries = -1.
NoAttemptForB == [OneRetry EXCEPT ![b] = -1]

Payload(d, r) == [steps |-> MCStep, deps |-> d, retries |-> r]

Fork == [s \in MCStep |-> IF s = a THEN {} ELSE {a}]
Join == [s \in MCStep |-> IF s = c THEN {a, b} ELSE {}]
Chain == [s \in MCStep |-> CASE s = a -> {} [] s = b -> {a} [] s = c -> {b}]

\* Every graph over three steps and an id no step defines, and two payloads
\* with a negative max_retries.
AllPayloads ==
  {Payload(d, OneRetry) : d \in [MCStep -> SUBSET (MCStep \union {ghost})]}
    \union {Payload(Chain, NoAttemptForB), Payload(Fork, NoAttemptForB)}

\* For liveness, three shapes that are attempted as often as the policy says,
\* and two with a step that is never attempted: alone, and beside another.
LivePayloads ==
  {Payload(d, OneRetry) : d \in {Chain, Fork, Join}}
    \union {Payload(Chain, NoAttemptForB), Payload(Fork, NoAttemptForB)}
================================================================================
