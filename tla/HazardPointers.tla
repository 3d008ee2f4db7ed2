---------------------------- MODULE HazardPointers -----------------------------
(***************************************************************************)
(* The hazard pointers of the memory allocator (hazard_pointer.cpp):       *)
(* Acquire, Release, Retire and Reclaim, every atomic access a step.       *)
(*                                                                         *)
(* What protects what is up to the threads that use them, which are        *)
(* external: a reader publishes the object it found in a shared cell and   *)
(* looks at the cell again before it uses it; a writer puts a new object   *)
(* in the cell and retires the old one.                                    *)
(***************************************************************************)
EXTENDS Integers, Sequences, SequencesExt

CONSTANTS
  Object, NoObject,
  User,            \* threads
  Records,         \* MAX_HAZARD_POINTERS: 128 of them
  RetireLimit      \* 32: how many retired objects start a Reclaim

ASSUME HazardAssumption ==
  /\ NoObject \notin Object
  /\ Records \in Nat \ {0} /\ RetireLimit \in Nat \ {0}

VARIABLES
  active, pointer,   \* of each HazardRecord
  retired,           \* retired_list_ of each thread
  freed,             \* objects given to std::free
  cell,              \* the shared cell
  doing              \* where each thread is

hazardVars == <<active, pointer, retired, freed, cell, doing>>

Record == 0 .. Records - 1
Nothing == [op |-> "none", i |-> 0, object |-> NoObject, kept |-> <<>>]
Do(th, what) == doing' = [doing EXCEPT ![th] = what]

HazardInit ==
  /\ active = [i \in Record |-> FALSE]
  /\ pointer = [i \in Record |-> NoObject]
  /\ retired = [th \in User |-> <<>>]
  /\ freed = {}
  /\ cell \in Object
  /\ doing = [th \in User |-> Nothing]

\* Acquire: one exchange per record, in order; with all of them taken the caller
\* gets nothing.
Acquire(th) ==
  LET i == doing[th].i
  IN  /\ doing[th].op = "none" \/ doing[th].op = "acquire"
      /\ IF ~active[i]
         THEN /\ active' = [active EXCEPT ![i] = TRUE]
              /\ Do(th, [Nothing EXCEPT !.op = "look", !.i = i])
         ELSE /\ Do(th, IF i + 1 \in Record THEN [Nothing EXCEPT !.op = "acquire", !.i = i + 1]
                                            ELSE Nothing)
              /\ UNCHANGED active
      /\ UNCHANGED <<pointer, retired, freed, cell>>

\* The reader: look at the cell, publish what it holds, look again, use it.
Look(th) ==
  /\ doing[th].op = "look"
  /\ Do(th, [doing[th] EXCEPT !.op = "publish", !.object = cell])
  /\ UNCHANGED <<active, pointer, retired, freed, cell>>

Publish(th) ==
  /\ doing[th].op = "publish"
  /\ pointer' = [pointer EXCEPT ![doing[th].i] = doing[th].object]
  /\ Do(th, [doing[th] EXCEPT !.op = "again"])
  /\ UNCHANGED <<active, retired, freed, cell>>

LookAgain(th) ==
  /\ doing[th].op = "again"
  /\ Do(th, [doing[th] EXCEPT !.op = IF cell = doing[th].object THEN "use" ELSE "look"])
  /\ UNCHANGED <<active, pointer, retired, freed, cell>>

\* Release: two stores.
ClearPointer(th) ==
  /\ doing[th].op = "use"
  /\ pointer' = [pointer EXCEPT ![doing[th].i] = NoObject]
  /\ Do(th, [doing[th] EXCEPT !.op = "release"])
  /\ UNCHANGED <<active, retired, freed, cell>>

Deactivate(th) ==
  /\ doing[th].op = "release"
  /\ active' = [active EXCEPT ![doing[th].i] = FALSE]
  /\ Do(th, Nothing)
  /\ UNCHANGED <<pointer, retired, freed, cell>>

\* The writer puts an object nobody has retired in the cell, in place of the one
\* there, which it then retires, to its own thread's list.
Replace(th, object) ==
  /\ doing[th] = Nothing
  /\ object \notin freed \union {cell}
  /\ \A u \in User : /\ object \notin Range(retired[u]) \union Range(doing[u].kept)
                     /\ doing[u].op = "retire" => doing[u].object # object
  /\ cell' = object
  /\ Do(th, [Nothing EXCEPT !.op = "retire", !.object = cell])
  /\ UNCHANGED <<active, pointer, retired, freed>>

Retire(th) ==
  /\ doing[th].op = "retire"
  /\ retired' = [retired EXCEPT ![th] = Append(@, doing[th].object)]
  /\ Do(th, IF Len(retired[th]) + 1 >= RetireLimit THEN [Nothing EXCEPT !.op = "scan"] ELSE Nothing)
  /\ UNCHANGED <<active, pointer, freed, cell>>

\* Reclaim: the retired objects in order, and for each the records in order, a
\* load of active and then one of pointer, until one of them holds it.
LastScannedButOne == Records - 2
LastScanned == Records - 1
ScanActive(th) ==
  LET i == doing[th].i
  IN  /\ doing[th].op = "scan"
      /\ Do(th, IF active[i] THEN [doing[th] EXCEPT !.op = "compare"]
                ELSE IF i < LastScanned THEN [doing[th] EXCEPT !.i = i + 1]
                ELSE [doing[th] EXCEPT !.op = "free"])
      /\ UNCHANGED <<active, pointer, retired, freed, cell>>

ScanPointer(th) ==
  LET i == doing[th].i
  IN  /\ doing[th].op = "compare"
      /\ Do(th, IF pointer[i] = Head(retired[th]) THEN [doing[th] EXCEPT !.op = "keep"]
                ELSE IF i < LastScanned THEN [doing[th] EXCEPT !.op = "scan", !.i = i + 1]
                ELSE [doing[th] EXCEPT !.op = "free"])
      /\ UNCHANGED <<active, pointer, retired, freed, cell>>

\* One object decided; after the last, the thread's list is those it kept.
Decide(th) ==
  LET kept == IF doing[th].op = "keep" THEN Append(doing[th].kept, Head(retired[th]))
                                       ELSE doing[th].kept
      last == Len(retired[th]) = 1
  IN  /\ doing[th].op \in {"free", "keep"}
      /\ freed' = IF doing[th].op = "free" THEN freed \union {Head(retired[th])} ELSE freed
      /\ retired' = [retired EXCEPT ![th] = IF last THEN kept ELSE Tail(@)]
      /\ Do(th, IF last THEN Nothing ELSE [Nothing EXCEPT !.op = "scan", !.kept = kept])
      /\ UNCHANGED <<active, pointer, cell>>

HazardNext ==
  \E th \in User :
    \/ Acquire(th) \/ Look(th) \/ Publish(th) \/ LookAgain(th)
    \/ ClearPointer(th) \/ Deactivate(th)
    \/ \E o \in Object : Replace(th, o)
    \/ Retire(th) \/ ScanActive(th) \/ ScanPointer(th) \/ Decide(th)

HazardSpec == HazardInit /\ [][HazardNext]_hazardVars

(***************************************************************************)
(* Properties                                                              *)
(***************************************************************************)
\* No thread uses an object that was freed: a reader that saw its object still in
\* the cell after it published it had published it before any scan for it began,
\* and Reclaim looks at every record, however records come and go meanwhile.
UsedIsNotFreed ==
  \A th \in User : doing[th].op = "use" => doing[th].object \notin freed
===============================================================================
