---------------------------- MODULE AllocatorProofs ----------------------------
(***************************************************************************)
(* Proofs about the three parts of Allocator, for any threads, blocks,     *)
(* nodes, objects and sizes, and any limits on a cache and a scan.         *)
(***************************************************************************)
EXTENDS Allocator, TLAPS, WellFoundedInduction

--------------------------------------------------------------------------------
(***************************************************************************)
(* The hazard pointers, for any number of records and of retired objects   *)
(* that starts a scan.                                                     *)
(***************************************************************************)
Op == {"none", "acquire", "look", "publish", "again", "use", "release", "retire",
       "scan", "compare", "free", "keep"}

Place == [op : Op, i : Record, object : Object \union {NoObject}, kept : Seq(Object)]

HazardTypeOK ==
  /\ active \in [Record -> BOOLEAN]
  /\ pointer \in [Record -> Object \union {NoObject}]
  /\ retired \in [User -> Seq(Object)]
  /\ freed \subseteq Object
  /\ cell \in Object
  /\ doing \in [User -> Place]

Holding  == {"look", "publish", "again", "use", "release"}
Scanning == {"scan", "compare", "free", "keep"}

\* A record in use belongs to one thread, which finds there what it published.
Records_ ==
  /\ \A th \in User : doing[th].op \in Holding => active[doing[th].i]
  /\ \A th, u \in User : /\ th # u /\ doing[th].op \in Holding /\ doing[u].op \in Holding
                         => doing[th].i # doing[u].i
  /\ \A th \in User : doing[th].op \in {"again", "use"} => pointer[doing[th].i] = doing[th].object
  /\ \A th \in User : doing[th].op \in {"publish", "again", "use", "retire"} =>
                        doing[th].object \in Object

Lacks(s, o) == \A j \in 1 .. Len(s) : s[j] # o

\* What is in the cell has not been retired, by anyone.
Fresh ==
  /\ cell \notin freed
  /\ \A u \in User : /\ Lacks(retired[u], cell) /\ Lacks(doing[u].kept, cell)
                     /\ doing[u].op = "retire" => doing[u].object # cell
                     /\ doing[u].op \in Scanning => retired[u] # <<>>

\* While th uses an object, whoever scans for it has not passed th's record.
Before(u, i) == doing[u].op # "free" /\ (doing[u].op \in {"scan", "compare"} => doing[u].i <= i)

Protected ==
  \A th \in User : doing[th].op = "use" =>
    /\ doing[th].object \notin freed
    /\ \A u \in User :
         doing[u].op \in Scanning /\ Head(retired[u]) = doing[th].object => Before(u, doing[th].i)

HazardInv == HazardTypeOK /\ Records_ /\ Fresh /\ Protected

--------------------------------------------------------------------------------
LEMMA HazardInitial == HazardInit => HazardInv
<1> SUFFICES ASSUME HazardInit PROVE HazardInv
  OBVIOUS
<1>1. 0 \in Record /\ Records \in Nat
  BY HazardAssumption DEF Record
<1>2. HazardTypeOK
  BY <1>1 DEF HazardInit, HazardTypeOK, Nothing, Place, Op
<1>3. Records_ /\ Fresh /\ Protected
  BY DEF HazardInit, Records_, Fresh, Protected, Nothing, Holding, Scanning, Lacks
<1>4. QED
  BY <1>2, <1>3 DEF HazardInv

\* A thread moves to another place, and what it does to its list.
LEMMA Moves ==
  ASSUME HazardTypeOK, NEW th \in User, NEW a, Do(th, a), a \in Place
  PROVE  /\ doing' \in [User -> Place]
         /\ \A u \in User : doing'[u] = IF u = th THEN a ELSE doing[u]
BY DEF Do, HazardTypeOK

LEMMA Typical ==
  ASSUME HazardTypeOK, NEW th \in User
  PROVE  /\ Records \in Nat \ {0} /\ Record = 0 .. Records - 1 /\ NoObject \notin Object
         /\ doing[th] \in Place /\ doing[th].i \in Record /\ doing[th].kept \in Seq(Object)
         /\ doing[th].object \in Object \union {NoObject}
         /\ Nothing \in Place /\ Nothing.op = "none" /\ Nothing.kept = <<>>
         /\ retired[th] \in Seq(Object)
BY HazardAssumption DEF HazardTypeOK, Place, Op, Record, Nothing

LEMMA AcquireStep == ASSUME HazardInv, NEW th \in User, Acquire(th) PROVE HazardInv'
<1> DEFINE i == doing[th].i
           a == IF ~active[i] THEN [Nothing EXCEPT !.op = "look", !.i = i]
                ELSE IF i + 1 \in Record THEN [Nothing EXCEPT !.op = "acquire", !.i = i + 1]
                ELSE Nothing
<1>1. HazardTypeOK /\ Records_ /\ Fresh /\ Protected
  BY DEF HazardInv
<1>2. /\ Do(th, a) /\ doing[th].op \in {"none", "acquire"} /\ UNCHANGED <<pointer, retired, freed, cell>>
      /\ \/ ~active[i] /\ active' = [active EXCEPT ![i] = TRUE]
         \/ active[i] /\ active' = active
  BY DEF Acquire
<1>3. /\ a \in Place /\ a.kept = <<>> /\ a.op \in {"none", "acquire", "look"}
      /\ a.op = "look" => ~active[i] /\ a.i = i
  BY <1>1, Typical DEF Place, Op, Nothing
<1>4. i \in Record /\ active \in [Record -> BOOLEAN]
  BY <1>1, Typical DEF HazardTypeOK
<1> HIDE DEF a, i
<1>5. /\ doing' \in [User -> Place]
      /\ \A u \in User : doing'[u] = IF u = th THEN a ELSE doing[u]
  BY <1>1, <1>2, <1>3, Moves
<1>6. active' \in [Record -> BOOLEAN] /\ \A j \in Record : active[j] => active'[j]
  BY <1>2, <1>4
<1>7. HazardTypeOK'
  BY <1>1, <1>2, <1>5, <1>6 DEF HazardTypeOK
<1>8. Records_'
  <2>1. a.op = "look" => active'[i]
    BY <1>2, <1>3, <1>4
  <2>2. \A u \in User : doing[u].i \in Record
    BY <1>1, Typical
  <2>3. QED
    BY <1>1, <1>2, <1>3, <1>5, <1>6, <2>1, <2>2 DEF Records_, Holding
<1>9. Fresh'
  BY <1>1, <1>2, <1>3, <1>5 DEF Fresh, Scanning, Lacks
<1>10. Protected'
  BY <1>1, <1>2, <1>3, <1>5 DEF Protected, Scanning, Before
<1>11. QED
  BY <1>7, <1>8, <1>9, <1>10 DEF HazardInv

\* Steps of a reader that leave the records' ownership alone.
LEMMA LookStep == ASSUME HazardInv, NEW th \in User, Look(th) PROVE HazardInv'
<1> DEFINE a == [doing[th] EXCEPT !.op = "publish", !.object = cell]
<1>1. HazardTypeOK /\ Records_ /\ Fresh /\ Protected
  BY DEF HazardInv
<1>2. Do(th, a) /\ doing[th].op = "look" /\ UNCHANGED <<active, pointer, retired, freed, cell>>
  BY DEF Look
<1>3. a \in Place /\ a.kept = doing[th].kept /\ a.op = "publish" /\ a.i = doing[th].i /\ a.object = cell /\ cell \in Object
  BY <1>1, Typical DEF Place, Op, HazardTypeOK
<1> HIDE DEF a
<1>4. /\ doing' \in [User -> Place]
      /\ \A u \in User : doing'[u] = IF u = th THEN a ELSE doing[u]
  BY <1>1, <1>2, <1>3, Moves
<1>5. HazardTypeOK'
  BY <1>1, <1>2, <1>4 DEF HazardTypeOK
<1>6. Records_'
  BY <1>1, <1>2, <1>3, <1>4 DEF Records_, Holding
<1>7. Fresh'
  BY <1>1, <1>2, <1>3, <1>4 DEF Fresh, Scanning, Lacks
<1>8. Protected'
  BY <1>1, <1>2, <1>3, <1>4 DEF Protected, Scanning, Before
<1>9. QED
  BY <1>5, <1>6, <1>7, <1>8 DEF HazardInv

LEMMA PublishStep == ASSUME HazardInv, NEW th \in User, Publish(th) PROVE HazardInv'
<1> DEFINE a == [doing[th] EXCEPT !.op = "again"]
<1>1. HazardTypeOK /\ Records_ /\ Fresh /\ Protected
  BY DEF HazardInv
<1>2. /\ Do(th, a) /\ doing[th].op = "publish" /\ UNCHANGED <<active, retired, freed, cell>>
      /\ pointer' = [pointer EXCEPT ![doing[th].i] = doing[th].object]
  BY DEF Publish
<1>3. /\ a \in Place /\ a.kept = doing[th].kept /\ a.op = "again" /\ a.i = doing[th].i
      /\ a.object = doing[th].object
  BY <1>1, Typical DEF Place, Op
<1> HIDE DEF a
<1>4. /\ doing' \in [User -> Place]
      /\ \A u \in User : doing'[u] = IF u = th THEN a ELSE doing[u]
  BY <1>1, <1>2, <1>3, Moves
<1>5. HazardTypeOK'
  BY <1>1, <1>2, <1>4, Typical DEF HazardTypeOK
<1>6. \A j \in Record : pointer'[j] = IF j = doing[th].i THEN doing[th].object ELSE pointer[j]
  BY <1>1, <1>2 DEF HazardTypeOK
<1>7. Records_'
  <2>1. \A u \in User : doing[u].i \in Record
    BY <1>1, Typical
  <2>2. QED
    BY <1>1, <1>2, <1>3, <1>4, <1>6, <2>1 DEF Records_, Holding
<1>8. Fresh'
  BY <1>1, <1>2, <1>3, <1>4 DEF Fresh, Scanning, Lacks
<1>9. Protected'
  BY <1>1, <1>2, <1>3, <1>4 DEF Protected, Scanning, Before
<1>10. QED
  BY <1>5, <1>7, <1>8, <1>9 DEF HazardInv

\* Where the cell still holds the object, it is in no list, and no scan for it began.
LEMMA LookAgainStep == ASSUME HazardInv, NEW th \in User, LookAgain(th) PROVE HazardInv'
<1> DEFINE a == [doing[th] EXCEPT !.op = IF cell = doing[th].object THEN "use" ELSE "look"]
<1>1. HazardTypeOK /\ Records_ /\ Fresh /\ Protected
  BY DEF HazardInv
<1>2. Do(th, a) /\ doing[th].op = "again" /\ UNCHANGED <<active, pointer, retired, freed, cell>>
  BY DEF LookAgain
<1>3. /\ a \in Place /\ a.kept = doing[th].kept /\ a.op \in {"use", "look"} /\ a.i = doing[th].i
      /\ a.object = doing[th].object /\ (a.op = "use" => cell = doing[th].object)
  BY <1>1, Typical DEF Place, Op
<1> HIDE DEF a
<1>4. /\ doing' \in [User -> Place]
      /\ \A u \in User : doing'[u] = IF u = th THEN a ELSE doing[u]
  BY <1>1, <1>2, <1>3, Moves
<1>5. HazardTypeOK'
  BY <1>1, <1>2, <1>4 DEF HazardTypeOK
<1>6. Records_'
  BY <1>1, <1>2, <1>3, <1>4 DEF Records_, Holding
<1>7. Fresh'
  BY <1>1, <1>2, <1>3, <1>4 DEF Fresh, Scanning, Lacks
<1>8. \A u \in User : doing[u].op \in Scanning => Head(retired[u]) # cell
  BY <1>1, Typical DEF Fresh, Lacks
<1>9. Protected'
  BY <1>1, <1>2, <1>3, <1>4, <1>8 DEF Protected, Fresh, Scanning, Before
<1>10. QED
  BY <1>5, <1>6, <1>7, <1>9 DEF HazardInv

LEMMA ClearPointerStep == ASSUME HazardInv, NEW th \in User, ClearPointer(th) PROVE HazardInv'
<1> DEFINE a == [doing[th] EXCEPT !.op = "release"]
<1>1. HazardTypeOK /\ Records_ /\ Fresh /\ Protected
  BY DEF HazardInv
<1>2. /\ Do(th, a) /\ doing[th].op = "use" /\ UNCHANGED <<active, retired, freed, cell>>
      /\ pointer' = [pointer EXCEPT ![doing[th].i] = NoObject]
  BY DEF ClearPointer
<1>3. a \in Place /\ a.kept = doing[th].kept /\ a.op = "release" /\ a.i = doing[th].i
  BY <1>1, Typical DEF Place, Op
<1> HIDE DEF a
<1>4. /\ doing' \in [User -> Place]
      /\ \A u \in User : doing'[u] = IF u = th THEN a ELSE doing[u]
  BY <1>1, <1>2, <1>3, Moves
<1>5. HazardTypeOK'
  BY <1>1, <1>2, <1>4 DEF HazardTypeOK
<1>6. \A j \in Record : j # doing[th].i => pointer'[j] = pointer[j]
  BY <1>1, <1>2 DEF HazardTypeOK
<1>7. Records_'
  <2>1. \A u \in User : doing[u].i \in Record
    BY <1>1, Typical
  <2>2. QED
    BY <1>1, <1>2, <1>3, <1>4, <1>6, <2>1 DEF Records_, Holding
<1>8. Fresh'
  BY <1>1, <1>2, <1>3, <1>4 DEF Fresh, Scanning, Lacks
<1>9. Protected'
  BY <1>1, <1>2, <1>3, <1>4 DEF Protected, Scanning, Before
<1>10. QED
  BY <1>5, <1>7, <1>8, <1>9 DEF HazardInv

LEMMA DeactivateStep == ASSUME HazardInv, NEW th \in User, Deactivate(th) PROVE HazardInv'
<1>1. HazardTypeOK /\ Records_ /\ Fresh /\ Protected
  BY DEF HazardInv
<1>2. /\ Do(th, Nothing) /\ doing[th].op = "release" /\ UNCHANGED <<pointer, retired, freed, cell>>
      /\ active' = [active EXCEPT ![doing[th].i] = FALSE]
  BY DEF Deactivate
<1>3. Nothing \in Place /\ Nothing.op = "none" /\ Nothing.kept = <<>>
  BY <1>1, Typical
<1>4. /\ doing' \in [User -> Place]
      /\ \A u \in User : doing'[u] = IF u = th THEN Nothing ELSE doing[u]
  BY <1>1, <1>2, <1>3, Moves
<1>5. HazardTypeOK'
  BY <1>1, <1>2, <1>4 DEF HazardTypeOK
<1>6. \A j \in Record : j # doing[th].i => active'[j] = active[j]
  BY <1>1, <1>2 DEF HazardTypeOK
<1>7. Records_'
  <2>1. \A u \in User : doing[u].i \in Record
    BY <1>1, Typical
  <2>2. QED
    BY <1>1, <1>2, <1>3, <1>4, <1>6, <2>1 DEF Records_, Holding
<1>8. Fresh'
  BY <1>1, <1>2, <1>3, <1>4 DEF Fresh, Scanning, Lacks
<1>9. Protected'
  BY <1>1, <1>2, <1>3, <1>4 DEF Protected, Scanning, Before
<1>10. QED
  BY <1>5, <1>7, <1>8, <1>9 DEF HazardInv

LEMMA ReplaceStep == ASSUME HazardInv, NEW th \in User, NEW o \in Object, Replace(th, o) PROVE HazardInv'
<1> DEFINE a == [Nothing EXCEPT !.op = "retire", !.object = cell]
<1>1. HazardTypeOK /\ Records_ /\ Fresh /\ Protected
  BY DEF HazardInv
<1>2. /\ Do(th, a) /\ doing[th] = Nothing /\ UNCHANGED <<active, pointer, retired, freed>> /\ cell' = o
      /\ o \notin freed /\ o # cell
      /\ \A u \in User : /\ o \notin Range(retired[u]) \union Range(doing[u].kept)
                         /\ doing[u].op = "retire" => doing[u].object # o
  BY DEF Replace
<1>3. /\ a \in Place /\ a.kept = <<>> /\ a.op = "retire" /\ a.object = cell /\ cell \in Object
  BY <1>1, Typical DEF Place, Op, Nothing, HazardTypeOK
<1>4. Nothing.op = "none"
  BY DEF Nothing
<1> HIDE DEF a
<1>5. /\ doing' \in [User -> Place]
      /\ \A u \in User : doing'[u] = IF u = th THEN a ELSE doing[u]
  BY <1>1, <1>2, <1>3, Moves
<1>6. HazardTypeOK'
  BY <1>1, <1>2, <1>5 DEF HazardTypeOK
<1>7. Records_'
  BY <1>1, <1>2, <1>3, <1>4, <1>5 DEF Records_, Holding
<1>8. \A u \in User : Lacks(retired[u], o) /\ Lacks(doing[u].kept, o)
  BY <1>1, <1>2, Typical DEF Lacks, Range
<1>9. Fresh'
  BY <1>1, <1>2, <1>3, <1>4, <1>5, <1>8 DEF Fresh, Scanning, Lacks
<1>10. Protected'
  BY <1>1, <1>2, <1>3, <1>4, <1>5 DEF Protected, Scanning, Before
<1>11. QED
  BY <1>6, <1>7, <1>9, <1>10 DEF HazardInv

LEMMA RetireStep == ASSUME HazardInv, NEW th \in User, Retire(th) PROVE HazardInv'
<1> DEFINE a == IF Len(retired[th]) + 1 >= RetireLimit THEN [Nothing EXCEPT !.op = "scan"] ELSE Nothing
           list == Append(retired[th], doing[th].object)
<1>1. HazardTypeOK /\ Records_ /\ Fresh /\ Protected
  BY DEF HazardInv
<1>2. /\ Do(th, a) /\ doing[th].op = "retire" /\ UNCHANGED <<active, pointer, freed, cell>>
      /\ retired' = [retired EXCEPT ![th] = list]
  BY DEF Retire
<1>3. a \in Place /\ a.kept = <<>> /\ a.op \in {"none", "scan"} /\ a.i = 0
  BY <1>1, Typical DEF Place, Op, Nothing
<1>4. doing[th].object \in Object /\ doing[th].object # cell /\ Lacks(retired[th], cell)
  BY <1>1, <1>2 DEF Records_, Fresh
<1>5. list \in Seq(Object) /\ list # <<>> /\ Lacks(list, cell)
  BY <1>1, <1>4, Typical DEF Lacks
<1> HIDE DEF a, list
<1>6. /\ doing' \in [User -> Place]
      /\ \A u \in User : doing'[u] = IF u = th THEN a ELSE doing[u]
  BY <1>1, <1>2, <1>3, Moves
<1>7. /\ retired' \in [User -> Seq(Object)]
      /\ \A u \in User : retired'[u] = IF u = th THEN list ELSE retired[u]
  BY <1>1, <1>2, <1>5 DEF HazardTypeOK
<1>8. HazardTypeOK'
  BY <1>1, <1>2, <1>6, <1>7 DEF HazardTypeOK
<1>9. Records_'
  BY <1>1, <1>2, <1>3, <1>6 DEF Records_, Holding
<1>10. Fresh'
  BY <1>1, <1>2, <1>3, <1>5, <1>6, <1>7 DEF Fresh, Scanning, Lacks
<1>11. Protected'
  <2>1. \A u \in User : doing[u].i >= 0
    BY <1>1, Typical
  <2>2. QED
    BY <1>1, <1>2, <1>3, <1>6, <1>7, <2>1 DEF Protected, Scanning, Before
<1>12. QED
  BY <1>8, <1>9, <1>10, <1>11 DEF HazardInv

\* A record that is in use is not passed while it is active and holds the object.
LEMMA ScanActiveStep == ASSUME HazardInv, NEW th \in User, ScanActive(th) PROVE HazardInv'
<1> DEFINE i == doing[th].i
           a == IF active[i] THEN [doing[th] EXCEPT !.op = "compare"]
                ELSE IF i < LastScanned THEN [doing[th] EXCEPT !.i = i + 1]
                ELSE [doing[th] EXCEPT !.op = "free"]
<1>1. HazardTypeOK /\ Records_ /\ Fresh /\ Protected
  BY DEF HazardInv
<1>2. Do(th, a) /\ doing[th].op = "scan" /\ UNCHANGED <<active, pointer, retired, freed, cell>>
  BY DEF ScanActive
<1>0. /\ i \in 0 .. Records - 1 /\ Records \in Nat \ {0} /\ Record = 0 .. Records - 1
      /\ IF i < LastScanned THEN i + 1 \in Record ELSE i = Records - 1
      /\ doing[th] \in Place
  BY <1>1, Typical DEF LastScanned
<1>3. /\ a \in Place /\ a.kept = doing[th].kept
      /\ \/ a.op = "compare" /\ a.i = i
         \/ ~active[i] /\ a.op = "scan" /\ a.i = i + 1
         \/ ~active[i] /\ a.op = "free" /\ i = Records - 1
  <2>1. CASE active[i]
    BY <1>0, <2>1 DEF Place, Op
  <2>2. CASE ~active[i] /\ i < LastScanned
    BY <1>0, <1>2, <2>2 DEF Place, Op
  <2>3. CASE ~active[i] /\ ~(i < LastScanned)
    BY <1>0, <2>3 DEF Place, Op
  <2>4. QED
    BY <2>1, <2>2, <2>3
<1> HIDE DEF a
<1>4. /\ doing' \in [User -> Place]
      /\ \A u \in User : doing'[u] = IF u = th THEN a ELSE doing[u]
  BY <1>1, <1>2, <1>3, Moves
<1>5. HazardTypeOK'
  BY <1>1, <1>2, <1>4 DEF HazardTypeOK
<1>6. Records_'
  BY <1>1, <1>2, <1>3, <1>4 DEF Records_, Holding
<1>7. Fresh'
  BY <1>1, <1>2, <1>3, <1>4 DEF Fresh, Scanning, Lacks
<1>8. Protected'
  <2>1. ASSUME NEW r \in User, doing[r].op = "use", Head(retired[th]) = doing[r].object
        PROVE  a.op # "free" /\ (a.op \in {"scan", "compare"} => a.i <= doing[r].i)
    <3>1. i <= doing[r].i /\ active[doing[r].i]
      BY <1>1, <1>2, <2>1 DEF Protected, Records_, Before, Scanning, Holding
    <3>2. doing[r].i \in 0 .. Records - 1
      BY <1>1, Typical
    <3> HIDE DEF i
    <3>3. QED
      BY <1>0, <1>3, <3>1, <3>2
  <2>2. \A r \in User : doing'[r].op = "use" => r # th
    BY <1>3, <1>4
  <2>3. QED
    BY <1>1, <1>2, <1>4, <2>1, <2>2 DEF Protected, Scanning, Before
<1>9. QED
  BY <1>5, <1>6, <1>7, <1>8 DEF HazardInv

LEMMA ScanPointerStep == ASSUME HazardInv, NEW th \in User, ScanPointer(th) PROVE HazardInv'
<1> DEFINE i == doing[th].i
           a == IF pointer[i] = Head(retired[th]) THEN [doing[th] EXCEPT !.op = "keep"]
                ELSE IF i < LastScanned THEN [doing[th] EXCEPT !.op = "scan", !.i = i + 1]
                ELSE [doing[th] EXCEPT !.op = "free"]
<1>1. HazardTypeOK /\ Records_ /\ Fresh /\ Protected
  BY DEF HazardInv
<1>2. Do(th, a) /\ doing[th].op = "compare" /\ UNCHANGED <<active, pointer, retired, freed, cell>>
  BY DEF ScanPointer
<1>0. /\ i \in 0 .. Records - 1 /\ Records \in Nat \ {0} /\ Record = 0 .. Records - 1
      /\ IF i < LastScanned THEN i + 1 \in Record ELSE i = Records - 1
      /\ doing[th] \in Place
  BY <1>1, Typical DEF LastScanned
<1>3. /\ a \in Place /\ a.kept = doing[th].kept
      /\ \/ a.op = "keep"
         \/ pointer[i] # Head(retired[th]) /\ a.op = "scan" /\ a.i = i + 1
         \/ pointer[i] # Head(retired[th]) /\ a.op = "free" /\ i = Records - 1
  <2>1. CASE pointer[i] = Head(retired[th])
    BY <1>0, <2>1 DEF Place, Op
  <2>2. CASE pointer[i] # Head(retired[th]) /\ i < LastScanned
    BY <1>0, <2>2 DEF Place, Op
  <2>3. CASE pointer[i] # Head(retired[th]) /\ ~(i < LastScanned)
    BY <1>0, <2>3 DEF Place, Op
  <2>4. QED
    BY <2>1, <2>2, <2>3
<1> HIDE DEF a
<1>4. /\ doing' \in [User -> Place]
      /\ \A u \in User : doing'[u] = IF u = th THEN a ELSE doing[u]
  BY <1>1, <1>2, <1>3, Moves
<1>5. HazardTypeOK'
  BY <1>1, <1>2, <1>4 DEF HazardTypeOK
<1>6. Records_'
  BY <1>1, <1>2, <1>3, <1>4 DEF Records_, Holding
<1>7. Fresh'
  BY <1>1, <1>2, <1>3, <1>4 DEF Fresh, Scanning, Lacks
<1>8. Protected'
  <2>1. ASSUME NEW r \in User, doing[r].op = "use", Head(retired[th]) = doing[r].object
        PROVE  a.op # "free" /\ (a.op \in {"scan", "compare"} => a.i <= doing[r].i)
    <3>1. i <= doing[r].i /\ pointer[doing[r].i] = Head(retired[th])
      BY <1>1, <1>2, <2>1 DEF Protected, Records_, Before, Scanning
    <3>2. doing[r].i \in 0 .. Records - 1
      BY <1>1, Typical
    <3> HIDE DEF i
    <3>3. QED
      BY <1>0, <1>3, <3>1, <3>2
  <2>2. \A r \in User : doing'[r].op = "use" => r # th
    BY <1>3, <1>4
  <2>3. QED
    BY <1>1, <1>2, <1>4, <2>1, <2>2 DEF Protected, Scanning, Before
<1>9. QED
  BY <1>5, <1>6, <1>7, <1>8 DEF HazardInv

LEMMA DecideStep == ASSUME HazardInv, NEW th \in User, Decide(th) PROVE HazardInv'
<1> DEFINE kept == IF doing[th].op = "keep" THEN Append(doing[th].kept, Head(retired[th]))
                                            ELSE doing[th].kept
           last == Len(retired[th]) = 1
           a == IF last THEN Nothing ELSE [Nothing EXCEPT !.op = "scan", !.kept = kept]
           list == IF last THEN kept ELSE Tail(retired[th])
<1>1. HazardTypeOK /\ Records_ /\ Fresh /\ Protected
  BY DEF HazardInv
<1>2. /\ Do(th, a) /\ doing[th].op \in {"free", "keep"} /\ UNCHANGED <<active, pointer, cell>>
      /\ retired' = [retired EXCEPT ![th] = list]
      /\ freed' = IF doing[th].op = "free" THEN freed \union {Head(retired[th])} ELSE freed
  BY DEF Decide
<1>3. /\ retired[th] \in Seq(Object) /\ Lacks(retired[th], cell) /\ retired[th] # <<>>
      /\ doing[th].kept \in Seq(Object) /\ Lacks(doing[th].kept, cell)
  BY <1>1, <1>2, Typical DEF Fresh, Scanning
<1>4. Head(retired[th]) \in Object /\ Head(retired[th]) # cell
  BY <1>3 DEF Lacks
<1>5. kept \in Seq(Object) /\ Lacks(kept, cell)
  BY <1>3, <1>4 DEF Lacks
<1>6. list \in Seq(Object) /\ Lacks(list, cell) /\ (~last => list # <<>>)
  <2>1. /\ Tail(retired[th]) \in Seq(Object) /\ Lacks(Tail(retired[th]), cell)
        /\ ~last => Tail(retired[th]) # <<>>
    <3>1. PICK s \in Seq(Object) : s = retired[th]
      BY <1>3
    <3>2. s # <<>> /\ \A j \in 1 .. Len(s) : s[j] # cell
      BY <1>3, <3>1 DEF Lacks
    <3>3. /\ Tail(s) \in Seq(Object) /\ Len(Tail(s)) = Len(s) - 1
          /\ \A j \in 1 .. Len(s) - 1 : Tail(s)[j] = s[j + 1]
      BY <3>2
    <3>4. Lacks(Tail(s), cell)
      BY <3>2, <3>3 DEF Lacks
    <3>5. Len(s) # 1 => Tail(s) # <<>>
      <4>1. Tail(s) = <<>> => Len(Tail(s)) = 0
        <5>1. \A r \in Seq(Object) : r = <<>> => Len(r) = 0
          OBVIOUS
        <5>2. QED
          BY <3>3, <5>1
      <4>2. Len(s) \in Nat
        OBVIOUS
      <4>3. QED
        BY <3>3, <4>1, <4>2
    <3>6. QED
      BY <3>1, <3>3, <3>4, <3>5
  <2> HIDE DEF kept, last
  <2>2. QED
    BY <1>5, <2>1
<1>0. Nothing \in Place /\ Nothing.op = "none" /\ Nothing.kept = <<>> /\ Nothing.i = 0
  BY <1>1, Typical DEF Nothing
<1> HIDE DEF kept, last
<1>7. /\ a \in Place /\ a.op \in {"none", "scan"} /\ a.i = 0 /\ (a.op = "scan" => ~last)
      /\ Lacks(a.kept, cell)
  <2>1. CASE last
    BY <1>0, <2>1 DEF Lacks
  <2>2. CASE ~last
    BY <1>0, <1>5, <2>2 DEF Place, Op
  <2>3. QED
    BY <2>1, <2>2
<1> HIDE DEF a, list
<1>8. /\ doing' \in [User -> Place]
      /\ \A u \in User : doing'[u] = IF u = th THEN a ELSE doing[u]
  BY <1>1, <1>2, <1>7, Moves
<1>9. /\ retired' \in [User -> Seq(Object)] /\ freed' \subseteq Object
      /\ \A u \in User : retired'[u] = IF u = th THEN list ELSE retired[u]
  BY <1>1, <1>2, <1>4, <1>6 DEF HazardTypeOK
<1>10. HazardTypeOK'
  BY <1>1, <1>2, <1>8, <1>9 DEF HazardTypeOK
<1>11. Records_'
  BY <1>1, <1>2, <1>7, <1>8 DEF Records_, Holding
<1>12. Fresh'
  <2>1. cell' \notin freed'
    BY <1>1, <1>2, <1>4 DEF Fresh
  <2>2. QED
    BY <1>1, <1>2, <1>6, <1>7, <1>8, <1>9, <2>1 DEF Fresh, Scanning, last
<1>13. Protected'
  <2>1. \A r \in User : doing[r].op = "use" => doing[r].object \notin freed'
    BY <1>1, <1>2 DEF Protected, Before, Scanning
  <2>2. \A u \in User : doing[u].i >= 0
    BY <1>1, Typical
  <2>3. QED
    BY <1>1, <1>2, <1>7, <1>8, <1>9, <2>1, <2>2 DEF Protected, Scanning, Before
<1>14. QED
  BY <1>10, <1>11, <1>12, <1>13 DEF HazardInv

--------------------------------------------------------------------------------
LEMMA HazardStays == HazardInv /\ UNCHANGED hazardVars => HazardInv'
BY DEF hazardVars, HazardInv, HazardTypeOK, Records_, Fresh, Protected, Before

LEMMA HazardSteps == HazardInv /\ [HazardNext]_hazardVars => HazardInv'
BY HazardStays, AcquireStep, LookStep, PublishStep, LookAgainStep, ClearPointerStep,
   DeactivateStep, ReplaceStep, RetireStep, ScanActiveStep, ScanPointerStep, DecideStep
   DEF HazardNext

\* No thread uses an object that Reclaim freed, whatever threads acquire, release,
\* retire and scan meanwhile (HazardPointerDomain::Acquire, Release, Reclaim).
THEOREM ObjectsInUseStay == Spec => []UsedIsNotFreed
<1>1. Init => HazardInv
  BY HazardInitial DEF Init
<1>2. HazardInv /\ [Next]_vars => HazardInv'
  BY HazardStays, HazardSteps DEF Next, vars
<1>3. HazardInv => UsedIsNotFreed
  BY DEF HazardInv, Protected, UsedIsNotFreed
<1>4. QED
  BY <1>1, <1>2, <1>3, PTL DEF Spec

--------------------------------------------------------------------------------
(***************************************************************************)
(* The thread caches, for any requests and size of a cache.                *)
(***************************************************************************)
\* What the blocks in caches and in use have in common, list[th] being th's cache.
Distinct(list) ==
  \A th, u \in CacheThread : \A i \in 1 .. Len(list[th]), j \in 1 .. Len(list[u]) :
    list[th][i] = list[u][j] => th = u /\ i = j

CachedIn(list, b) == \E th \in CacheThread : \E i \in 1 .. Len(list[th]) : list[th][i] = b

Fit(list, want, cap) ==
  /\ list \in [CacheThread -> Seq(Block)] /\ \A th \in CacheThread : Len(list[th]) <= BinLimit
  /\ want \in [Block -> Nat] /\ cap \in [Block -> Nat]
  /\ Distinct(list)
  /\ \A b \in Block : want[b] > 0 => cap[b] >= want[b] /\ cap[b] >= NodeSize
  /\ \A b \in Block : CachedIn(list, b) => want[b] = 0 /\ cap[b] >= NodeSize
  /\ \A b \in Block : cap[b] > 0 => want[b] > 0 \/ CachedIn(list, b)

HeapType == [capacity : [Block -> Nat], want : [Block -> Nat],
             bin : [CacheThread -> [Class -> Seq(Block)]], count : [CacheThread -> [Class -> Nat]]]

\* Only the bin of the class that Free names ever holds a block.
Lists(h) == [th \in CacheThread |-> h.bin[th][ClassOfFree]]

Good(h) ==
  /\ h \in HeapType
  /\ \A th \in CacheThread, c \in Class :
       /\ h.count[th][c] = Len(h.bin[th][c])
       /\ c # ClassOfFree => h.bin[th][c] = <<>>
  /\ Fit(Lists(h), h.want, h.capacity)

--------------------------------------------------------------------------------
\* The smallest block is a list node, and a block is no smaller than its request.
LEMMA SizesSuffice ==
  ASSUME NEW n \in Nat
  PROVE  SystemSize(n) \in Nat /\ SystemSize(n) >= n /\ SystemSize(n) >= NodeSize
<1>1. \A m \in Nat : Round16(m) \in Nat /\ Round16(m) >= m
  BY DEF Round16
<1>2. QED
  BY <1>1 DEF SystemSize, MaxSmall, NodeSize

LEMMA SmallClass == ASSUME NEW n \in Nat, SizeToClass(n) = ClassOfFree PROVE n <= NodeSize
BY DEF SizeToClass, ClassOfFree, NodeSize

LEMMA ClassesAre == ClassOfFree \in Class /\ \A n \in Nat : SizeToClass(n) \in Class
BY DEF SizeToClass, ClassOfFree, Class

LEMMA Tails_ ==
  ASSUME NEW s \in Seq(Block), s # <<>>
  PROVE  /\ Tail(s) \in Seq(Block) /\ Len(Tail(s)) = Len(s) - 1 /\ Len(s) \in Nat \ {0}
         /\ \A i \in 1 .. Len(s) - 1 : Tail(s)[i] = s[i + 1]
         /\ Head(s) = s[1] /\ Head(s) \in Block
OBVIOUS

\* A table of each thread and class with one entry replaced.
LEMMA Nested_ ==
  ASSUME NEW S, NEW f \in [CacheThread -> [Class -> S]], NEW th \in CacheThread, NEW c \in Class,
         NEW x \in S, NEW g, g = [f EXCEPT ![th] = [f[th] EXCEPT ![c] = x]]
  PROVE  /\ g \in [CacheThread -> [Class -> S]]
         /\ \A u \in CacheThread, d \in Class : g[u][d] = IF u = th /\ d = c THEN x ELSE f[u][d]
<1>1. [f[th] EXCEPT ![c] = x] \in [Class -> S]
  OBVIOUS
<1>2. \A d \in Class : [f[th] EXCEPT ![c] = x][d] = IF d = c THEN x ELSE f[th][d]
  OBVIOUS
<1>3. QED
  BY <1>1, <1>2

\* The block at the head of a cache is handed out.
LEMMA Popped_ ==
  ASSUME NEW list, NEW want, NEW cap, Fit(list, want, cap), NEW th \in CacheThread, list[th] # <<>>,
         NEW n \in Nat, 0 < n, n <= NodeSize
  PROVE  Fit([list EXCEPT ![th] = Tail(@)], [want EXCEPT ![Head(list[th])] = n], cap)
<1> DEFINE l == [list EXCEPT ![th] = Tail(@)]
           w == [want EXCEPT ![Head(list[th])] = n]
           b == Head(list[th])
<1>1. /\ list \in [CacheThread -> Seq(Block)] /\ want \in [Block -> Nat] /\ cap \in [Block -> Nat]
      /\ list[th] \in Seq(Block)
  BY DEF Fit
<1>2. /\ Tail(list[th]) \in Seq(Block) /\ Len(Tail(list[th])) = Len(list[th]) - 1
      /\ Len(list[th]) \in Nat \ {0} /\ b = list[th][1] /\ b \in Block
      /\ \A i \in 1 .. Len(list[th]) - 1 : Tail(list[th])[i] = list[th][i + 1]
  BY <1>1, Tails_
<1>3. /\ l \in [CacheThread -> Seq(Block)] /\ w \in [Block -> Nat]
      /\ \A u \in CacheThread : l[u] = IF u = th THEN Tail(list[th]) ELSE list[u]
      /\ \A x \in Block : w[x] = IF x = b THEN n ELSE want[x]
  BY <1>1, <1>2
<1> HIDE DEF l, w, b
\* Where a block of the new lists was in the old.
<1>4. ASSUME NEW u \in CacheThread, NEW i \in 1 .. Len(l[u])
      PROVE  LET k == IF u = th THEN i + 1 ELSE i
             IN  k \in 1 .. Len(list[u]) /\ l[u][i] = list[u][k] /\ (u = th => k # 1)
  <2>1. CASE u = th
    <3>1. l[u] = Tail(list[th]) /\ i \in 1 .. Len(list[th]) - 1
      BY <1>2, <1>3, <1>4, <2>1
    <3>2. l[u][i] = list[th][i + 1]
      BY <1>2, <3>1
    <3>3. i + 1 \in 1 .. Len(list[th]) /\ i + 1 # 1
      BY <1>2, <3>1
    <3>4. QED
      BY <2>1, <3>2, <3>3
  <2>2. CASE u # th
    BY <1>3, <1>4, <2>2
  <2>3. QED
    BY <2>1, <2>2
<1>5. ASSUME NEW u \in CacheThread PROVE Len(l[u]) <= BinLimit
  <2>1. list[u] \in Seq(Block) /\ Len(list[u]) <= BinLimit
    BY <1>1 DEF Fit
  <2>2. Len(list[u]) \in Nat /\ BinLimit \in Nat
    BY <2>1, CacheAssumption
  <2>3. CASE u = th
    BY <1>2, <1>3, <2>1, <2>2, <2>3
  <2>4. CASE u # th
    BY <1>3, <2>1, <2>4
  <2>5. QED
    BY <2>3, <2>4
<1>6. Distinct(l)
  <2>1. ASSUME NEW u \in CacheThread, NEW v \in CacheThread, NEW i \in 1 .. Len(l[u]), NEW j \in 1 .. Len(l[v]),
               l[u][i] = l[v][j]
        PROVE  u = v /\ i = j
    <3> DEFINE k == IF u = th THEN i + 1 ELSE i
               m == IF v = th THEN j + 1 ELSE j
    <3>1. k \in 1 .. Len(list[u]) /\ m \in 1 .. Len(list[v]) /\ list[u][k] = list[v][m]
      BY <1>4, <2>1
    <3>2. u = v /\ k = m
      <4> HIDE DEF k, m
      <4>1. QED
        BY <3>1 DEF Fit, Distinct
    <3>3. i \in Int /\ j \in Int
      OBVIOUS
    <3>4. QED
      BY <3>2, <3>3
  <2>2. QED
    BY <2>1 DEF Distinct
<1>7. \A x \in Block : CachedIn(l, x) => CachedIn(list, x) /\ x # b
  <2>1. ASSUME NEW u \in CacheThread, NEW i \in 1 .. Len(l[u])
        PROVE  CachedIn(list, l[u][i]) /\ l[u][i] # b
    <3> DEFINE k == IF u = th THEN i + 1 ELSE i
    <3>1. k \in 1 .. Len(list[u]) /\ l[u][i] = list[u][k] /\ (u = th => k # 1)
      BY <1>4, <2>1
    <3> HIDE DEF k
    <3>2. list[u][k] = list[th][1] => u = th /\ k = 1
      BY <1>2, <3>1, SMTT(30) DEF Fit, Distinct
    <3>3. QED
      BY <1>2, <3>1, <3>2 DEF CachedIn
  <2>2. QED
    BY <2>1 DEF CachedIn
<1>8. \A x \in Block : CachedIn(list, x) => CachedIn(l, x) \/ x = b
  <2>1. ASSUME NEW u \in CacheThread, NEW k \in 1 .. Len(list[u]), list[u][k] # b
        PROVE  CachedIn(l, list[u][k])
    <3>1. CASE u # th
      BY <1>3, <3>1 DEF CachedIn
    <3>2. CASE u = th
      <4>1. k - 1 \in 1 .. Len(list[th]) - 1 /\ (k - 1) + 1 = k
        BY <1>2, <2>1, <3>2
      <4>2. k - 1 \in 1 .. Len(l[th]) /\ l[th][k - 1] = list[th][k]
        BY <1>2, <1>3, <4>1
      <4>3. QED
        BY <3>2, <4>2 DEF CachedIn
    <3>3. QED
      BY <3>1, <3>2
  <2>2. QED
    BY <2>1 DEF CachedIn
<1>9. CachedIn(list, b) /\ want[b] = 0 /\ cap[b] >= NodeSize
  <2>1. CachedIn(list, b)
    BY <1>2 DEF CachedIn
  <2>2. QED
    BY <1>2, <2>1 DEF Fit
<1>10. \A x \in Block : w[x] > 0 => cap[x] >= w[x] /\ cap[x] >= NodeSize
  <2>1. cap[b] >= n
    BY <1>1, <1>2, <1>9 DEF NodeSize
  <2>2. QED
    BY <1>3, <1>9, <2>1 DEF Fit
<1>11. \A x \in Block : CachedIn(l, x) => w[x] = 0 /\ cap[x] >= NodeSize
  BY <1>3, <1>7 DEF Fit
<1>12. \A x \in Block : cap[x] > 0 => w[x] > 0 \/ CachedIn(l, x)
  BY <1>3, <1>8 DEF Fit
<1>13. QED
  BY <1>1, <1>3, <1>5, <1>6, <1>10, <1>11, <1>12 DEF Fit, l, w, b

\* A block the system has is handed out.
LEMMA Fresh_ ==
  ASSUME NEW list, NEW want, NEW cap, Fit(list, want, cap), NEW b \in Block, cap[b] = 0,
         NEW n \in Nat, 0 < n, NEW m \in Nat, m >= n, m >= NodeSize
  PROVE  Fit(list, [want EXCEPT ![b] = n], [cap EXCEPT ![b] = m])
<1> DEFINE w == [want EXCEPT ![b] = n]
           c == [cap EXCEPT ![b] = m]
<1>1. /\ w \in [Block -> Nat] /\ c \in [Block -> Nat]
      /\ \A x \in Block : w[x] = (IF x = b THEN n ELSE want[x]) /\ c[x] = IF x = b THEN m ELSE cap[x]
  BY DEF Fit
<1>2. ~CachedIn(list, b)
  BY DEF Fit, NodeSize
<1> HIDE DEF w, c
<1>3. QED
  BY <1>1, <1>2 DEF Fit, w, c

\* A block in use goes to the system.
LEMMA Returned_ ==
  ASSUME NEW list, NEW want, NEW cap, Fit(list, want, cap), NEW b \in Block, want[b] > 0
  PROVE  Fit(list, [want EXCEPT ![b] = 0], [cap EXCEPT ![b] = 0])
<1> DEFINE w == [want EXCEPT ![b] = 0]
           c == [cap EXCEPT ![b] = 0]
<1>1. /\ w \in [Block -> Nat] /\ c \in [Block -> Nat]
      /\ \A x \in Block : w[x] = (IF x = b THEN 0 ELSE want[x]) /\ c[x] = IF x = b THEN 0 ELSE cap[x]
  BY DEF Fit
<1>2. ~CachedIn(list, b)
  BY DEF Fit
<1> HIDE DEF w, c
<1>3. QED
  BY <1>1, <1>2 DEF Fit, w, c

\* A block in use goes to the head of a cache that has room.
LEMMA Pushed_ ==
  ASSUME NEW list, NEW want, NEW cap, Fit(list, want, cap), NEW b \in Block, want[b] > 0,
         NEW th \in CacheThread, Len(list[th]) < BinLimit
  PROVE  Fit([list EXCEPT ![th] = <<b>> \o @], [want EXCEPT ![b] = 0], cap)
<1> DEFINE l == [list EXCEPT ![th] = <<b>> \o @]
           w == [want EXCEPT ![b] = 0]
<1>1. /\ list \in [CacheThread -> Seq(Block)] /\ want \in [Block -> Nat] /\ cap \in [Block -> Nat]
      /\ list[th] \in Seq(Block) /\ Len(list[th]) \in Nat
  BY DEF Fit
<1>2. /\ <<b>> \o list[th] \in Seq(Block) /\ Len(<<b>> \o list[th]) = Len(list[th]) + 1
      /\ (<<b>> \o list[th])[1] = b
      /\ \A i \in 1 .. Len(list[th]) : (<<b>> \o list[th])[i + 1] = list[th][i]
  BY <1>1
<1>3. /\ l \in [CacheThread -> Seq(Block)] /\ w \in [Block -> Nat]
      /\ \A u \in CacheThread : l[u] = IF u = th THEN <<b>> \o list[th] ELSE list[u]
      /\ \A x \in Block : w[x] = IF x = b THEN 0 ELSE want[x]
  BY <1>1, <1>2
<1> HIDE DEF l, w
<1>4. ~CachedIn(list, b) /\ cap[b] >= NodeSize
  BY DEF Fit
\* A block of the new lists is the new one, or was in the old.
<1>5. ASSUME NEW u \in CacheThread, NEW i \in 1 .. Len(l[u])
      PROVE  \/ u = th /\ i = 1 /\ l[u][i] = b
             \/ LET k == IF u = th THEN i - 1 ELSE i
                IN  k \in 1 .. Len(list[u]) /\ l[u][i] = list[u][k]
  <2>1. CASE u = th /\ i # 1
    <3>1. i - 1 \in 1 .. Len(list[th]) /\ (i - 1) + 1 = i
      BY <1>1, <1>2, <1>3, <1>5, <2>1
    <3>2. QED
      BY <1>2, <1>3, <2>1, <3>1
  <2>2. CASE u = th /\ i = 1
    BY <1>2, <1>3, <2>2
  <2>3. CASE u # th
    BY <1>3, <1>5, <2>3
  <2>4. QED
    BY <2>1, <2>2, <2>3
<1>6. \A u \in CacheThread : Len(l[u]) <= BinLimit
  <2>1. BinLimit \in Nat /\ \A u \in CacheThread : Len(list[u]) <= BinLimit
    BY CacheAssumption DEF Fit
  <2>2. QED
    BY <1>1, <1>2, <1>3, <2>1
<1>7. Distinct(l)
  <2>1. ASSUME NEW u \in CacheThread, NEW v \in CacheThread, NEW i \in 1 .. Len(l[u]), NEW j \in 1 .. Len(l[v]),
               l[u][i] = l[v][j]
        PROVE  u = v /\ i = j
    <3> DEFINE k == IF u = th THEN i - 1 ELSE i
               m == IF v = th THEN j - 1 ELSE j
    <3>1. \/ u = th /\ i = 1 /\ l[u][i] = b
          \/ k \in 1 .. Len(list[u]) /\ l[u][i] = list[u][k]
      BY <1>5, <2>1
    <3>2. \/ v = th /\ j = 1 /\ l[v][j] = b
          \/ m \in 1 .. Len(list[v]) /\ l[v][j] = list[v][m]
      BY <1>5, <2>1
    <3>3. i \in Int /\ j \in Int
      OBVIOUS
    <3>4. k = m /\ u = v => i = j
      BY <3>3
    <3> HIDE DEF k, m
    <3>5. \A x \in 1 .. Len(list[u]) : list[u][x] # b
      BY <1>4 DEF CachedIn
    <3>6. \A x \in 1 .. Len(list[v]) : list[v][x] # b
      BY <1>4 DEF CachedIn
    <3>7. k \in 1 .. Len(list[u]) /\ m \in 1 .. Len(list[v]) /\ list[u][k] = list[v][m] => u = v /\ k = m
      BY DEF Fit, Distinct
    <3>8. QED
      BY <2>1, <3>1, <3>2, <3>4, <3>5, <3>6, <3>7
  <2>2. QED
    BY <2>1 DEF Distinct
<1>8. \A x \in Block : CachedIn(l, x) => x = b \/ CachedIn(list, x)
  <2>1. ASSUME NEW u \in CacheThread, NEW i \in 1 .. Len(l[u]), l[u][i] # b
        PROVE  CachedIn(list, l[u][i])
    <3> DEFINE k == IF u = th THEN i - 1 ELSE i
    <3>1. k \in 1 .. Len(list[u]) /\ l[u][i] = list[u][k]
      BY <1>5, <2>1
    <3> HIDE DEF k
    <3>2. QED
      BY <3>1 DEF CachedIn
  <2>2. QED
    BY <2>1 DEF CachedIn
<1>9. CachedIn(l, b)
  <2>1. 1 \in 1 .. Len(l[th]) /\ l[th][1] = b
    BY <1>1, <1>2, <1>3
  <2>2. QED
    BY <2>1 DEF CachedIn
<1>10. \A x \in Block : CachedIn(list, x) => CachedIn(l, x)
  <2>1. ASSUME NEW u \in CacheThread, NEW k \in 1 .. Len(list[u])
        PROVE  CachedIn(l, list[u][k])
    <3>1. CASE u # th
      BY <1>3, <3>1 DEF CachedIn
    <3>2. CASE u = th
      <4>1. k + 1 \in 1 .. Len(l[th]) /\ l[th][k + 1] = list[th][k]
        BY <1>1, <1>2, <1>3, <2>1, <3>2
      <4>2. QED
        BY <3>2, <4>1 DEF CachedIn
    <3>3. QED
      BY <3>1, <3>2
  <2>2. QED
    BY <2>1 DEF CachedIn
<1>11. ASSUME NEW x \in Block, w[x] > 0 PROVE cap[x] >= w[x] /\ cap[x] >= NodeSize
  <2>1. x # b /\ w[x] = want[x]
    BY <1>3, <1>11
  <2>2. QED
    BY <1>11, <2>1 DEF Fit
<1>12. \A x \in Block : CachedIn(l, x) => w[x] = 0 /\ cap[x] >= NodeSize
  BY <1>3, <1>4, <1>8 DEF Fit
<1>13. \A x \in Block : cap[x] > 0 => w[x] > 0 \/ CachedIn(l, x)
  BY <1>3, <1>9, <1>10 DEF Fit
<1>14. QED
  BY <1>1, <1>3, <1>6, <1>7, <1>11, <1>12, <1>13 DEF Fit, l, w

\* A thread's cache goes to the system.
LEMMA Emptied ==
  ASSUME NEW list, NEW want, NEW cap, Fit(list, want, cap), NEW th \in CacheThread,
         NEW l \in [CacheThread -> Seq(Block)], NEW c \in [Block -> Nat],
         l[th] = <<>>, \A u \in CacheThread \ {th} : l[u] = list[u],
         \A x \in Block : (\E i \in 1 .. Len(list[th]) : list[th][i] = x) => c[x] = 0,
         \A x \in Block : ~(\E i \in 1 .. Len(list[th]) : list[th][i] = x) => c[x] = cap[x]
  PROVE  Fit(l, want, c)
<1> DEFINE Held(x) == \E i \in 1 .. Len(list[th]) : list[th][i] = x
<1>1. /\ BinLimit \in Nat /\ Len(l[th]) = 0
      /\ \A u \in CacheThread : list[u] \in Seq(Block) /\ Len(list[u]) <= BinLimit
      /\ want \in [Block -> Nat] /\ cap \in [Block -> Nat]
  BY CacheAssumption DEF Fit
<1>2. \A u \in CacheThread : \A i \in 1 .. Len(l[u]) : u # th /\ l[u] = list[u]
  BY <1>1, SMTT(30)
<1>3. \A u \in CacheThread : Len(l[u]) <= BinLimit
  <2>1. ASSUME NEW u \in CacheThread PROVE l[u] = list[u] \/ Len(l[u]) = 0
    BY <1>1
  <2>2. ASSUME NEW u \in CacheThread, Len(l[u]) = 0 PROVE Len(l[u]) <= BinLimit
    BY <1>1, <2>2
  <2>3. QED
    BY <1>1, <2>1, <2>2
<1>4. ASSUME NEW u \in CacheThread, NEW v \in CacheThread, NEW i \in 1 .. Len(l[u]), NEW j \in 1 .. Len(l[v]),
             l[u][i] = l[v][j]
      PROVE  u = v /\ i = j
  <2>1. l[u] = list[u] /\ l[v] = list[v]
    BY <1>2
  <2>2. i \in 1 .. Len(list[u]) /\ j \in 1 .. Len(list[v]) /\ list[u][i] = list[v][j]
    BY <1>4, <2>1
  <2>3. QED
    BY <2>2 DEF Fit, Distinct
<1>5. ASSUME NEW x \in Block, CachedIn(l, x) PROVE CachedIn(list, x) /\ ~Held(x)
  <2>1. PICK u \in CacheThread : \E i \in 1 .. Len(l[u]) : l[u][i] = x
    BY <1>5 DEF CachedIn
  <2>2. PICK i \in 1 .. Len(l[u]) : l[u][i] = x
    BY <2>1
  <2>3. u # th /\ l[u] = list[u]
    BY <1>2
  <2>4. i \in 1 .. Len(list[u]) /\ list[u][i] = x
    BY <2>2, <2>3
  <2>5. CachedIn(list, x)
    BY <2>4 DEF CachedIn
  <2>6. ~Held(x)
    BY <2>3, <2>4 DEF Fit, Distinct
  <2>7. QED
    BY <2>5, <2>6
<1>6. ASSUME NEW x \in Block, CachedIn(list, x), ~Held(x) PROVE CachedIn(l, x)
  <2>1. PICK u \in CacheThread : \E i \in 1 .. Len(list[u]) : list[u][i] = x
    BY <1>6 DEF CachedIn
  <2>2. u # th
    BY <1>6, <2>1
  <2>3. l[u] = list[u]
    BY <2>2
  <2>4. QED
    BY <2>1, <2>3 DEF CachedIn
<1>7. \A x \in Block : Held(x) => CachedIn(list, x)
  BY DEF CachedIn
<1>8. \A x \in Block : (Held(x) => c[x] = 0) /\ (~Held(x) => c[x] = cap[x])
  OBVIOUS
<1> HIDE DEF Held
<1>9. ASSUME NEW x \in Block, want[x] > 0 PROVE c[x] >= want[x] /\ c[x] >= NodeSize
  <2>1. ~CachedIn(list, x)
    BY <1>9 DEF Fit
  <2>2. c[x] = cap[x]
    BY <1>7, <1>8, <2>1
  <2>3. QED
    BY <1>9, <2>2 DEF Fit
<1>10. ASSUME NEW x \in Block, CachedIn(l, x) PROVE want[x] = 0 /\ c[x] >= NodeSize
  <2>1. c[x] = cap[x] /\ CachedIn(list, x)
    BY <1>5, <1>8, <1>10
  <2>2. QED
    BY <2>1 DEF Fit
<1>11. ASSUME NEW x \in Block, c[x] > 0 PROVE want[x] > 0 \/ CachedIn(l, x)
  <2>1. ~Held(x) /\ cap[x] > 0
    BY <1>8, <1>11
  <2>2. want[x] > 0 \/ CachedIn(list, x)
    BY <2>1 DEF Fit
  <2>3. QED
    BY <1>6, <2>1, <2>2
<1>12. Distinct(l)
  BY <1>4 DEF Distinct
<1>13. QED
  BY <1>1, <1>3, <1>9, <1>10, <1>11, <1>12 DEF Fit

--------------------------------------------------------------------------------
LEMMA TakenGood ==
  ASSUME Good(heap), NEW th \in CacheThread, NEW n \in Request, NEW b \in Block, MayReturn(th, n, b)
  PROVE  Good(Taken(th, n, b)) /\ heap.want[b] = 0 /\ \A x \in Block \ {b} : Taken(th, n, b).want[x] = heap.want[x]
<1> DEFINE c == SizeToClass(n)
           h == Taken(th, n, b)
<1>1. /\ heap \in HeapType /\ Fit(Lists(heap), heap.want, heap.capacity)
      /\ n \in Nat /\ 0 < n /\ c \in Class /\ ClassOfFree \in Class
  BY CacheAssumption, ClassesAre DEF Good
<1>2. /\ heap.want \in [Block -> Nat] /\ heap.capacity \in [Block -> Nat]
      /\ heap.bin \in [CacheThread -> [Class -> Seq(Block)]] /\ heap.count \in [CacheThread -> [Class -> Nat]]
  BY <1>1 DEF HeapType
<1>3. CASE Cached(th, n)
  <2>1. heap.bin[th][c] # <<>> /\ b = Head(heap.bin[th][c])
    BY <1>3 DEF Cached, MayReturn
  <2>2. c = ClassOfFree /\ n <= NodeSize
    <3>1. c = ClassOfFree
      BY <1>1, <2>1 DEF Good
    <3>2. QED
      BY <1>1, <3>1, SmallClass
  <2>3. h = [heap EXCEPT !.want[b] = n, !.bin[th][c] = Tail(@), !.count[th][c] = @ - 1]
    BY <1>3 DEF Taken
  <2> HIDE DEF c, h
  <2>4. /\ h.capacity = heap.capacity /\ h.want = [heap.want EXCEPT ![b] = n]
        /\ h.bin = [heap.bin EXCEPT ![th] = [heap.bin[th] EXCEPT ![c] = Tail(@)]]
        /\ h.count = [heap.count EXCEPT ![th] = [heap.count[th] EXCEPT ![c] = @ - 1]]
        /\ h = [capacity |-> h.capacity, want |-> h.want, bin |-> h.bin, count |-> h.count]
    BY <1>1, <2>3 DEF HeapType
  <2>5. heap.bin[th][c] \in Seq(Block) /\ heap.count[th][c] = Len(heap.bin[th][c])
    BY <1>1, <1>2 DEF Good
  <2>6. /\ Tail(heap.bin[th][c]) \in Seq(Block) /\ Len(heap.bin[th][c]) \in Nat \ {0}
        /\ Len(Tail(heap.bin[th][c])) = Len(heap.bin[th][c]) - 1
    BY <2>1, <2>5, Tails_
  <2>7. /\ h.bin \in [CacheThread -> [Class -> Seq(Block)]]
        /\ \A u \in CacheThread, d \in Class :
             h.bin[u][d] = IF u = th /\ d = c THEN Tail(heap.bin[th][c]) ELSE heap.bin[u][d]
    <3>1. PICK f, g, x, d : f = heap.bin /\ g = h.bin /\ x = Tail(heap.bin[th][c]) /\ d = c
      OBVIOUS
    <3>2. /\ f \in [CacheThread -> [Class -> Seq(Block)]] /\ d \in Class /\ x \in Seq(Block)
          /\ g = [f EXCEPT ![th] = [f[th] EXCEPT ![d] = x]]
      BY <1>1, <1>2, <2>4, <2>6, <3>1
    <3>3. /\ g \in [CacheThread -> [Class -> Seq(Block)]]
          /\ \A u \in CacheThread, e \in Class : g[u][e] = IF u = th /\ e = d THEN x ELSE f[u][e]
      BY <3>2, Nested_
    <3>4. QED
      BY <3>1, <3>3
  <2>8. /\ h.count \in [CacheThread -> [Class -> Nat]]
        /\ \A u \in CacheThread, d \in Class :
             h.count[u][d] = IF u = th /\ d = c THEN heap.count[th][c] - 1 ELSE heap.count[u][d]
    <3>1. heap.count[th][c] - 1 \in Nat
      BY <2>5, <2>6
    <3>2. PICK f, g, x, d : f = heap.count /\ g = h.count /\ x = heap.count[th][c] - 1 /\ d = c
      OBVIOUS
    <3>3. /\ f \in [CacheThread -> [Class -> Nat]] /\ d \in Class /\ x \in Nat
          /\ g = [f EXCEPT ![th] = [f[th] EXCEPT ![d] = x]]
      BY <1>1, <1>2, <2>4, <3>1, <3>2
    <3>4. /\ g \in [CacheThread -> [Class -> Nat]]
          /\ \A u \in CacheThread, e \in Class : g[u][e] = IF u = th /\ e = d THEN x ELSE f[u][e]
      BY <3>3, Nested_
    <3>5. QED
      BY <3>2, <3>4
  <2>9. h \in HeapType
    <3>1. h.want \in [Block -> Nat]
      BY <1>1, <1>2, <2>4
    <3>2. QED
      BY <1>2, <2>4, <2>7, <2>8, <3>1 DEF HeapType
  <2>10. \A u \in CacheThread, d \in Class :
           h.count[u][d] = Len(h.bin[u][d]) /\ (d # ClassOfFree => h.bin[u][d] = <<>>)
    <3>1. ASSUME NEW u \in CacheThread, NEW d \in Class, u = th /\ d = c
          PROVE  h.count[u][d] = Len(h.bin[u][d]) /\ (d # ClassOfFree => h.bin[u][d] = <<>>)
      BY <2>2, <2>5, <2>6, <2>7, <2>8, <3>1
    <3>2. ASSUME NEW u \in CacheThread, NEW d \in Class, ~(u = th /\ d = c)
          PROVE  h.count[u][d] = Len(h.bin[u][d]) /\ (d # ClassOfFree => h.bin[u][d] = <<>>)
      <4>1. h.count[u][d] = heap.count[u][d] /\ h.bin[u][d] = heap.bin[u][d]
        BY <2>7, <2>8, <3>2
      <4>2. QED
        BY <4>1 DEF Good
    <3>3. QED
      BY <3>1, <3>2
  <2>11. Lists(heap)[th] = heap.bin[th][c] /\ Lists(h) = [Lists(heap) EXCEPT ![th] = Tail(@)]
    BY <1>1, <2>2, <2>7 DEF Lists
  <2>12. Fit([Lists(heap) EXCEPT ![th] = Tail(@)], [heap.want EXCEPT ![b] = n], heap.capacity)
    <3>1. PICK l : l = Lists(heap)
      OBVIOUS
    <3>2. Fit(l, heap.want, heap.capacity) /\ l[th] # <<>> /\ Head(l[th]) = b
      BY <1>1, <2>1, <2>11, <3>1
    <3>3. Fit([l EXCEPT ![th] = Tail(@)], [heap.want EXCEPT ![Head(l[th])] = n], heap.capacity)
      BY <1>1, <2>2, <3>2, Popped_
    <3>4. QED
      BY <3>1, <3>2, <3>3
  <2>13. CachedIn(Lists(heap), b)
    <3>1. b = heap.bin[th][c][1] /\ 1 \in 1 .. Len(heap.bin[th][c])
      BY <2>1, <2>5, <2>6, Tails_
    <3>2. QED
      BY <2>11, <3>1 DEF CachedIn
  <2>14. heap.want[b] = 0
    BY <1>1, <2>13 DEF Fit
  <2>15. Good(h)
    BY <2>4, <2>9, <2>10, <2>11, <2>12 DEF Good
  <2>16. QED
    BY <1>2, <2>4, <2>14, <2>15 DEF h
<1>4. CASE ~Cached(th, n)
  <2>1. heap.capacity[b] = 0
    BY <1>4 DEF MayReturn
  <2>2. h = [heap EXCEPT !.want[b] = n, !.capacity[b] = SystemSize(n)]
    BY <1>4 DEF Taken
  <2>3. SystemSize(n) \in Nat /\ SystemSize(n) >= n /\ SystemSize(n) >= NodeSize
    BY <1>1, SizesSuffice
  <2> HIDE DEF c, h
  <2>4. /\ h.want = [heap.want EXCEPT ![b] = n] /\ h.capacity = [heap.capacity EXCEPT ![b] = SystemSize(n)]
        /\ h.bin = heap.bin /\ h.count = heap.count
        /\ h = [capacity |-> h.capacity, want |-> h.want, bin |-> h.bin, count |-> h.count]
    BY <1>1, <2>2 DEF HeapType
  <2>5. h \in HeapType
    <3>1. h.want \in [Block -> Nat] /\ h.capacity \in [Block -> Nat]
      BY <1>1, <1>2, <2>3, <2>4
    <3>2. QED
      BY <1>2, <2>4, <3>1 DEF HeapType
  <2>6. Fit(Lists(heap), h.want, h.capacity)
    <3>1. PICK l : l = Lists(heap)
      OBVIOUS
    <3>2. PICK m : m = SystemSize(n)
      OBVIOUS
    <3>3. Fit(l, [heap.want EXCEPT ![b] = n], [heap.capacity EXCEPT ![b] = m])
      BY <1>1, <2>1, <2>3, <3>1, <3>2, Fresh_
    <3>4. QED
      BY <2>4, <3>1, <3>2, <3>3
  <2>7. Good(h)
    BY <2>4, <2>5, <2>6 DEF Good, Lists
  <2>8. heap.want[b] = 0
    <3>1. heap.want[b] > 0 => heap.capacity[b] >= 64
      BY <1>1 DEF Fit, NodeSize
    <3>2. heap.want[b] \in Nat
      BY <1>2
    <3>3. QED
      BY <2>1, <3>1, <3>2
  <2>9. QED
    BY <1>2, <2>4, <2>7, <2>8 DEF h
<1>5. QED
  BY <1>3, <1>4

LEMMA GivenGood ==
  ASSUME NEW h, Good(h), NEW th \in CacheThread, NEW b \in Block, h.want[b] > 0
  PROVE  Good(Given(h, th, b))
<1> DEFINE c == ClassOfFree
           k == Given(h, th, b)
<1>1. h \in HeapType /\ Fit(Lists(h), h.want, h.capacity) /\ c \in Class
  BY ClassesAre DEF Good
<1>2. /\ h.want \in [Block -> Nat] /\ h.capacity \in [Block -> Nat]
      /\ h.bin \in [CacheThread -> [Class -> Seq(Block)]] /\ h.count \in [CacheThread -> [Class -> Nat]]
  BY <1>1 DEF HeapType
<1>3. /\ h.count[th][c] = Len(h.bin[th][c]) /\ h.bin[th][c] \in Seq(Block) /\ Len(h.bin[th][c]) \in Nat
      /\ Lists(h)[th] = h.bin[th][c]
  BY <1>1, <1>2 DEF Good, Lists
<1>4. CASE h.count[th][c] < BinLimit
  <2>1. k = [[h EXCEPT !.want[b] = 0] EXCEPT !.bin[th][c] = <<b>> \o @, !.count[th][c] = @ + 1]
    BY <1>4 DEF Given
  <2> HIDE DEF c, k
  <2>2. /\ k.capacity = h.capacity /\ k.want = [h.want EXCEPT ![b] = 0]
        /\ k.bin = [h.bin EXCEPT ![th] = [h.bin[th] EXCEPT ![c] = <<b>> \o @]]
        /\ k.count = [h.count EXCEPT ![th] = [h.count[th] EXCEPT ![c] = @ + 1]]
        /\ k = [capacity |-> k.capacity, want |-> k.want, bin |-> k.bin, count |-> k.count]
    BY <1>1, <2>1 DEF HeapType
  <2>3. /\ <<b>> \o h.bin[th][c] \in Seq(Block)
        /\ Len(<<b>> \o h.bin[th][c]) = Len(h.bin[th][c]) + 1
    BY <1>3
  <2>4. /\ k.bin \in [CacheThread -> [Class -> Seq(Block)]]
        /\ \A u \in CacheThread, d \in Class :
             k.bin[u][d] = IF u = th /\ d = c THEN <<b>> \o h.bin[th][c] ELSE h.bin[u][d]
    BY <1>1, <1>2, <2>2, <2>3, Nested_, SMTT(30)
  <2>5. /\ k.count \in [CacheThread -> [Class -> Nat]]
        /\ \A u \in CacheThread, d \in Class :
             k.count[u][d] = IF u = th /\ d = c THEN h.count[th][c] + 1 ELSE h.count[u][d]
    <3>1. h.count[th][c] + 1 \in Nat
      BY <1>3
    <3>2. QED
      BY <1>1, <1>2, <2>2, <3>1, Nested_
  <2>6. k \in HeapType
    <3>1. k.want \in [Block -> Nat]
      BY <1>2, <2>2
    <3>2. QED
      BY <1>2, <2>2, <2>4, <2>5, <3>1 DEF HeapType
  <2>7. \A u \in CacheThread, d \in Class :
          k.count[u][d] = Len(k.bin[u][d]) /\ (d # ClassOfFree => k.bin[u][d] = <<>>)
    <3>1. c = ClassOfFree
      BY DEF c
    <3>2. ASSUME NEW u \in CacheThread, NEW d \in Class, u = th /\ d = c
          PROVE  k.count[u][d] = Len(k.bin[u][d]) /\ (d # ClassOfFree => k.bin[u][d] = <<>>)
      BY <1>3, <2>3, <2>4, <2>5, <3>1, <3>2
    <3>3. ASSUME NEW u \in CacheThread, NEW d \in Class, ~(u = th /\ d = c)
          PROVE  k.count[u][d] = Len(k.bin[u][d]) /\ (d # ClassOfFree => k.bin[u][d] = <<>>)
      <4>1. k.count[u][d] = h.count[u][d] /\ k.bin[u][d] = h.bin[u][d]
        BY <2>4, <2>5, <3>3
      <4>2. QED
        BY <4>1 DEF Good
    <3>4. QED
      BY <3>2, <3>3
  <2>8. Lists(k) = [Lists(h) EXCEPT ![th] = <<b>> \o @]
    <3>1. c = ClassOfFree
      BY DEF c
    <3>2. QED
      BY <1>1, <2>4, <3>1 DEF Lists
  <2>9. Fit([Lists(h) EXCEPT ![th] = <<b>> \o @], [h.want EXCEPT ![b] = 0], h.capacity)
    <3>1. PICK l, w, cap : l = Lists(h) /\ w = h.want /\ cap = h.capacity
      OBVIOUS
    <3>2. Fit(l, w, cap) /\ w[b] > 0 /\ Len(l[th]) < BinLimit
      BY <1>1, <1>3, <1>4, <3>1
    <3>3. Fit([l EXCEPT ![th] = <<b>> \o @], [w EXCEPT ![b] = 0], cap)
      BY <3>2, Pushed_
    <3>4. QED
      BY <3>1, <3>3
  <2>10. QED
    BY <2>2, <2>6, <2>7, <2>8, <2>9 DEF Good, k
<1>5. CASE ~(h.count[th][c] < BinLimit)
  <2>1. k = [[h EXCEPT !.want[b] = 0] EXCEPT !.capacity[b] = 0]
    BY <1>5 DEF Given
  <2> HIDE DEF c, k
  <2>2. /\ k.want = [h.want EXCEPT ![b] = 0] /\ k.capacity = [h.capacity EXCEPT ![b] = 0]
        /\ k.bin = h.bin /\ k.count = h.count
        /\ k = [capacity |-> k.capacity, want |-> k.want, bin |-> k.bin, count |-> k.count]
    BY <1>1, <2>1 DEF HeapType
  <2>3. k \in HeapType
    <3>1. k.want \in [Block -> Nat] /\ k.capacity \in [Block -> Nat]
      BY <1>2, <2>2
    <3>2. QED
      BY <1>2, <2>2, <3>1 DEF HeapType
  <2>4. Fit(Lists(h), k.want, k.capacity)
    <3>1. PICK l, w, cap : l = Lists(h) /\ w = h.want /\ cap = h.capacity
      OBVIOUS
    <3>2. Fit(l, [w EXCEPT ![b] = 0], [cap EXCEPT ![b] = 0])
      BY <1>1, <3>1, Returned_
    <3>3. QED
      BY <2>2, <3>1, <3>2
  <2>5. QED
    BY <2>2, <2>3, <2>4 DEF Good, Lists, k
<1>6. QED
  BY <1>4, <1>5

LEMMA EndGood == ASSUME Good(heap), NEW th \in CacheThread, EndThread(th) PROVE Good(heap')
<1> DEFINE left == UNION {Range(heap.bin[th][c]) : c \in Class}
           k == heap'
<1>1. heap \in HeapType /\ Fit(Lists(heap), heap.want, heap.capacity) /\ ClassOfFree \in Class
  BY ClassesAre DEF Good
<1>2. /\ heap.want \in [Block -> Nat] /\ heap.capacity \in [Block -> Nat]
      /\ heap.bin \in [CacheThread -> [Class -> Seq(Block)]] /\ heap.count \in [CacheThread -> [Class -> Nat]]
  BY <1>1 DEF HeapType
<1>3. k = [heap EXCEPT !.capacity = [b \in Block |-> IF b \in left THEN 0 ELSE @[b]],
                       !.bin[th] = [c \in Class |-> <<>>],
                       !.count[th] = [c \in Class |-> 0]]
  BY DEF EndThread
<1>4. \A b : b \in left <=> \E i \in 1 .. Len(Lists(heap)[th]) : Lists(heap)[th][i] = b
  <2>1. Lists(heap)[th] = heap.bin[th][ClassOfFree] /\ heap.bin[th][ClassOfFree] \in Seq(Block)
    BY <1>1, <1>2 DEF Lists
  <2>2. \A c \in Class : c # ClassOfFree => heap.bin[th][c] = <<>>
    BY DEF Good
  <2>3. Range(<<>>) = {}
    BY DEF Range
  <2>4. \A s \in Seq(Block) : Range(s) = {s[i] : i \in 1 .. Len(s)}
    BY DEF Range
  <2>5. left = Range(heap.bin[th][ClassOfFree])
    BY <1>1, <2>2, <2>3
  <2> HIDE DEF left
  <2>6. QED
    BY <2>1, <2>4, <2>5
<1> HIDE DEF left, k
<1>5. /\ k.want = heap.want
      /\ k.capacity = [b \in Block |-> IF b \in left THEN 0 ELSE heap.capacity[b]]
      /\ k.bin = [heap.bin EXCEPT ![th] = [c \in Class |-> <<>>]]
      /\ k.count = [heap.count EXCEPT ![th] = [c \in Class |-> 0]]
      /\ k = [capacity |-> k.capacity, want |-> k.want, bin |-> k.bin, count |-> k.count]
  BY <1>1, <1>3 DEF HeapType
<1>6. <<>> \in Seq(Block) /\ Len(<<>>) = 0
  OBVIOUS
<1>7. /\ k.bin \in [CacheThread -> [Class -> Seq(Block)]]
      /\ \A u \in CacheThread, d \in Class : k.bin[u][d] = IF u = th THEN <<>> ELSE heap.bin[u][d]
  BY <1>2, <1>5, <1>6
<1>8. /\ k.count \in [CacheThread -> [Class -> Nat]]
      /\ \A u \in CacheThread, d \in Class : k.count[u][d] = IF u = th THEN 0 ELSE heap.count[u][d]
  BY <1>2, <1>5
<1>9. /\ k.capacity \in [Block -> Nat]
      /\ \A b \in Block : k.capacity[b] = IF b \in left THEN 0 ELSE heap.capacity[b]
  BY <1>2, <1>5
<1>10. k \in HeapType
  BY <1>2, <1>5, <1>7, <1>8, <1>9 DEF HeapType
<1>11. \A u \in CacheThread, d \in Class :
         k.count[u][d] = Len(k.bin[u][d]) /\ (d # ClassOfFree => k.bin[u][d] = <<>>)
  BY <1>6, <1>7, <1>8 DEF Good
<1>12. Fit(Lists(k), k.want, k.capacity)
  <2>1. /\ Lists(k) \in [CacheThread -> Seq(Block)]
        /\ \A u \in CacheThread : Lists(k)[u] = IF u = th THEN <<>> ELSE Lists(heap)[u]
    BY <1>1, <1>7 DEF Lists
  <2>2. PICK l, m, cap, c : l = Lists(heap) /\ m = Lists(k) /\ cap = heap.capacity /\ c = k.capacity
    OBVIOUS
  <2>3. /\ Fit(l, heap.want, cap) /\ m \in [CacheThread -> Seq(Block)] /\ c \in [Block -> Nat]
        /\ m[th] = <<>> /\ \A u \in CacheThread \ {th} : m[u] = l[u]
    BY <1>1, <1>9, <2>1, <2>2
  <2>4. \A x \in Block : /\ (\E i \in 1 .. Len(l[th]) : l[th][i] = x) => c[x] = 0
                         /\ ~(\E i \in 1 .. Len(l[th]) : l[th][i] = x) => c[x] = cap[x]
    BY <1>4, <1>9, <2>2
  <2>5. PICK w : w = heap.want
    OBVIOUS
  <2>6. Fit(l, w, cap)
    BY <2>3, <2>5
  <2>7. Fit(m, w, c)
    BY <2>3, <2>4, <2>6, Emptied
  <2>8. QED
    BY <1>5, <2>2, <2>5, <2>7
<1>13. QED
  BY <1>10, <1>11, <1>12 DEF Good, k

--------------------------------------------------------------------------------
LEMMA CacheInitial == CacheInit => Good(heap)
<1> SUFFICES ASSUME CacheInit PROVE Good(heap)
  OBVIOUS
<1>1. /\ heap.capacity = [b \in Block |-> 0] /\ heap.want = [b \in Block |-> 0]
      /\ heap.bin = [th \in CacheThread |-> [c \in Class |-> <<>>]]
      /\ heap.count = [th \in CacheThread |-> [c \in Class |-> 0]]
      /\ heap \in HeapType
  BY DEF CacheInit, HeapType
<1>2. Len(<<>>) = 0 /\ <<>> \in Seq(Block) /\ ClassOfFree \in Class /\ BinLimit \in Nat
  BY ClassesAre, CacheAssumption
<1>3. Lists(heap) = [th \in CacheThread |-> <<>>]
  BY <1>1, <1>2 DEF Lists
<1>4. \A b : ~CachedIn(Lists(heap), b)
  BY <1>2, <1>3 DEF CachedIn
<1>5. Fit(Lists(heap), heap.want, heap.capacity)
  BY <1>1, <1>2, <1>3, <1>4 DEF Fit, Distinct
<1>6. QED
  BY <1>1, <1>2, <1>5 DEF Good

LEMMA CacheSteps == Good(heap) /\ [CacheNext]_cacheVars => Good(heap)'
<1> SUFFICES ASSUME Good(heap), [CacheNext]_cacheVars PROVE Good(heap')
  BY DEF Good, Lists, Fit
<1>1. CASE UNCHANGED cacheVars
  BY <1>1 DEF cacheVars
<1>2. ASSUME NEW th \in CacheThread, NEW n \in Request, NEW b \in Block, Malloc(th, n, b) PROVE Good(heap')
  BY <1>2, TakenGood DEF Malloc
<1>3. ASSUME NEW th \in CacheThread, NEW b \in Block, Free(th, b) PROVE Good(heap')
  BY <1>3, GivenGood DEF Free, InUse
\* The new block is another than the one given back.
<1>4. ASSUME NEW th \in CacheThread, NEW b \in Block, NEW n \in Request, NEW new \in Block,
             Realloc(th, b, n, new)
      PROVE  Good(heap')
  <2>1. PICK h : h = Taken(th, n, new)
    OBVIOUS
  <2>2. heap.want[b] > 0 /\ heap' = Given(h, th, b)
    BY <1>4, <2>1 DEF Realloc, InUse
  <2>3. Good(h) /\ heap.want[new] = 0 /\ \A x \in Block \ {new} : h.want[x] = heap.want[x]
    BY <1>4, <2>1, TakenGood DEF Realloc
  <2>4. h.want[b] > 0
    BY <2>2, <2>3
  <2>5. QED
    BY <2>2, <2>3, <2>4, GivenGood
<1>5. QED
  BY <1>1, <1>2, <1>3, <1>4, EndGood DEF CacheNext

LEMMA CachesStay == Spec => []Good(heap)
<1>1. Init => Good(heap)
  BY CacheInitial DEF Init
<1>2. Good(heap) /\ [Next]_vars => Good(heap)'
  BY CacheSteps DEF Next, vars
<1>3. QED
  BY <1>1, <1>2, PTL DEF Spec

\* A block in use is as large as what was asked for, though Free forgets sizes
\* and Realloc copies a fixed number of bytes (ThreadCache::Allocate, Deallocate).
THEOREM BlocksSuffice == Spec => []BlocksAreLargeEnough
<1>1. Good(heap) => BlocksAreLargeEnough
  <2> SUFFICES ASSUME Good(heap), NEW b \in InUse
               PROVE  heap.capacity[b] >= heap.want[b] /\ heap.capacity[b] >= CopiedSize
    BY DEF BlocksAreLargeEnough
  <2>1. b \in Block /\ heap.want[b] > 0
    BY DEF InUse
  <2>2. heap.capacity[b] \in Nat
    BY <2>1 DEF Good, HeapType
  <2>3. heap.capacity[b] >= heap.want[b] /\ heap.capacity[b] >= 64
    BY <2>1 DEF Good, Fit, NodeSize
  <2>4. QED
    BY <2>2, <2>3 DEF CopiedSize
<1>2. QED
  BY <1>1, CachesStay, PTL

\* No calls, by any threads, hand a block out twice, cache it twice, return it
\* while it is held, or lose it (Malloc, Free, Realloc, ~ThreadCache).
THEOREM OwnersAreUnique == Spec => []BlocksHaveOneOwner
<1>1. Good(heap) => BlocksHaveOneOwner
  <2> SUFFICES ASSUME Good(heap) PROVE BlocksHaveOneOwner
    OBVIOUS
  <2> DEFINE list == Lists(heap)
  <2>1. Fit(list, heap.want, heap.capacity) /\ heap \in HeapType /\ ClassOfFree \in Class /\ BinLimit \in Nat
    BY ClassesAre, CacheAssumption DEF Good
  <2>2. ASSUME NEW p \in Places
        PROVE  /\ p[1] \in CacheThread /\ p[2] = ClassOfFree /\ p[3] \in 1 .. Len(list[p[1]])
               /\ At(p) = list[p[1]][p[3]] /\ p = <<p[1], p[2], p[3]>>
    <3>1. /\ p[1] \in CacheThread /\ p[2] \in Class /\ p[3] \in 1 .. BinLimit
          /\ p[3] <= Len(heap.bin[p[1]][p[2]]) /\ p = <<p[1], p[2], p[3]>>
      BY <2>2 DEF Places
    <3>2. heap.bin[p[1]][p[2]] # <<>> /\ heap.bin[p[1]][p[2]] \in Seq(Block)
      <4>1. heap.bin[p[1]][p[2]] \in Seq(Block)
        BY <2>1, <3>1 DEF HeapType
      <4>2. Len(<<>>) = 0
        OBVIOUS
      <4>3. p[3] > 0
        BY <2>1, <3>1
      <4>4. QED
        BY <2>1, <3>1, <4>1, <4>2, <4>3
    <3>3. p[2] = ClassOfFree
      BY <3>1, <3>2 DEF Good
    <3>4. list[p[1]] = heap.bin[p[1]][p[2]]
      BY <3>1, <3>3 DEF Lists
    <3>5. p[3] \in 1 .. Len(list[p[1]])
      BY <2>1, <3>1, <3>2, <3>4
    <3>6. QED
      BY <3>1, <3>3, <3>4, <3>5 DEF At
  <2>3. ASSUME NEW th \in CacheThread, NEW i \in 1 .. Len(list[th])
        PROVE  \E p \in Places : At(p) = list[th][i]
    <3>1. list[th] = heap.bin[th][ClassOfFree] /\ Len(list[th]) \in Nat /\ Len(list[th]) <= BinLimit
      BY <2>1 DEF Lists, Fit
    <3>2. i \in 1 .. BinLimit /\ i <= Len(heap.bin[th][ClassOfFree])
      BY <2>1, <2>3, <3>1
    <3>3. <<th, ClassOfFree, i>> \in Places
      BY <2>1, <3>2 DEF Places
    <3>4. At(<<th, ClassOfFree, i>>) = list[th][i]
      BY <3>1 DEF At
    <3>5. QED
      BY <3>3, <3>4
  <2> HIDE DEF list
  <2>4. \A b : (\E p \in Places : At(p) = b) <=> CachedIn(list, b)
    BY <2>2, <2>3 DEF CachedIn
  <2>5. \A p, q \in Places : At(p) = At(q) => p = q
    <3> SUFFICES ASSUME NEW p \in Places, NEW q \in Places, At(p) = At(q) PROVE p = q
      OBVIOUS
    <3>1. /\ p[1] \in CacheThread /\ p[2] = ClassOfFree /\ p[3] \in 1 .. Len(list[p[1]])
          /\ At(p) = list[p[1]][p[3]] /\ p = <<p[1], p[2], p[3]>>
      BY <2>2
    <3>2. /\ q[1] \in CacheThread /\ q[2] = ClassOfFree /\ q[3] \in 1 .. Len(list[q[1]])
          /\ At(q) = list[q[1]][q[3]] /\ q = <<q[1], q[2], q[3]>>
      BY <2>2
    <3>3. PICK pt, pi, qt, qi : pt = p[1] /\ pi = p[3] /\ qt = q[1] /\ qi = q[3]
      OBVIOUS
    <3>4. /\ pt \in CacheThread /\ pi \in 1 .. Len(list[pt]) /\ qt \in CacheThread /\ qi \in 1 .. Len(list[qt])
          /\ list[pt][pi] = list[qt][qi]
      BY <3>1, <3>2, <3>3
    <3>5. pt = qt /\ pi = qi
      BY <2>1, <3>4 DEF Fit, Distinct
    <3>6. p[1] = q[1] /\ p[3] = q[3]
      BY <3>3, <3>5
    <3>7. QED
      BY <3>1, <3>2, <3>6
  <2>6. ASSUME NEW b \in Block
        PROVE  /\ heap.capacity[b] > 0 <=> (b \in InUse) # CachedIn(list, b)
               /\ b \in InUse => ~CachedIn(list, b)
    <3>1. heap.want[b] \in Nat /\ heap.capacity[b] \in Nat /\ (b \in InUse <=> heap.want[b] > 0)
      BY <2>1 DEF HeapType, InUse
    <3>2. /\ heap.want[b] > 0 => heap.capacity[b] >= 64
          /\ CachedIn(list, b) => heap.want[b] = 0 /\ heap.capacity[b] >= 64
          /\ heap.capacity[b] > 0 => heap.want[b] > 0 \/ CachedIn(list, b)
      BY <2>1 DEF Fit, NodeSize
    <3>3. CachedIn(list, b) \in BOOLEAN
      BY DEF CachedIn
    <3>4. QED
      BY <3>1, <3>2, <3>3
  <2>7. \A th \in CacheThread, c \in Class :
          heap.count[th][c] = Len(heap.bin[th][c]) /\ heap.count[th][c] <= BinLimit
    <3> SUFFICES ASSUME NEW th \in CacheThread, NEW c \in Class
                 PROVE  heap.count[th][c] = Len(heap.bin[th][c]) /\ heap.count[th][c] <= BinLimit
      OBVIOUS
    <3>1. heap.count[th][c] = Len(heap.bin[th][c])
      BY DEF Good
    <3>2. CASE c = ClassOfFree
      BY <2>1, <3>1, <3>2 DEF Fit, Lists, list
    <3>3. CASE c # ClassOfFree
      <4>1. heap.bin[th][c] = <<>>
        BY <3>3 DEF Good
      <4>2. Len(<<>>) = 0
        OBVIOUS
      <4>3. QED
        BY <2>1, <3>1, <4>1, <4>2
    <3>4. QED
      BY <3>2, <3>3
  <2>8. ASSUME NEW b \in Block
        PROVE  heap.capacity[b] > 0 <=> (b \in InUse) # (\E p \in Places : At(p) = b)
    <3>1. (\E p \in Places : At(p) = b) <=> CachedIn(list, b)
      BY <2>4
    <3>2. CASE CachedIn(list, b)
      <4>1. (\E p \in Places : At(p) = b) = TRUE
        BY <3>1, <3>2
      <4>2. CachedIn(list, b) = TRUE
        BY <3>2 DEF CachedIn
      <4>3. QED
        BY <2>6, <4>1, <4>2
    <3>3. CASE ~CachedIn(list, b)
      <4>1. (\E p \in Places : At(p) = b) = FALSE
        BY <3>1, <3>3
      <4>2. CachedIn(list, b) = FALSE
        BY <3>3 DEF CachedIn
      <4>3. QED
        BY <2>6, <4>1, <4>2
    <3>4. QED
      BY <3>2, <3>3
  <2>9. \A b \in InUse : \A p \in Places : At(p) # b
    <3>1. InUse \subseteq Block
      BY DEF InUse
    <3>2. QED
      BY <2>4, <2>6, <3>1
  <2>10. QED
    BY <2>5, <2>7, <2>8, <2>9 DEF BlocksHaveOneOwner
<1>2. QED
  BY <1>1, CachesStay, PTL

--------------------------------------------------------------------------------
(***************************************************************************)
(* The central free list.  While no outdated link was swapped in, the list *)
(* is some sequence of different nodes, each linked to the next.           *)
(***************************************************************************)
ArenaOp == {"none", "next", "pop", "link", "push"}
Link == FreeNode \union {NullNode}
Chain == {<<>>} \union ChainsOf(FreeNode)
ArenaCall == [op : ArenaOp, seen : Link, link : Link, chain : Chain]

Nodes(c) == {c[i] : i \in 1 .. Len(c)}

\* What a thread does with the list: the node it saw, and the chain it pushes.
CallOK(c) ==
  /\ c \in ArenaCall
  /\ c.op \in {"next", "pop"} => c.seen \in FreeNode
  /\ c.op \in {"link", "push"} <=> c.chain # <<>>

ArenaTypeOK ==
  /\ head \in Link
  /\ next \in [FreeNode -> Link]
  /\ call \in [ArenaThread -> ArenaCall]
  /\ owned \in [ArenaThread -> SUBSET FreeNode]
  /\ outdated \in BOOLEAN
  /\ \A th \in ArenaThread : CallOK(call[th])

\* The nodes of a chain are linked in order, the last one to the head it saw.
Chained(links, c) ==
  /\ Len(c.chain) = 2 => links[c.chain[1]] = c.chain[2]
  /\ c.op = "push" => links[c.chain[Len(c.chain)]] = c.seen

\* The list, from the node first on, is s[1], ..., s[n].
IsStack(first, links, s, n) ==
  /\ n \in Nat /\ s \in [1 .. n -> FreeNode]
  /\ \A i, j \in 1 .. n : s[i] = s[j] => i = j
  /\ first = IF n = 0 THEN NullNode ELSE s[1]
  /\ \A i \in 1 .. n : links[s[i]] = IF i = n THEN NullNode ELSE s[i + 1]

Listed(s, n) == {s[i] : i \in 1 .. n}

\* Each node is listed, or with a thread, and in one way only.
Apart(calls, mine, listed) ==
  /\ \A n \in FreeNode : \/ n \in listed
                         \/ \E th \in ArenaThread : n \in mine[th] \union Nodes(calls[th].chain)
  /\ \A th \in ArenaThread :
       /\ \A n \in mine[th] \union Nodes(calls[th].chain) : n \notin listed
       /\ \A n \in mine[th] : n \notin Nodes(calls[th].chain)
       /\ \A u \in ArenaThread \ {th} : \A n \in mine[th] \union Nodes(calls[th].chain) :
            n \notin mine[u] \union Nodes(calls[u].chain)

Placed(first, links, calls, mine) ==
  /\ \A th \in ArenaThread : Chained(links, calls[th])
  /\ \E n, s :
       IsStack(first, links, s, n) /\ Apart(calls, mine, Listed(s, n))

ArenaInv == ArenaTypeOK /\ (~outdated => Placed(head, next, call, owned))

LEMMA NatSetInduction ==
  ASSUME NEW N \in SUBSET Nat, 0 \in N, \A n \in N : n + 1 \in N
  PROVE  N = Nat
<1> DEFINE R   == OpToRel(<, Nat)
           Bad == Nat \ N
<1> SUFFICES ASSUME Bad # {} PROVE FALSE
  OBVIOUS
<1>1. IsWellFoundedOn(R, Nat)
  BY NatLessThanWellFounded
<1>2. \A m, n \in Nat : m < n => <<m, n>> \in R
  BY DEF OpToRel
<1> HIDE DEF R
<1>3. PICK n \in Bad : \A m \in Bad : <<m, n>> \notin R
  <2>1. Bad \subseteq Nat
    OBVIOUS
  <2> HIDE DEF Bad
  <2>2. QED
    BY <1>1, <2>1, WFMin
<1>4. n # 0 /\ n - 1 \in Nat /\ n - 1 < n /\ n \in Nat
  OBVIOUS
<1>5. n - 1 \in N
  BY <1>2, <1>3, <1>4
<1>6. QED
  BY <1>4, <1>5

\* A chain has one node, or two.
LEMMA ChainFacts ==
  ASSUME NEW S, NEW c \in ChainsOf(S)
  PROVE  /\ c # <<>> /\ Len(c) \in {1, 2}
         /\ c[1] \in S /\ c[Len(c)] \in S
         /\ Nodes(c) = {c[1], c[Len(c)]}
         /\ Len(c) = 2 => c[1] # c[2]
<1>1. CASE c \in {<<m>> : m \in S}
  <2>1. PICK m \in S : c = <<m>>
    BY <1>1
  <2>2. Len(c) = 1 /\ c[1] = m /\ c # <<>>
    BY <2>1
  <2>3. 1 .. 1 = {1}
    OBVIOUS
  <2>4. Nodes(c) = {c[1]}
    BY <2>2, <2>3 DEF Nodes
  <2>5. QED
    BY <2>2, <2>4
<1>2. CASE c \in {d \in S \X S : d[1] # d[2]}
  <2>1. PICK a \in S, b \in S : c = <<a, b>> /\ a # b
    BY <1>2
  <2>2. Len(c) = 2 /\ c[1] = a /\ c[2] = b /\ c # <<>>
    BY <2>1
  <2>3. 1 .. 2 = {1, 2}
    OBVIOUS
  <2>4. Nodes(c) = {c[1], c[2]}
    BY <2>2, <2>3 DEF Nodes
  <2>5. QED
    BY <2>1, <2>2, <2>4
<1>3. QED
  BY <1>1, <1>2 DEF ChainsOf

LEMMA NoNodes == Nodes(<<>>) = {}
<1>1. Len(<<>>) = 0 /\ 1 .. 0 = {}
  OBVIOUS
<1>2. QED
  BY <1>1 DEF Nodes

LEMMA ChainsGrow == ASSUME NEW S \in SUBSET FreeNode, NEW c \in ChainsOf(S) PROVE c \in ChainsOf(FreeNode)
BY DEF ChainsOf

\* A link that is not on the list may change.
LEMMA StackSame ==
  ASSUME NEW first, NEW links, NEW l, NEW s, NEW n, IsStack(first, links, s, n),
         \A m \in Listed(s, n) : l[m] = links[m]
  PROVE  IsStack(first, l, s, n)
<1>1. \A i \in 1 .. n : s[i] \in Listed(s, n)
  BY DEF Listed
<1>2. QED
  BY <1>1 DEF IsStack

\* The first node is taken off the list.
LEMMA StackPopped ==
  ASSUME NEW first, NEW links, NEW s, NEW n, IsStack(first, links, s, n), first # NullNode
  PROVE  /\ first \in Listed(s, n)
         /\ \E t \in [1 .. n - 1 -> FreeNode] :
              /\ n - 1 \in Nat /\ IsStack(links[first], links, t, n - 1)
              /\ Listed(t, n - 1) = Listed(s, n) \ {first}
<1> DEFINE t == [i \in 1 .. n - 1 |-> s[i + 1]]
<1>1. /\ n \in Nat /\ n # 0 /\ s \in [1 .. n -> FreeNode] /\ first = s[1]
      /\ \A i, j \in 1 .. n : s[i] = s[j] => i = j
      /\ \A i \in 1 .. n : links[s[i]] = IF i = n THEN NullNode ELSE s[i + 1]
  BY DEF IsStack
<1>2. n - 1 \in Nat /\ 1 \in 1 .. n /\ \A i \in 1 .. n - 1 : i + 1 \in 1 .. n /\ i + 1 # 1 /\ i \in Int
  BY <1>1
<1>3. t \in [1 .. n - 1 -> FreeNode] /\ \A i \in 1 .. n - 1 : t[i] = s[i + 1]
  BY <1>1, <1>2
<1> HIDE DEF t
<1>4. \A i, j \in 1 .. n - 1 : t[i] = t[j] => i = j
  <2> SUFFICES ASSUME NEW i \in 1 .. n - 1, NEW j \in 1 .. n - 1, t[i] = t[j] PROVE i = j
    OBVIOUS
  <2>1. s[i + 1] = s[j + 1] /\ i + 1 \in 1 .. n /\ j + 1 \in 1 .. n
    BY <1>2, <1>3
  <2>2. i + 1 = j + 1
    BY <1>1, <2>1
  <2>3. QED
    BY <1>2, <2>2
<1>5. links[first] = IF n - 1 = 0 THEN NullNode ELSE t[1]
  <2>1. CASE n = 1
    BY <1>1, <1>2, <2>1
  <2>2. CASE n # 1
    <3>1. 1 \in 1 .. n - 1 /\ n - 1 # 0
      BY <1>1, <2>2
    <3>2. t[1] = s[2]
      BY <1>3, <3>1
    <3>3. links[s[1]] = s[2]
      BY <1>1, <1>2, <2>2
    <3>4. QED
      BY <1>1, <3>1, <3>2, <3>3
  <2>3. QED
    BY <2>1, <2>2
<1>6. ASSUME NEW i \in 1 .. n - 1
      PROVE  links[t[i]] = IF i = n - 1 THEN NullNode ELSE t[i + 1]
  <2>1. links[s[i + 1]] = IF i + 1 = n THEN NullNode ELSE s[(i + 1) + 1]
    BY <1>1, <1>2
  <2>2. t[i] = s[i + 1] /\ (i = n - 1 <=> i + 1 = n)
    BY <1>1, <1>2, <1>3
  <2>3. i # n - 1 => i + 1 \in 1 .. n - 1
    BY <1>1, <1>2
  <2>4. i # n - 1 => t[i + 1] = s[(i + 1) + 1]
    BY <1>3, <2>3
  <2>5. QED
    BY <2>1, <2>2, <2>4
<1>7. IsStack(links[first], links, t, n - 1)
  BY <1>2, <1>3, <1>4, <1>5, <1>6 DEF IsStack
<1>8. first \in Listed(s, n)
  BY <1>1, <1>2 DEF Listed
<1>9. Listed(t, n - 1) = Listed(s, n) \ {first}
  <2>1. ASSUME NEW i \in 1 .. n - 1 PROVE t[i] \in Listed(s, n) /\ t[i] # first
    BY <1>1, <1>2, <1>3 DEF Listed
  <2>2. ASSUME NEW i \in 1 .. n, s[i] # first PROVE s[i] \in Listed(t, n - 1)
    <3>1. i - 1 \in 1 .. n - 1 /\ (i - 1) + 1 = i
      BY <1>1, <2>2
    <3>2. t[i - 1] = s[i]
      BY <1>3, <3>1
    <3>3. QED
      BY <3>1, <3>2 DEF Listed
  <2>3. QED
    BY <2>1, <2>2 DEF Listed
<1>10. QED
  BY <1>2, <1>3, <1>7, <1>8, <1>9

\* A node that is not on the list, linked to its first, is put before it.
LEMMA StackPushed ==
  ASSUME NEW first, NEW links, NEW s, NEW n, IsStack(first, links, s, n),
         NEW a \in FreeNode, a \notin Listed(s, n), links[a] = first
  PROVE  \E t \in [1 .. n + 1 -> FreeNode] :
           /\ n + 1 \in Nat /\ IsStack(a, links, t, n + 1)
           /\ Listed(t, n + 1) = Listed(s, n) \union {a}
<1> DEFINE t == [i \in 1 .. n + 1 |-> IF i = 1 THEN a ELSE s[i - 1]]
<1>1. /\ n \in Nat /\ s \in [1 .. n -> FreeNode]
      /\ \A i, j \in 1 .. n : s[i] = s[j] => i = j
      /\ first = IF n = 0 THEN NullNode ELSE s[1]
      /\ \A i \in 1 .. n : links[s[i]] = IF i = n THEN NullNode ELSE s[i + 1]
  BY DEF IsStack
<1>2. n + 1 \in Nat /\ 1 \in 1 .. n + 1 /\ \A i \in 1 .. n + 1 : i \in Int /\ (i # 1 => i - 1 \in 1 .. n)
  BY <1>1
<1>3. t \in [1 .. n + 1 -> FreeNode] /\ \A i \in 1 .. n + 1 : t[i] = IF i = 1 THEN a ELSE s[i - 1]
  BY <1>1, <1>2
<1> HIDE DEF t
<1>4. \A i \in 1 .. n : s[i] # a
  BY DEF Listed
<1>5. \A i, j \in 1 .. n + 1 : t[i] = t[j] => i = j
  <2> SUFFICES ASSUME NEW i \in 1 .. n + 1, NEW j \in 1 .. n + 1, t[i] = t[j] PROVE i = j
    OBVIOUS
  <2>1. CASE i = 1 \/ j = 1
    BY <1>2, <1>3, <1>4, <2>1
  <2>2. CASE i # 1 /\ j # 1
    <3>1. s[i - 1] = s[j - 1] /\ i - 1 \in 1 .. n /\ j - 1 \in 1 .. n
      BY <1>2, <1>3, <2>2
    <3>2. i - 1 = j - 1
      BY <1>1, <3>1
    <3>3. QED
      BY <1>2, <3>2
  <2>3. QED
    BY <2>1, <2>2
<1>6. a = IF n + 1 = 0 THEN NullNode ELSE t[1]
  BY <1>1, <1>2, <1>3
<1>7. ASSUME NEW i \in 1 .. n + 1
      PROVE  links[t[i]] = IF i = n + 1 THEN NullNode ELSE t[i + 1]
  <2>1. i # n + 1 => i + 1 \in 1 .. n + 1 /\ i + 1 # 1 /\ (i + 1) - 1 = i
    BY <1>1, <1>2
  <2>2. i # n + 1 => t[i + 1] = s[i]
    BY <1>3, <2>1
  <2>3. CASE i = 1
    <3>1. t[i] = a /\ (i = n + 1 <=> n = 0)
      BY <1>1, <1>2, <1>3, <2>3
    <3>2. QED
      BY <1>1, <2>2, <2>3, <3>1
  <2>4. CASE i # 1
    <3>1. i - 1 \in 1 .. n /\ t[i] = s[i - 1] /\ (i = n + 1 <=> i - 1 = n) /\ (i - 1) + 1 = i
      BY <1>1, <1>2, <1>3, <2>4
    <3>2. links[s[i - 1]] = IF i - 1 = n THEN NullNode ELSE s[(i - 1) + 1]
      BY <1>1, <3>1
    <3>3. QED
      BY <2>2, <3>1, <3>2
  <2>5. QED
    BY <2>3, <2>4
<1>8. IsStack(a, links, t, n + 1)
  BY <1>2, <1>3, <1>5, <1>6, <1>7 DEF IsStack
<1>9. Listed(t, n + 1) = Listed(s, n) \union {a}
  <2>1. ASSUME NEW i \in 1 .. n + 1 PROVE t[i] \in Listed(s, n) \union {a}
    BY <1>2, <1>3 DEF Listed
  <2>2. ASSUME NEW i \in 1 .. n PROVE s[i] \in Listed(t, n + 1)
    <3>1. i + 1 \in 1 .. n + 1 /\ i + 1 # 1 /\ (i + 1) - 1 = i
      BY <1>1
    <3>2. t[i + 1] = s[i]
      BY <1>3, <3>1
    <3>3. QED
      BY <3>1, <3>2 DEF Listed
  <2>3. a \in Listed(t, n + 1)
    BY <1>2, <1>3 DEF Listed
  <2>4. QED
    BY <2>1, <2>2, <2>3 DEF Listed
<1>10. QED
  BY <1>2, <1>3, <1>8, <1>9

\* What is reached from the head by the links is what is listed.
LEMMA StackIsListed ==
  ASSUME NEW s, NEW n, IsStack(head, next, s, n)
  PROVE  InStack = Listed(s, n)
<1>1. /\ n \in Nat /\ s \in [1 .. n -> FreeNode] /\ NullNode \notin FreeNode
      /\ head = IF n = 0 THEN NullNode ELSE s[1]
      /\ \A i \in 1 .. n : next[s[i]] = IF i = n THEN NullNode ELSE s[i + 1]
  BY ArenaAssumption DEF IsStack
<1>2. Listed(s, n) \in SUBSET FreeNode
  BY <1>1 DEF Listed
<1>3. head # NullNode => head \in Listed(s, n)
  <2>1. n # 0 => 1 \in 1 .. n
    BY <1>1
  <2>2. QED
    BY <1>1, <2>1 DEF Listed
<1>4. \A m \in Listed(s, n) : next[m] # NullNode => next[m] \in Listed(s, n)
  <2>1. ASSUME NEW i \in 1 .. n, next[s[i]] # NullNode PROVE next[s[i]] \in Listed(s, n)
    <3>1. i # n /\ next[s[i]] = s[i + 1]
      BY <1>1, <2>1
    <3>2. i + 1 \in 1 .. n
      BY <1>1, <3>1
    <3>3. QED
      BY <3>1, <3>2 DEF Listed
  <2>2. QED
    BY <2>1 DEF Listed
<1>5. ASSUME NEW S \in SUBSET FreeNode, head # NullNode => head \in S,
             \A m \in S : next[m] # NullNode => next[m] \in S,
             NEW k \in 1 .. n
      PROVE  s[k] \in S
  <2> DEFINE N == {i \in Nat : i + 1 <= n => s[i + 1] \in S}
  <2>1. 0 \in N
    <3>1. 1 <= n => head = s[1] /\ s[1] \in FreeNode
      BY <1>1
    <3>2. 1 <= n => s[1] \in S
      BY <1>1, <1>5, <3>1
    <3>3. QED
      BY <3>2
  <2>2. ASSUME NEW i \in N PROVE i + 1 \in N
    <3>1. i \in Nat /\ i + 1 \in Nat /\ (i + 1 <= n => s[i + 1] \in S)
      OBVIOUS
    <3>2. ASSUME (i + 1) + 1 <= n PROVE s[(i + 1) + 1] \in S
      <4>1. i + 1 \in 1 .. n /\ (i + 1) + 1 \in 1 .. n /\ i + 1 # n /\ i + 1 <= n
        BY <1>1, <3>1, <3>2
      <4>2. next[s[i + 1]] = s[(i + 1) + 1] /\ s[(i + 1) + 1] \in FreeNode
        BY <1>1, <4>1
      <4>3. QED
        BY <1>1, <1>5, <3>1, <4>1, <4>2
    <3>3. QED
      BY <3>1, <3>2
  <2>3. N \in SUBSET Nat
    OBVIOUS
  <2> HIDE DEF N
  <2>4. N = Nat
    BY <2>1, <2>2, <2>3, NatSetInduction
  <2>5. k - 1 \in N /\ (k - 1) + 1 = k /\ k <= n
    BY <1>1, <2>4
  <2>6. QED
    BY <2>5 DEF N
<1>6. ASSUME NEW m \in Listed(s, n) PROVE m \in InStack
  <2>1. PICK k \in 1 .. n : m = s[k]
    BY <1>6 DEF Listed
  <2>2. m \in FreeNode
    BY <1>2, <1>6
  <2>3. QED
    BY <1>5, <2>1, <2>2 DEF InStack
<1>7. ASSUME NEW m \in InStack PROVE m \in Listed(s, n)
  BY <1>2, <1>3, <1>4, <1>7 DEF InStack
<1>8. QED
  BY <1>6, <1>7

LEMMA ArenaInitial == ArenaInit => ArenaInv
<1> SUFFICES ASSUME ArenaInit PROVE ArenaInv
  OBVIOUS
<1>1. PICK x \in ArenaThread : owned = [u \in ArenaThread |-> IF u = x THEN FreeNode ELSE {}]
  BY DEF ArenaInit
<1>2. Returned \in ArenaCall /\ CallOK(Returned) /\ Returned.op = "none" /\ Returned.chain = <<>>
  BY DEF Returned, ArenaCall, ArenaOp, Link, Chain, CallOK
<1>3. /\ head = NullNode /\ next = [n \in FreeNode |-> NullNode] /\ outdated = FALSE
      /\ call = [th \in ArenaThread |-> Returned] /\ \A th \in ArenaThread : call[th] = Returned
  BY DEF ArenaInit
<1>4. ArenaTypeOK
  BY <1>1, <1>2, <1>3 DEF ArenaTypeOK, Link
<1>5. \A th \in ArenaThread : Chained(next, call[th])
  <2>1. Len(<<>>) = 0
    OBVIOUS
  <2>2. QED
    BY <1>2, <1>3, <2>1 DEF Chained
<1>6. IsStack(head, next, <<>>, 0) /\ <<>> \in [1 .. 0 -> FreeNode] /\ Listed(<<>>, 0) = {}
  BY <1>3 DEF IsStack, Listed
<1>7. Apart(call, owned, {})
  BY <1>1, <1>2, <1>3, NoNodes DEF Apart
<1>8. 0 \in Nat
  OBVIOUS
<1>9. QED
  BY <1>4, <1>5, <1>6, <1>7, <1>8 DEF ArenaInv, Placed

\* What is known of a thread that has a call.
LEMMA CallFacts ==
  ASSUME ArenaTypeOK, NEW th \in ArenaThread
  PROVE  /\ call[th] \in ArenaCall /\ call[th].op \in ArenaOp
         /\ call[th].seen \in Link /\ call[th].link \in Link /\ call[th].chain \in Chain
         /\ call[th].op \in {"next", "pop"} => call[th].seen \in FreeNode /\ call[th].chain = <<>>
         /\ call[th].op \in {"link", "push"} => call[th].chain \in ChainsOf(FreeNode)
         /\ call[th].op \notin {"link", "push"} => call[th].chain = <<>>
BY DEF ArenaTypeOK, CallOK, ArenaCall, Chain

\* A thread that has returned, or loads a link, has no chain.
LEMMA PopFromFacts ==
  ASSUME NEW node \in Link
  PROVE  /\ CallOK(Returned) /\ CallOK(PopFrom(node))
         /\ Returned.chain = <<>> /\ PopFrom(node).chain = <<>>
         /\ Returned.op = "none" /\ PopFrom(node).op \in {"none", "next"}
BY DEF Returned, PopFrom, ArenaCall, ArenaOp, Link, Chain, CallOK

\* A thread goes from one call to another with the same chain and links.
LEMMA CallMoves ==
  ASSUME ArenaInv, NEW th \in ArenaThread, NEW c, CallOK(c), c.chain = call[th].chain, c.op # "push",
         call' = [call EXCEPT ![th] = c], UNCHANGED <<head, next, owned, outdated>>
  PROVE  ArenaInv'
<1>1. call' \in [ArenaThread -> ArenaCall] /\ \A u \in ArenaThread : call'[u] = IF u = th THEN c ELSE call[u]
  BY DEF ArenaInv, ArenaTypeOK, CallOK
<1>2. ArenaTypeOK'
  BY <1>1 DEF ArenaInv, ArenaTypeOK
<1>3. ASSUME ~outdated PROVE Placed(head, next, call', owned)
  <2>1. Placed(head, next, call, owned)
    BY <1>3 DEF ArenaInv
  <2>2. PICK n, s :
          IsStack(head, next, s, n) /\ Apart(call, owned, Listed(s, n))
    BY <2>1 DEF Placed
  <2>3. \A u \in ArenaThread : call'[u].chain = call[u].chain
    BY <1>1
  <2>4. \A u \in ArenaThread : Chained(next, call'[u])
    BY <1>1, <2>1 DEF Placed, Chained
  <2>5. \A u \in ArenaThread : Nodes(call'[u].chain) = Nodes(call[u].chain)
    BY <2>3
  <2>6. Apart(call', owned, Listed(s, n))
    BY <2>2, <2>5 DEF Apart
  <2>7. QED
    BY <2>2, <2>4, <2>6 DEF Placed
<1>4. QED
  BY <1>2, <1>3 DEF ArenaInv

LEMMA StartPopStep == ASSUME ArenaInv, NEW th \in ArenaThread, StartPop(th) PROVE ArenaInv'
<1>1. head \in Link /\ call[th].chain = <<>>
  BY PopFromFacts DEF ArenaInv, ArenaTypeOK, StartPop, Returned
<1>2. CallOK(PopFrom(head)) /\ PopFrom(head).chain = <<>> /\ PopFrom(head).op # "push"
  BY <1>1, PopFromFacts
<1>3. call' = [call EXCEPT ![th] = PopFrom(head)] /\ UNCHANGED <<head, next, owned, outdated>>
  BY DEF StartPop
<1>4. QED
  BY <1>1, <1>2, <1>3, CallMoves

LEMMA LoadNextStep == ASSUME ArenaInv, NEW th \in ArenaThread, LoadNext(th) PROVE ArenaInv'
<1> DEFINE c == [call[th] EXCEPT !.op = "pop", !.link = next[call[th].seen]]
<1>1. ArenaTypeOK /\ call[th].op = "next"
  BY DEF ArenaInv, LoadNext
<1>2. call[th] \in ArenaCall /\ call[th].seen \in FreeNode /\ call[th].chain = <<>>
  BY <1>1, CallFacts
<1>3. next[call[th].seen] \in Link
  BY <1>1, <1>2 DEF ArenaTypeOK
<1>4. CallOK(c) /\ c.chain = <<>> /\ c.op # "push"
  BY <1>2, <1>3 DEF CallOK, ArenaCall, ArenaOp
<1>5. call' = [call EXCEPT ![th] = c] /\ UNCHANGED <<head, next, owned, outdated>>
  BY <1>1, <1>2 DEF LoadNext, ArenaTypeOK, ArenaCall
<1> HIDE DEF c
<1>6. QED
  BY <1>2, <1>4, <1>5, CallMoves

LEMMA RetryPopStep == ASSUME ArenaInv, NEW th \in ArenaThread, RetryPop(th) PROVE ArenaInv'
<1>1. ArenaTypeOK /\ call[th].op = "pop" /\ head \in Link
  BY DEF ArenaInv, RetryPop, ArenaTypeOK
<1>2. call[th].chain = <<>>
  BY <1>1, CallFacts
<1>3. CallOK(PopFrom(head)) /\ PopFrom(head).chain = <<>> /\ PopFrom(head).op # "push"
  BY <1>1, PopFromFacts
<1>4. call' = [call EXCEPT ![th] = PopFrom(head)] /\ UNCHANGED <<head, next, owned, outdated>>
  BY DEF RetryPop
<1>5. QED
  BY <1>2, <1>3, <1>4, CallMoves

LEMMA RetryPushStep == ASSUME ArenaInv, NEW th \in ArenaThread, RetryPush(th) PROVE ArenaInv'
<1> DEFINE c == [call[th] EXCEPT !.op = "link", !.seen = head]
<1>1. ArenaTypeOK /\ call[th].op = "push" /\ head \in Link
  BY DEF ArenaInv, ArenaTypeOK, RetryPush
<1>2. call[th] \in ArenaCall /\ call[th].chain \in ChainsOf(FreeNode)
  BY <1>1, CallFacts
<1>3. call[th].chain # <<>>
  BY <1>2, ChainFacts
<1>4. CallOK(c) /\ c.chain = call[th].chain /\ c.op # "push"
  BY <1>1, <1>2, <1>3 DEF CallOK, ArenaCall, ArenaOp
<1>5. call' = [call EXCEPT ![th] = c] /\ UNCHANGED <<head, next, owned, outdated>>
  BY <1>1, <1>2 DEF RetryPush, ArenaTypeOK, ArenaCall
<1> HIDE DEF c
<1>6. QED
  BY <1>4, <1>5, CallMoves

\* The node that was seen is still first, and its link, if it is still the one
\* that was loaded, is put in its place.
LEMMA PoppedStep == ASSUME ArenaInv, NEW th \in ArenaThread, Popped(th) PROVE ArenaInv'
<1> DEFINE node == call[th].seen
<1>1. /\ ArenaTypeOK /\ call[th].op = "pop" /\ head = node /\ head' = call[th].link
      /\ owned' = [owned EXCEPT ![th] = @ \union {node}] /\ UNCHANGED next
      /\ outdated' = (outdated \/ call[th].link # next[node])
      /\ call' = [call EXCEPT ![th] = Returned]
  BY DEF ArenaInv, Popped
<1>2. node \in FreeNode /\ call[th].link \in Link /\ call[th].chain = <<>>
  BY <1>1, CallFacts
<1>3. CallOK(Returned) /\ Returned.chain = <<>> /\ Returned.op = "none" /\ Returned \in ArenaCall
  <2>1. NullNode \in Link
    BY DEF Link
  <2>2. QED
    BY <2>1, PopFromFacts DEF CallOK
<1> HIDE DEF node
<1>4. /\ call' \in [ArenaThread -> ArenaCall]
      /\ \A u \in ArenaThread : call'[u] = IF u = th THEN Returned ELSE call[u]
  BY <1>1, <1>3 DEF ArenaTypeOK
<1>5. /\ owned' \in [ArenaThread -> SUBSET FreeNode]
      /\ \A u \in ArenaThread : owned'[u] = IF u = th THEN owned[th] \union {node} ELSE owned[u]
  BY <1>1, <1>2 DEF ArenaTypeOK
<1>6. ArenaTypeOK'
  BY <1>1, <1>2, <1>3, <1>4, <1>5 DEF ArenaTypeOK
<1>7. ASSUME ~outdated' PROVE Placed(head', next, call', owned')
  <2>1. ~outdated /\ call[th].link = next[node]
    BY <1>1, <1>7
  <2>2. Placed(head, next, call, owned)
    BY <2>1 DEF ArenaInv
  <2>3. PICK n, s :
          IsStack(head, next, s, n) /\ Apart(call, owned, Listed(s, n))
    BY <2>2 DEF Placed
  <2>4. head # NullNode
    BY <1>1, <1>2, ArenaAssumption
  <2>5. PICK t \in [1 .. n - 1 -> FreeNode] :
          /\ n - 1 \in Nat /\ IsStack(head', next, t, n - 1)
          /\ Listed(t, n - 1) = Listed(s, n) \ {node} /\ node \in Listed(s, n)
    BY <1>1, <2>1, <2>3, <2>4, StackPopped
  <2>6. \A u \in ArenaThread : call'[u].chain = call[u].chain /\ Chained(next, call'[u])
    BY <1>2, <1>3, <1>4, <2>2 DEF Placed, Chained
  <2>7. \A u \in ArenaThread : Nodes(call'[u].chain) = Nodes(call[u].chain)
    BY <2>6
  <2>8. Apart(call', owned', Listed(t, n - 1))
    BY <1>5, <2>3, <2>5, <2>7 DEF Apart
  <2>9. QED
    BY <2>5, <2>6, <2>8 DEF Placed
<1>8. QED
  BY <1>1, <1>6, <1>7 DEF ArenaInv

\* The nodes of the chain are linked and leave the thread's own.
LEMMA StartPushStep ==
  ASSUME ArenaInv, NEW th \in ArenaThread, NEW c \in ChainsOf(owned[th]), StartPush(th, c)
  PROVE  ArenaInv'
<1> DEFINE d == [op |-> "link", seen |-> head, link |-> NullNode, chain |-> c]
<1>1. /\ ArenaTypeOK /\ call[th] = Returned /\ owned[th] \in SUBSET FreeNode /\ UNCHANGED <<head, outdated>>
      /\ owned' = [owned EXCEPT ![th] = @ \ Nodes(c)] /\ call' = [call EXCEPT ![th] = d]
  BY DEF ArenaInv, ArenaTypeOK, StartPush, Nodes
<1>2. /\ c # <<>> /\ Len(c) \in {1, 2} /\ c[1] \in owned[th] /\ c[Len(c)] \in owned[th]
      /\ Nodes(c) = {c[1], c[Len(c)]} /\ (Len(c) = 2 => c[1] # c[2]) /\ c \in ChainsOf(FreeNode)
  BY <1>1, ChainFacts, ChainsGrow
<1>3. Returned.chain = <<>> /\ CallOK(d) /\ d.chain = c /\ d.op = "link" /\ d \in ArenaCall
  BY <1>1, <1>2 DEF Returned, CallOK, ArenaCall, ArenaOp, Link, Chain, ArenaTypeOK
<1>4. next' = [n \in FreeNode |-> IF Len(c) = 2 /\ n = c[1] THEN c[2] ELSE next[n]]
  <2> DEFINE I == 1 .. Len(c) - 1
  <2>1. next' = [n \in FreeNode |-> IF \E i \in I : c[i] = n THEN c[(CHOOSE i \in I : c[i] = n) + 1] ELSE next[n]]
    BY DEF StartPush
  <2>2. CASE Len(c) = 1
    <3>1. I = {}
      BY <2>2
    <3> HIDE DEF I
    <3>2. QED
      BY <2>1, <2>2, <3>1
  <2>3. CASE Len(c) = 2
    <3>1. I = {1}
      BY <2>3
    <3> HIDE DEF I
    <3>2. \A n : c[1] = n => (CHOOSE i \in I : c[i] = n) = 1
      BY <3>1
    <3>3. \A n : (\E i \in I : c[i] = n) <=> n = c[1]
      BY <3>1
    <3>4. 1 + 1 = 2
      OBVIOUS
    <3>5. \A n : n = c[1] => c[(CHOOSE i \in I : c[i] = n) + 1] = c[2]
      BY <3>2, <3>4
    <3>6. QED
      BY <2>1, <2>3, <3>3, <3>5
  <2>4. QED
    BY <1>2, <2>2, <2>3
<1> HIDE DEF d
<1>5. /\ call' \in [ArenaThread -> ArenaCall]
      /\ \A u \in ArenaThread : call'[u] = IF u = th THEN d ELSE call[u]
  BY <1>1, <1>3 DEF ArenaTypeOK
<1>6. /\ owned' \in [ArenaThread -> SUBSET FreeNode]
      /\ \A u \in ArenaThread : owned'[u] = IF u = th THEN owned[th] \ Nodes(c) ELSE owned[u]
  BY <1>1 DEF ArenaTypeOK
<1>7. next' \in [FreeNode -> Link] /\ \A n \in FreeNode : n # c[1] => next'[n] = next[n]
  BY <1>1, <1>2, <1>4 DEF ArenaTypeOK, Link
<1>8. ArenaTypeOK'
  BY <1>1, <1>3, <1>5, <1>6, <1>7 DEF ArenaTypeOK
<1>9. ASSUME ~outdated PROVE Placed(head, next', call', owned')
  <2>1. Placed(head, next, call, owned)
    BY <1>9 DEF ArenaInv
  <2>2. PICK n, s :
          IsStack(head, next, s, n) /\ Apart(call, owned, Listed(s, n))
    BY <2>1 DEF Placed
  <2>3. /\ \A m \in owned[th] : m \notin Listed(s, n)
        /\ \A u \in ArenaThread : c[1] \notin Nodes(call[u].chain)
    BY <1>2, <2>2 DEF Apart
  <2>4. Listed(s, n) \subseteq FreeNode
    BY <2>2 DEF IsStack, Listed
  <2>5. \A m \in Listed(s, n) : next'[m] = next[m]
    BY <1>2, <1>7, <2>3, <2>4
  <2>6. IsStack(head, next', s, n)
    BY <2>2, <2>5, StackSame
  <2>7. ASSUME NEW u \in ArenaThread PROVE Chained(next', call'[u])
    <3>1. CASE u = th
      <4>1. Len(c) = 2 => next'[c[1]] = c[2]
        BY <1>1, <1>2, <1>4
      <4>2. QED
        BY <1>3, <1>5, <3>1, <4>1 DEF Chained
    <3>2. CASE u # th
      <4>1. call'[u] = call[u] /\ Chained(next, call[u])
        BY <1>5, <2>1, <3>2 DEF Placed
      <4>2. CASE call[u].chain = <<>>
        <5>1. call[u].op # "push" /\ Len(<<>>) = 0
          BY <1>1, <4>2 DEF ArenaTypeOK, CallOK
        <5>2. QED
          BY <4>1, <4>2, <5>1 DEF Chained
      <4>3. CASE call[u].chain \in ChainsOf(FreeNode)
        <5> DEFINE e == call[u].chain
        <5>1. e[1] \in FreeNode /\ e[Len(e)] \in FreeNode /\ Nodes(e) = {e[1], e[Len(e)]}
          BY <4>3, ChainFacts
        <5>2. next'[e[1]] = next[e[1]] /\ next'[e[Len(e)]] = next[e[Len(e)]]
          BY <1>7, <2>3, <5>1
        <5>3. QED
          BY <4>1, <5>2 DEF Chained
      <4>4. QED
        BY <1>1, <4>2, <4>3 DEF ArenaTypeOK, ArenaCall, Chain
    <3>3. QED
      BY <3>1, <3>2
  <2>8. Nodes(call'[th].chain) = Nodes(c) /\ Nodes(call[th].chain) = {} /\ Nodes(c) \subseteq owned[th]
    BY <1>1, <1>2, <1>3, <1>5, NoNodes
  <2>9. \A u \in ArenaThread : u # th => Nodes(call'[u].chain) = Nodes(call[u].chain) /\ owned'[u] = owned[u]
    BY <1>5, <1>6
  <2>10. owned'[th] = owned[th] \ Nodes(c)
    BY <1>6
  <2>11. \A u \in ArenaThread : owned'[u] \union Nodes(call'[u].chain) = owned[u] \union Nodes(call[u].chain)
    BY <2>8, <2>9, <2>10
  <2>12. \A u \in ArenaThread : \A m \in owned'[u] : m \notin Nodes(call'[u].chain)
    BY <2>2, <2>8, <2>9, <2>10 DEF Apart
  <2>13. Apart(call', owned', Listed(s, n))
    BY <2>2, <2>11, <2>12 DEF Apart
  <2>14. QED
    BY <2>2, <2>6, <2>7, <2>13 DEF Placed
<1>10. QED
  BY <1>1, <1>8, <1>9 DEF ArenaInv

\* The last node of the chain is linked to the head that was seen.
LEMMA LinkTailStep == ASSUME ArenaInv, NEW th \in ArenaThread, LinkTail(th) PROVE ArenaInv'
<1> DEFINE c == call[th].chain
           last == c[Len(c)]
           d == [call[th] EXCEPT !.op = "push"]
<1>1. /\ ArenaTypeOK /\ call[th].op = "link" /\ UNCHANGED <<head, owned, outdated>>
      /\ next' = [next EXCEPT ![last] = call[th].seen]
  BY DEF ArenaInv, LinkTail
<1>2. /\ c \in ChainsOf(FreeNode) /\ call[th].seen \in Link /\ call[th] \in ArenaCall
  BY <1>1, CallFacts
<1>3. /\ c # <<>> /\ Len(c) \in {1, 2} /\ c[1] \in FreeNode /\ last \in FreeNode
      /\ Nodes(c) = {c[1], last} /\ (Len(c) = 2 => c[1] # c[2])
  BY <1>2, ChainFacts
<1>4. call' = [call EXCEPT ![th] = d]
  BY <1>1, <1>2 DEF LinkTail, ArenaTypeOK, ArenaCall
<1>5. CallOK(d) /\ d.chain = c /\ d.op = "push" /\ d.seen = call[th].seen /\ d \in ArenaCall
  BY <1>2, <1>3 DEF CallOK, ArenaCall, ArenaOp
<1>6. next' \in [FreeNode -> Link] /\ \A m \in FreeNode : next'[m] = IF m = last THEN call[th].seen ELSE next[m]
  BY <1>1, <1>2, <1>3 DEF ArenaTypeOK
<1> HIDE DEF d
<1>7. /\ call' \in [ArenaThread -> ArenaCall]
      /\ \A u \in ArenaThread : call'[u] = IF u = th THEN d ELSE call[u]
  BY <1>1, <1>4, <1>5 DEF ArenaTypeOK
<1>8. ArenaTypeOK'
  BY <1>1, <1>5, <1>6, <1>7 DEF ArenaTypeOK
<1>9. ASSUME ~outdated PROVE Placed(head, next', call', owned)
  <2>1. Placed(head, next, call, owned)
    BY <1>9 DEF ArenaInv
  <2>2. PICK n, s :
          IsStack(head, next, s, n) /\ Apart(call, owned, Listed(s, n))
    BY <2>1 DEF Placed
  <2>3. last \notin Listed(s, n) /\ \A u \in ArenaThread \ {th} : last \notin Nodes(call[u].chain)
    BY <1>3, <2>2 DEF Apart
  <2>4. Listed(s, n) \subseteq FreeNode
    BY <2>2 DEF IsStack, Listed
  <2>5. \A m \in Listed(s, n) : next'[m] = next[m]
    BY <1>6, <2>3, <2>4
  <2>6. IsStack(head, next', s, n)
    BY <2>2, <2>5, StackSame
  <2>7. ASSUME NEW u \in ArenaThread PROVE Chained(next', call'[u])
    <3>1. CASE u = th
      <4>1. Len(c) = 2 => next[c[1]] = c[2]
        BY <2>1 DEF Placed, Chained
      <4>2. Len(c) = 2 => next'[c[1]] = c[2]
        BY <1>3, <1>6, <4>1
      <4>3. next'[last] = call[th].seen
        BY <1>3, <1>6
      <4>4. QED
        BY <1>5, <1>7, <3>1, <4>2, <4>3 DEF Chained
    <3>2. CASE u # th
      <4>1. call'[u] = call[u] /\ Chained(next, call[u])
        BY <1>7, <2>1, <3>2 DEF Placed
      <4>2. CASE call[u].chain = <<>>
        <5>1. call[u].op # "push" /\ Len(<<>>) = 0
          BY <1>1, <4>2 DEF ArenaTypeOK, CallOK
        <5>2. QED
          BY <4>1, <4>2, <5>1 DEF Chained
      <4>3. CASE call[u].chain \in ChainsOf(FreeNode)
        <5> DEFINE e == call[u].chain
        <5>1. e[1] \in FreeNode /\ e[Len(e)] \in FreeNode /\ Nodes(e) = {e[1], e[Len(e)]}
          BY <4>3, ChainFacts
        <5>2. next'[e[1]] = next[e[1]] /\ next'[e[Len(e)]] = next[e[Len(e)]]
          BY <1>6, <2>3, <3>2, <5>1
        <5>3. QED
          BY <4>1, <5>2 DEF Chained
      <4>4. QED
        BY <1>1, <4>2, <4>3 DEF ArenaTypeOK, ArenaCall, Chain
    <3>3. QED
      BY <3>1, <3>2
  <2>8. \A u \in ArenaThread : Nodes(call'[u].chain) = Nodes(call[u].chain)
    BY <1>5, <1>7
  <2>9. Apart(call', owned, Listed(s, n))
    BY <2>2, <2>8 DEF Apart
  <2>10. QED
    BY <2>2, <2>6, <2>7, <2>9 DEF Placed
<1>10. QED
  BY <1>1, <1>8, <1>9 DEF ArenaInv

\* The head is still the one the chain was linked to.
LEMMA PushedStep == ASSUME ArenaInv, NEW th \in ArenaThread, Pushed(th) PROVE ArenaInv'
<1> DEFINE c == call[th].chain
           last == c[Len(c)]
<1>1. /\ ArenaTypeOK /\ call[th].op = "push" /\ head = call[th].seen /\ head' = c[1]
      /\ call' = [call EXCEPT ![th] = Returned] /\ UNCHANGED <<next, owned, outdated>>
  BY DEF ArenaInv, Pushed
<1>2. c \in ChainsOf(FreeNode)
  BY <1>1, CallFacts
<1>3. /\ c # <<>> /\ Len(c) \in {1, 2} /\ c[1] \in FreeNode /\ last \in FreeNode
      /\ Nodes(c) = {c[1], last} /\ (Len(c) = 2 => c[1] # c[2])
  BY <1>2, ChainFacts
<1>4. CallOK(Returned) /\ Returned.chain = <<>> /\ Returned.op = "none" /\ Returned \in ArenaCall
  <2>1. NullNode \in Link
    BY DEF Link
  <2>2. QED
    BY <2>1, PopFromFacts DEF CallOK
<1>5. /\ call' \in [ArenaThread -> ArenaCall]
      /\ \A u \in ArenaThread : call'[u] = IF u = th THEN Returned ELSE call[u]
  BY <1>1, <1>4 DEF ArenaTypeOK
<1>6. ArenaTypeOK'
  BY <1>1, <1>3, <1>4, <1>5 DEF ArenaTypeOK, Link
<1>7. ASSUME ~outdated PROVE Placed(head', next, call', owned)
  <2>1. Placed(head, next, call, owned)
    BY <1>7 DEF ArenaInv
  <2>2. PICK n, s :
          IsStack(head, next, s, n) /\ Apart(call, owned, Listed(s, n))
    BY <2>1 DEF Placed
  <2>3. /\ Chained(next, call[th]) /\ next[last] = head
        /\ Len(c) = 2 => next[c[1]] = c[2]
    BY <1>1, <2>1 DEF Placed, Chained
  <2>4. c[1] \notin Listed(s, n) /\ last \notin Listed(s, n)
    BY <1>3, <2>2 DEF Apart
  <2>5. PICK t \in [1 .. n + 1 -> FreeNode] :
          /\ n + 1 \in Nat /\ IsStack(last, next, t, n + 1)
          /\ Listed(t, n + 1) = Listed(s, n) \union {last}
    BY <1>3, <2>2, <2>3, <2>4, StackPushed
  <2>6. \E m, r :
          IsStack(c[1], next, r, m) /\ Listed(r, m) = Listed(s, n) \union Nodes(c)
    <3>1. CASE Len(c) = 1
      BY <1>3, <2>5, <3>1
    <3>2. CASE Len(c) = 2
      <4>1. next[c[1]] = last /\ c[1] \notin Listed(t, n + 1)
        BY <1>3, <2>3, <2>4, <2>5, <3>2
      <4>2. PICK r \in [1 .. (n + 1) + 1 -> FreeNode] :
              /\ (n + 1) + 1 \in Nat /\ IsStack(c[1], next, r, (n + 1) + 1)
              /\ Listed(r, (n + 1) + 1) = Listed(t, n + 1) \union {c[1]}
        BY <1>3, <2>5, <4>1, StackPushed
      <4>3. Listed(r, (n + 1) + 1) = Listed(s, n) \union Nodes(c)
        BY <1>3, <2>5, <4>2
      <4>4. QED
        BY <4>2, <4>3
    <3>3. QED
      BY <1>3, <3>1, <3>2
  <2>7. PICK m, r :
          IsStack(c[1], next, r, m) /\ Listed(r, m) = Listed(s, n) \union Nodes(c)
    BY <2>6
  <2>8. \A u \in ArenaThread : Chained(next, call'[u])
    <3>1. Len(<<>>) = 0
      OBVIOUS
    <3>2. QED
      BY <1>4, <1>5, <2>1, <3>1 DEF Placed, Chained
  <2>9. \A u \in ArenaThread : Nodes(call'[u].chain) = IF u = th THEN {} ELSE Nodes(call[u].chain)
    BY <1>4, <1>5, NoNodes
  <2>10. Apart(call', owned, Listed(r, m))
    BY <2>2, <2>7, <2>9 DEF Apart
  <2>11. QED
    BY <1>1, <2>7, <2>8, <2>10 DEF Placed
<1>8. QED
  BY <1>1, <1>6, <1>7 DEF ArenaInv

LEMMA ArenaSteps == ArenaInv /\ [ArenaNext]_arenaVars => ArenaInv'
<1> SUFFICES ASSUME ArenaInv, [ArenaNext]_arenaVars PROVE ArenaInv'
  OBVIOUS
<1>1. CASE UNCHANGED arenaVars
  BY <1>1 DEF arenaVars, ArenaInv, ArenaTypeOK
<1>2. ASSUME NEW th \in ArenaThread,
             \/ StartPop(th) \/ LoadNext(th) \/ Popped(th) \/ RetryPop(th)
             \/ \E c \in ChainsOf(owned[th]) : StartPush(th, c)
             \/ LinkTail(th) \/ Pushed(th) \/ RetryPush(th)
      PROVE  ArenaInv'
  BY <1>2, StartPopStep, LoadNextStep, PoppedStep, RetryPopStep, StartPushStep, LinkTailStep,
     PushedStep, RetryPushStep
<1>3. QED
  BY <1>1, <1>2 DEF ArenaNext

\* Whatever pops and pushes of however many threads race, every node is in one
\* place while no exchange swapped in an outdated link (PopBatch, PushBatch).
THEOREM NodesKeepOnePlace == Spec => []NodesHaveOnePlace
<1>1. Init => ArenaInv
  BY ArenaInitial DEF Init
<1>2. ArenaInv /\ [Next]_vars => ArenaInv'
  BY ArenaSteps DEF Next, vars
<1>3. ArenaInv => NodesHaveOnePlace
  <2> SUFFICES ASSUME ArenaInv, ~outdated PROVE NodesHaveOnePlace
    BY DEF NodesHaveOnePlace
  <2>1. PICK n, s :
          IsStack(head, next, s, n) /\ Apart(call, owned, Listed(s, n))
    BY DEF ArenaInv, Placed
  <2>2. InStack = Listed(s, n) /\ Listed(s, n) \subseteq FreeNode
    BY <2>1, StackIsListed DEF IsStack, Listed
  <2>3. \A th \in ArenaThread : InFlight(th) = Nodes(call[th].chain) /\ owned[th] \subseteq FreeNode
    BY DEF InFlight, Nodes, ArenaInv, ArenaTypeOK
  <2>4. ASSUME NEW th \in ArenaThread PROVE InFlight(th) \subseteq FreeNode
    <3>1. call[th].chain = <<>> \/ call[th].chain \in ChainsOf(FreeNode)
      BY DEF ArenaInv, ArenaTypeOK, ArenaCall, Chain
    <3>2. QED
      BY <2>3, <3>1, NoNodes, ChainFacts
  <2>5. (UNION {owned[th] \union InFlight(th) : th \in ArenaThread}) \union InStack = FreeNode
    BY <2>1, <2>2, <2>3, <2>4 DEF Apart
  <2>6. ASSUME NEW th \in ArenaThread
        PROVE  /\ (owned[th] \union InFlight(th)) \cap InStack = {}
               /\ owned[th] \cap InFlight(th) = {}
               /\ \A other \in ArenaThread \ {th} :
                    (owned[th] \union InFlight(th)) \cap (owned[other] \union InFlight(other)) = {}
    BY <2>1, <2>2, <2>3 DEF Apart
  <2>7. QED
    BY <2>5, <2>6 DEF NodesHaveOnePlace
<1>4. QED
  BY <1>1, <1>2, <1>3, PTL DEF Spec
================================================================================
