------------------------------- MODULE Libraries ------------------------------
(***************************************************************************)
(* Three libraries that share nothing: the WebAssembly runtime, the column *)
(* reader, whose pages and row groups have nothing to do with each other   *)
(* yet, and the vector index.  `part' says which of the four moves.        *)
(***************************************************************************)
EXTENDS WasmRuntime, ColumnReader, VectorIndex

CONSTANTS
  Sections,    \* the sections of modules: [id, items]
  MaxSections, \* bound: sections of a module
  Names,       \* names that are invoked
  Runs(_),     \* runs of values of a width
  MaxRuns,     \* bound: runs of a page
  Short        \* how many of the last values of a page may not count

ASSUME LibrariesAssumption == MaxSections \in Nat /\ MaxRuns \in Nat

VARIABLE part

vars == <<part, wasmVars, columnVars, indexVars>>

Init ==
  /\ part \in {"wasm", "pages", "groups", "index"}
  /\ WasmInit /\ ColumnInit /\ IndexInit
  /\ part # "pages" => width = CHOOSE w \in Widths : TRUE

WasmNext ==
  \/ \E n \in 0 .. MaxSections : \E sections \in [1 .. n -> Sections], pad \in BOOLEAN :
       \E length \in 0 .. Len(FileBytes(sections, pad)) : Load(sections, pad, length)
  \/ Instantiate
  \/ \E name \in Names : Invoke(name, <<7>>)

PageNext ==
  \/ \E n \in 1 .. MaxRuns : \E runs \in [1 .. n -> Runs(width)], short \in Short :
       ReadPage(runs, Len(Values(runs)) - short)
  \/ \E a, b \in {r \in Runs(width) : Len(r.values) = 16} : ReadBatch(a.values \o b.values)

\* Open and SearchKNN change nothing that a later call could tell.
Next ==
  /\ \/ part = "wasm" /\ WasmNext /\ UNCHANGED <<columnVars, indexVars>>
     \/ part = "pages" /\ PageNext /\ UNCHANGED <<wasmVars, indexVars>>
     \/ part = "groups" /\ groups = <<>> /\ Open /\ UNCHANGED <<wasmVars, indexVars>>
     \/ part = "index" /\ found = Nothing /\ IndexNext /\ UNCHANGED <<wasmVars, columnVars>>
  /\ UNCHANGED part

Spec == Init /\ [][Next]_vars
===============================================================================
