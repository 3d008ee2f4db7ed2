----------------------------- MODULE WasmRuntime ------------------------------
(***************************************************************************)
(* The WebAssembly runtime (tasks/wasm-jit-core-runtime): a module's bytes *)
(* are parsed, an instance compiles what the module exports, and callers   *)
(* invoke exports by name.                                                 *)
(*                                                                         *)
(* Sequences of bytes stand for the spans that the parser consumes.  Where *)
(* the code would read past one, the operator here has no value, and TLC   *)
(* stops.  What may be there or not is a sequence of at most one element.  *)
(* Integers are below 2^28, so the 32 bits never wrap; the signed readers  *)
(* have no caller.                                                         *)
(***************************************************************************)
EXTENDS Digits

(***************************************************************************)
(* BinaryParser.  What reads returns what it read and what is left.        *)
(***************************************************************************)
TypeSection == 1
FunctionSection == 3
ExportSection == 7
CodeSection == 10

FuncTag == 96
Magic == <<0, 97, 115, 109>>

ReadVarUint32HighFirst(stream) == <<Number(Reverse(Groups(stream)), 128), Rest(stream, VarSize(stream))>>
ReadVarUint32(stream) == <<Number(Groups(stream), 128), Rest(stream, VarSize(stream))>>

\* As many bytes as the integer in front of them says.
ReadBytes(stream) ==
  LET len == ReadVarUint32(stream)
  IN  <<SubSeq(len[2], 1, len[1]), Rest(len[2], len[1])>>

ReadString(stream) ==
  LET len == ReadVarUint32(stream)
  IN  IF Len(len[2]) < len[1] THEN <<<<>>, len[2]>> ELSE ReadBytes(stream)

ReadType(stream) ==
  LET params  == ReadBytes(Tail(stream))
      returns == ReadBytes(params[2])
  IN  <<[params |-> params[1], returns |-> returns[1]], returns[2]>>

ReadExport(stream) ==
  LET name  == ReadString(stream)
      index == ReadVarUint32(Tail(name[2]))
  IN  <<[name |-> name[1], kind |-> Head(name[2]), index |-> index[1]], index[2]>>

ReadLocals(stream) ==
  LET count == ReadVarUint32(stream)
      after[l \in 0 .. count[1]] ==
        IF l = 0 THEN <<<<>>, count[2]>>
        ELSE LET num == ReadVarUint32(after[l - 1][2])
             IN  <<Append(after[l - 1][1], <<num[1], Head(num[2])>>), Tail(num[2])>>
  IN  after[count[1]]

ReadBody(stream) ==
  LET body   == ReadBytes(stream)
      locals == ReadLocals(body[1])
  IN  <<[locals |-> locals[1], code |-> locals[2]], body[2]>>

ReadItem(id, stream) ==
  CASE id = TypeSection     -> ReadType(stream)
    [] id = FunctionSection -> ReadVarUint32(stream)
    [] id = ExportSection   -> ReadExport(stream)
    [] id = CodeSection     -> ReadBody(stream)

\* The next item of a section; those of the type section stop at the first
\* without its tag.
NextItem(id, r) ==
  LET item == ReadItem(id, r[2])
  IN  IF id = TypeSection /\ (r[2] = <<>> \/ Head(r[2]) # FuncTag) THEN r
      ELSE <<Append(r[1], item[1]), item[2]>>

ReadItems(id, payload) ==
  LET count == ReadVarUint32(payload)
      after[i \in 0 .. count[1]] == IF i = 0 THEN <<<<>>, count[2]>> ELSE NextItem(id, after[i - 1])
  IN  after[count[1]][1]

EmptyModule == [types |-> <<>>, functions |-> <<>>, exports |-> <<>>, bodies |-> <<>>]

\* Any section but the four is skipped, that of the memory too.
WithItems(module, id, items) ==
  CASE id = TypeSection     -> [module EXCEPT !.types = @ \o items]
    [] id = FunctionSection -> [module EXCEPT !.functions = @ \o items]
    [] id = ExportSection   -> [module EXCEPT !.exports = @ \o items]
    [] id = CodeSection     -> [module EXCEPT !.bodies = @ \o items]
    [] OTHER                -> module

\* A turn of the loop over sections: <<the module, what is left>>.  One that is longer
\* than what is left ends it with no module.
NextSection(r) ==
  LET len == ReadVarUint32(Tail(r[2]))
  IN  IF r[1] = <<>> \/ r[2] = <<>> THEN r
      ELSE IF Len(len[2]) < len[1] THEN <<<<>>, <<>>>>
      ELSE <<<<WithItems(r[1][1], Head(r[2]), ReadItems(Head(r[2]), SubSeq(len[2], 1, len[1])))>>,
             Rest(len[2], len[1])>>

\* <<the module>>, or <<>> for what is not one.
Parse(bytes) ==
  LET after[n \in 0 .. Len(bytes)] ==
        IF n = 0 THEN <<<<EmptyModule>>, Rest(bytes, 8)>> ELSE NextSection(after[n - 1])
  IN  IF Len(bytes) < 8 \/ SubSeq(bytes, 1, 4) # Magic THEN <<>> ELSE after[Len(bytes)][1]

(***************************************************************************)
(* JITCompiler and RuntimeInstance.                                        *)
(***************************************************************************)
Capacity == 4096

EmitByte(buffer, byte) == IF Len(buffer) < Capacity THEN Append(buffer, byte) ELSE buffer

\* Whatever the function, the code returns the first argument.
ReturnFirst == <<72, 139, 7, 195>>
CompileFunction(module, index) ==
  EmitByte(EmitByte(EmitByte(EmitByte(<<>>, 72), 139), 7), 195)

\* What running the code in a buffer returns.
Run(code, args) == CASE code = ReturnFirst -> args[1]

FunctionExport == 0

\* <<>> until there is one.
VARIABLES
  written,   \* the file: [sections, pad, length]
  module,    \* what Parse made of it
  instance,  \* compiled_exports_
  answer     \* of the last call: [name, args, result]

wasmVars == <<written, module, instance, answer>>

WasmInit == written = <<>> /\ module = <<>> /\ instance = <<>> /\ answer = <<>>

Instantiate ==
  /\ module # <<>> /\ instance = <<>>
  /\ LET exports   == module[1].exports
         Called(n) == {i \in DOMAIN exports : exports[i].kind = FunctionExport /\ exports[i].name = n}
         Exported  == {exports[i].name : i \in {j \in DOMAIN exports : exports[j].kind = FunctionExport}}
     IN  instance' = <<[n \in Exported |-> CompileFunction(module[1], exports[Max(Called(n))].index)]>>
  /\ UNCHANGED <<written, module, answer>>

Invoke(name, args) ==
  /\ instance # <<>>
  /\ answer' = <<[name |-> name, args |-> args,
                  result |-> IF name \in DOMAIN instance[1] THEN Run(instance[1][name], args) ELSE -1]>>
  /\ UNCHANGED <<written, module, instance>>

(***************************************************************************)
(* Who writes the file, external: sections in any order, some unknown to   *)
(* the parser, integers with or without a redundant byte, and a file that  *)
(* may have been cut short.                                                *)
(***************************************************************************)
Integer(n, pad) == IF pad THEN <<n + 128, 0>> ELSE <<n>>
Bytes(data, pad) == Integer(Len(data), pad) \o data

BodyBytes(body, pad) ==
  Integer(Len(body.locals), pad)
    \o FlattenSeq([l \in DOMAIN body.locals |-> Integer(body.locals[l][1], pad) \o <<body.locals[l][2]>>])
    \o body.code

ItemBytes(id, item, pad) ==
  CASE id = TypeSection     -> <<FuncTag>> \o Bytes(item.params, pad) \o Bytes(item.returns, pad)
    [] id = FunctionSection -> Integer(item, pad)
    [] id = ExportSection   -> Bytes(item.name, pad) \o <<item.kind>> \o Integer(item.index, pad)
    [] id = CodeSection     -> Bytes(BodyBytes(item, pad), pad)
    [] OTHER                -> <<item>>

Payload(s, pad) ==
  Integer(Len(s.items), pad) \o FlattenSeq([i \in DOMAIN s.items |-> ItemBytes(s.id, s.items[i], pad)])

SectionBytes(s, pad) == <<s.id>> \o Bytes(Payload(s, pad), pad)

FileBytes(sections, pad) ==
  Magic \o <<1, 0, 0, 0>> \o FlattenSeq([i \in DOMAIN sections |-> SectionBytes(sections[i], pad)])

\* What an integer of one group and its padding can say.
Small == 0 .. 127
Byte == 0 .. 255
Data == {data \in Seq(Byte) : Len(data) \in Small}

Item(id, pad) ==
  CASE id = TypeSection     -> [params : Data, returns : Data]
    [] id = FunctionSection -> Small
    [] id = ExportSection   -> [name : Data, kind : Byte, index : Small]
    [] id = CodeSection     -> {body \in [locals : Seq(Small \X Byte), code : Seq(Byte)] :
                                  Len(body.locals) \in Small /\ Len(BodyBytes(body, pad)) \in Small}
    [] OTHER                -> Byte

\* What may be written as a section.
IsSection(s, pad) ==
  /\ s.id \in Byte /\ s.items \in Seq(Item(s.id, pad))
  /\ Len(s.items) \in Small /\ Len(Payload(s, pad)) \in Small

Load(sections, pad, length) ==
  /\ written = <<>>
  /\ \A i \in DOMAIN sections : IsSection(sections[i], pad)
  /\ length <= Len(FileBytes(sections, pad))
  /\ written' = <<[sections |-> sections, pad |-> pad, length |-> length]>>
  /\ module' = Parse(SubSeq(FileBytes(sections, pad), 1, length))
  /\ UNCHANGED <<instance, answer>>

(***************************************************************************)
(* Properties                                                              *)
(***************************************************************************)
\* The first n sections of a file, and where they end.
FirstSections(file, n) == SubSeq(file.sections, 1, n)
EndOf(file, n) == Len(FileBytes(FirstSections(file, n), file.pad))

\* How many sections the file has whole.
Whole(file) == Max({n \in 0 .. Len(file.sections) : n = 0 \/ EndOf(file, n) <= file.length})

\* What sections say, told from them and not from their bytes.
Meaning(sections) ==
  LET told[n \in 0 .. Len(sections)] ==
        IF n = 0 THEN EmptyModule ELSE WithItems(told[n - 1], sections[n].id, sections[n].items)
  IN  told[Len(sections)]

\* A file that was cut short is refused, or read as the sections that it has whole,
\* and one that was not is read as it was written: nothing is made of half a
\* section, and a callee is found by a name if and only if it was exported by it.
ModulesAreRead ==
  \A f \in DOMAIN written :
    LET file == written[f]
        told == Meaning(FirstSections(file, Whole(file)))
    IN  /\ module \in {<<>>, <<told>>}
        /\ module = <<>> => file.length < 8 \/ file.length > EndOf(file, Whole(file))
        /\ \A a \in DOMAIN answer :
             answer[a].result =
               IF \E i \in DOMAIN told.exports :
                    told.exports[i].name = answer[a].name /\ told.exports[i].kind = FunctionExport
               THEN answer[a].args[1] ELSE -1
===============================================================================
