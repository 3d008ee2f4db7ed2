----------------------------- MODULE ColumnReader -----------------------------
(***************************************************************************)
(* The column decoder (tasks/simd-parquet-columnar-decoder): values packed *)
(* bit by bit or in runs are decoded page after page, and a filter prunes  *)
(* the row groups whose statistics exclude it.  The columns themselves are *)
(* not read from the file yet: Open makes up the metadata and the readers  *)
(* make up the values, and both are modelled as they are.                  *)
(***************************************************************************)
EXTENDS Digits

CONSTANTS
  Widths,      \* the bit widths of columns
  MaxPages     \* bound: pages decoded

ASSUME ColumnAssumption == Widths \subseteq 1 .. 9 /\ MaxPages \in Nat

(***************************************************************************)
(* BitUnpackSIMD                                                           *)
(***************************************************************************)
\* Bit k of the 64-bit buffer that the first eight bytes fill.
BufferBit(bytes, k) ==
  IF k < 8 * Least(8, Len(bytes)) THEN Digit(bytes[(k \div 8) + 1], 2, k % 8) ELSE 0

\* Eight values.  A width above 9 would also shift the buffer by more than it has.
Unpack8(bytes, width) ==
  [i \in 1 .. 8 |-> Number([j \in 1 .. width |-> BufferBit(bytes, (i - 1) * width + j - 1)], 2)]

Unpack32(bytes, width) ==
  FlattenSeq([g \in 1 .. 4 |-> Unpack8(Rest(bytes, (g - 1) * width), width)])

\* <<the header of a run, what follows it>>.
Header(bytes) == <<Number(Groups(bytes), 128), Rest(bytes, VarSize(bytes))>>

ValueBytesRoundedDown(width) == width \div 8
ValueBytes(width) == (width + 7) \div 8

\* A run of one value: <<what is decoded, which it adds to as much as has room, what
\* follows it>>.
RepeatedRun(count, bytes, width, decoded, total) ==
  LET n     == Least(ValueBytes(width), Len(bytes))
      value == Number(SubSeq(bytes, 1, n), 256)
  IN  <<decoded \o [c \in 1 .. Least(count, total - Len(decoded)) |-> value], Rest(bytes, n)>>

\* Groups of eight packed values, while there is room.
NextGroup(r, width, total) ==
  IF Len(r[1]) >= total THEN r
  ELSE <<r[1] \o SubSeq(Unpack8(r[2], width), 1, Least(8, total - Len(r[1]))), Rest(r[2], width)>>

PackedRun(count, bytes, width, decoded, total) ==
  LET after[g \in 0 .. count] ==
        IF g = 0 THEN <<decoded, bytes>> ELSE NextGroup(after[g - 1], width, total)
  IN  after[count]

\* A turn of the loop over runs.
NextRun(r, width, total) ==
  LET header == Header(r[2])
      count  == header[1] \div 2
  IN  IF r[2] = <<>> \/ Len(r[1]) >= total THEN r
      ELSE IF header[1] % 2 = 0 THEN RepeatedRun(count, header[2], width, r[1], total)
      ELSE PackedRun(count, header[2], width, r[1], total)

\* What is decoded then; each turn takes a byte at least.
DecodeRLE(page, width, decoded, total) ==
  LET after[n \in 0 .. Len(page)] ==
        IF n = 0 THEN <<decoded, page>> ELSE NextRun(after[n - 1], width, total)
  IN  after[Len(page)][1]

(***************************************************************************)
(* ParquetReader                                                           *)
(***************************************************************************)
NumRows == 1000

VARIABLES
  groups,   \* metadata_.row_groups: the statistics of each column
  width,    \* of the column that is decoded
  out,      \* its values so far
  wrote,    \* what its writer wrote so far
  pages     \* how many pages

columnVars == <<groups, width, out, wrote, pages>>

ColumnInit == groups = <<>> /\ width \in Widths /\ out = <<>> /\ wrote = <<>> /\ pages = 0

Open ==
  /\ groups' = <<<<[min |-> 0, max |-> 999], [min |-> 100, max |-> 10999]>>>>
  /\ UNCHANGED <<width, out, wrote, pages>>

Rows(group) == IF group \in DOMAIN groups THEN 1 .. NumRows ELSE {}
ReadInt32Column(group) == [i \in Rows(group) |-> i - 1]
ReadInt64Column(group) == [i \in Rows(group) |-> (i - 1) * 10]

PrunedByEither(stats, gt, lt) == stats.max <= gt \/ stats.min >= lt
Pruned(stats, gt, lt) == stats.max < gt \/ stats.min > lt

EvaluateFilter(column, gt, lt, group) ==
  [i \in Rows(group) |->
     IF column \in DOMAIN groups[group] /\ Pruned(groups[group][column], gt, lt) THEN 0 ELSE 1]

(***************************************************************************)
(* Who writes the column, external: pages of whole runs.                   *)
(***************************************************************************)
HeaderBytes(n) == IF n < 128 THEN <<n>> ELSE <<(n % 128) + 128, n \div 128>>

\* Values side by side.
PackedBytes(values) ==
  LET PackedBit(k) == Digit(values[(k \div width) + 1], 2, k % width)
  IN  [b \in 1 .. (Len(values) * width) \div 8 |->
         Number([t \in 1 .. 8 |-> PackedBit(8 * (b - 1) + t - 1)], 2)]

RunBytes(run) ==
  IF run.packed
  THEN HeaderBytes(2 * (Len(run.values) \div 8) + 1) \o PackedBytes(run.values)
  ELSE HeaderBytes(2 * Len(run.values))
         \o [i \in 1 .. (width + 7) \div 8 |-> Digit(run.values[1], 256, i - 1)]

TwoBytes(n) == n \div 128 < 128

\* What may be written as a run: values that fit, and a header of two bytes at most.
IsRun(run) ==
  /\ run.values \in Seq(Nat) /\ run.values # <<>> /\ TwoBytes(2 * Len(run.values))
  /\ \A i \in DOMAIN run.values : Shift(run.values[i], 2, width) = 0
  /\ run.packed => Len(run.values) % 8 = 0
  /\ run.packed \/ \A i \in DOMAIN run.values : run.values[i] = run.values[1]

PageBytes(runs) == FlattenSeq([i \in DOMAIN runs |-> RunBytes(runs[i])])
Values(runs) == FlattenSeq([i \in DOMAIN runs |-> runs[i].values])

\* A page of these runs, of whose values the first n count.
ReadPage(runs, n) ==
  /\ pages < MaxPages /\ pages' = pages + 1
  /\ (\A i \in DOMAIN runs : IsRun(runs[i])) /\ n \in 1 .. Len(Values(runs))
  /\ wrote' = wrote \o SubSeq(Values(runs), 1, n)
  /\ out' = DecodeRLE(PageBytes(runs), width, out, Len(out) + n)
  /\ UNCHANGED <<groups, width>>

\* 32 values with no header.
ReadBatch(values) ==
  /\ pages < MaxPages /\ pages' = pages + 1
  /\ Len(values) = 32 /\ IsRun([packed |-> TRUE, values |-> values])
  /\ wrote' = wrote \o values
  /\ out' = out \o Unpack32(PackedBytes(values), width)
  /\ UNCHANGED <<groups, width>>

(***************************************************************************)
(* Properties                                                              *)
(***************************************************************************)
\* However values are split into pages, and pages into runs of either kind, and
\* wherever the count of values ends within a run, the decoder gives them back;
\* of more than eight bits, whose groups do not fit the buffer, as many of them.
ColumnsAreDecoded == Len(out) = Len(wrote) /\ (width <= 8 => out = wrote)

\* The rows that match gt <= value <= lt, and those that EvaluateFilter keeps.
Matches(rows, gt, lt) == {i \in DOMAIN rows : rows[i] \in gt .. lt}
Kept(column, gt, lt) == {i \in Rows(1) : EvaluateFilter(column, gt, lt, 1)[i] = 1}

\* Ranges with their ends at, beside and beyond the ends of the statistics and rows.
Bounds == {-1, 0, 1, 99, 100, 101, 500, 999, 1000, 9990, 11000}

\* A filter never drops a row that matches it (instruction.md:33, "Output bitmask
\* vectors indicating matching row indices").
PruningKeepsMatches ==
  \A gt, lt \in Bounds : /\ Matches(ReadInt32Column(1), gt, lt) \subseteq Kept(1, gt, lt)
                         /\ Matches(ReadInt64Column(1), gt, lt) \subseteq Kept(2, gt, lt)

\* Of the first column, no matching row is dropped.  Of the second, whose rows begin at
\* 0 and its statistics at 100, all are dropped by every range that ends below 100, and
\* none by any other.
LosesLowRows(gt, lt) ==
  LET matches == Matches(ReadInt64Column(1), gt, lt)
  IN  /\ Matches(ReadInt32Column(1), gt, lt) \subseteq Kept(1, gt, lt)
      /\ IF lt < 100 THEN matches \intersect Kept(2, gt, lt) = {} ELSE matches \subseteq Kept(2, gt, lt)

\* Which matching rows a filter drops, the ends of ranges included: those below 100
\* of the second column, and only with ranges that reach no further
\* (ParquetReader::EvaluateFilter and the statistics that Open makes up).
OnlyLowRowsAreLost == \A gt, lt \in Bounds : LosesLowRows(gt, lt)
===============================================================================
