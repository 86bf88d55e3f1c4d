----------------------------- MODULE PageLayout -----------------------------
(***************************************************************************)
(* How fixed-size records are laid out in a file of pages                  *)
(* (05_disk_system_fair/native_rust: OursPayloadLayout in ours_port.rs and *)
(* BaselinePayloadLayout in baseline_disk.rs, and the loops that write the *)
(* two files).  Records that fit in a page are packed into it and never    *)
(* straddle two pages; a larger record starts at a page of its own and is  *)
(* padded to whole pages.  The two layouts differ in where they then look  *)
(* for a record: BaselinePayloadLayout::extract passes the padding over.   *)
(* A layout is a record [count, bytes]: how many records, of how many      *)
(* bytes each.                                                             *)
(***************************************************************************)
EXTENDS Integers, Sequences, SequencesExt

CONSTANT PageSize     \* PAGE_SIZE: bytes in a page

\* A byte of a file is named by the record it belongs to and its place in it.
Byte(id, k)     == <<id, k>>
Padding         == <<>>
RecordOf(l, id) == [k \in 1 .. l.bytes |-> Byte(id, k)]

DivCeil(a, b) == (a + b - 1) \div b

RecordsPerPage(l) == PageSize \div l.bytes
Packed(l)         == RecordsPerPage(l) > 0
PagesPerRecord(l) == IF Packed(l) THEN 1 ELSE DivCeil(l.bytes, PageSize)
PageCount(l)      == IF Packed(l) THEN DivCeil(l.count, RecordsPerPage(l))
                                  ELSE l.count * DivCeil(l.bytes, PageSize)

\* Mutant: records are looked for as if there was no padding between them.
OffsetBackToBack(l, id) == id * l.bytes

\* Where a record begins, and the pages it is in.
RecordOffset(l, id) ==
  IF Packed(l)
  THEN (id \div RecordsPerPage(l)) * PageSize + (id % RecordsPerPage(l)) * l.bytes
  ELSE id * PagesPerRecord(l) * PageSize

PagesFor(l, id) ==
  RecordOffset(l, id) \div PageSize .. (RecordOffset(l, id) + l.bytes - 1) \div PageSize

\* Where a baseline looks for a code: a large one as if the codes before it were
\* not padded to whole pages.
CodeOffset(l, id) == IF Packed(l) THEN RecordOffset(l, id) ELSE id * l.bytes

CodePages(l, id) ==
  CodeOffset(l, id) \div PageSize .. (CodeOffset(l, id) + l.bytes - 1) \div PageSize

\* The writers pad what they have of a page, or of a record, to whole pages.
Padded(bytes) ==
  bytes \o [k \in 1 .. (-Len(bytes)) % PageSize |-> Padding]

\* The records of one page: the last page may have fewer.
PackedPage(l, p) ==
  LET first == p * RecordsPerPage(l)
      n     == IF first + RecordsPerPage(l) <= l.count THEN RecordsPerPage(l)
                                                       ELSE l.count - first
  IN  Padded(FlattenSeq([s \in 1 .. n |-> RecordOf(l, first + s - 1)]))

File(l) ==
  IF Packed(l)
  THEN FlattenSeq([p \in 1 .. PageCount(l) |-> PackedPage(l, p - 1)])
  ELSE FlattenSeq([i \in 1 .. l.count |-> Padded(RecordOf(l, i - 1))])

\* A read of page p finds these bytes.
PageBytes(l, p) == SubSeq(File(l), p * PageSize + 1, (p + 1) * PageSize)
=============================================================================
