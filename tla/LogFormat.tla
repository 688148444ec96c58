----------------------------- MODULE LogFormat -----------------------------
(***************************************************************************)
(* The format of LevelDB's log and MANIFEST files: log::Writer appends     *)
(* records to a file, the file ends (it is closed, or the process or the   *)
(* machine crashes), log::Reader reads it back (src/leveldb/db/            *)
(* log_writer.cc, log_reader.cc, log_format.h; the mapped file is          *)
(* Win32MapFile of util/env_win.cc).                                       *)
(*                                                                         *)
(* A cell stands for one byte of payload, or for one field of a header: a  *)
(* header is three cells, checksum, length and type, instead of 4 + 2 + 1  *)
(* bytes, and a block is BlockSize cells.  A checksum is what it is taken  *)
(* of, so that it matches nothing else.                                    *)
(***************************************************************************)
EXTENDS Naturals, Sequences, SequencesExt

CONSTANTS
  BlockSize,      \* cells of a block, kBlockSize
  MapSize,        \* cells that Win32MapFile maps, and adds to the file, at once
  PageSize,       \* cells the system writes back together
  Sizes,          \* sizes of the records that are added
  MaxRecords,     \* bound on the records added
  Ends,           \* how the file ends, of "close", "process" and "machine"
  InitialOffsets, \* choices of the reader's initial_offset_
  FaultKinds      \* the I/O operations that may fail, once each, of those in Faulty

Faulty == {"append", "read", "skip"}

kHeaderSize == 3

ASSUME SizesAssumption ==
  /\ BlockSize \in Nat /\ BlockSize > kHeaderSize /\ MapSize \in Nat \ {0} /\ PageSize \in Nat \ {0}
  /\ Sizes \subseteq Nat /\ MaxRecords \in Nat /\ InitialOffsets \subseteq Nat
  /\ Ends \subseteq {"close", "process", "machine"} /\ FaultKinds \subseteq Faulty

VARIABLES
  \* the file, and its writer
  file,           \* the cells written
  size,           \* the size of the file while it is mapped
  synced,         \* cells written when Sync() last returned
  wpc, block_offset_,
  left, begin,    \* locals of AddRecord()
  calls,          \* Append() calls left of the physical record being emitted
  added,          \* sizes of the records AddRecord() was called with
  start,          \* where each of them starts
  ok,             \* the records for which AddRecord() returned OK
  safe,           \* those followed by a Sync()
  end,            \* how the file ended
  \* the reader
  initial_offset_, rpc, pos, buffer_, eof_, end_of_buffer_offset_, last_record_offset_,
  physical_record_offset, prospective_record_offset, in_fragmented_record, scratch,
  result,         \* the records returned
  reports,        \* corruptions reported
  faults          \* the I/O operations that failed

written == <<file, size, synced>>
writer == <<wpc, block_offset_, left, begin, calls, added, start, ok, safe, end>>
reader == <<rpc, pos, buffer_, eof_, end_of_buffer_offset_, last_record_offset_, physical_record_offset,
            prospective_record_offset, in_fragmented_record, scratch, result, reports>>
vars == <<written, writer, initial_offset_, reader, faults>>

kZeroType == 0
kFullType == 1
kFirstType == 2
kMiddleType == 3
kLastType == 4
kEof == 5
kBadRecord == 6

Byte(x) == [k |-> "byte", v |-> <<x>>]
Zeros(n) == [i \in 1..n |-> Byte(0)]
Payload(id, n) == [i \in 1..n |-> 100 * id + i]
Crc(type, bytes) == [k |-> "crc", v |-> <<type>> \o bytes]
Smaller(a, b) == IF a < b THEN a ELSE b

Init ==
  /\ file = <<>> /\ size = 0 /\ synced = 0
  /\ wpc = "idle" /\ block_offset_ = 0 /\ left = 0 /\ begin = FALSE /\ calls = <<>>
  /\ added = <<>> /\ start = <<>> /\ ok = {} /\ safe = {} /\ end = "open"
  /\ rpc = "wait" /\ pos = 0 /\ buffer_ = <<>> /\ eof_ = FALSE /\ end_of_buffer_offset_ = 0
  /\ last_record_offset_ = 0 /\ physical_record_offset = 0 /\ prospective_record_offset = 0
  /\ in_fragmented_record = FALSE /\ scratch = <<>> /\ result = <<>> /\ reports = 0
  /\ initial_offset_ \in InitialOffsets /\ faults = {}

Works == UNCHANGED faults
Fails(kind) == kind \in FaultKinds \ faults /\ faults' = faults \cup {kind}

-----------------------------------------------------------------------------
(* log::Writer *)

AddRecord ==
  /\ wpc = "idle" /\ Len(added) < MaxRecords
  /\ \E n \in Sizes : added' = Append(added, n) /\ left' = n
  /\ begin' = TRUE /\ wpc' = "emit"
  /\ UNCHANGED <<written, block_offset_, calls, start, ok, safe, end, reader, faults>>

FragmentType(first, last) ==
  IF first THEN IF last THEN kFullType ELSE kFirstType ELSE IF last THEN kLastType ELSE kMiddleType

FragmentLength(bytes, offset) == Smaller(bytes, BlockSize - offset - kHeaderSize)

\* Cells to fill when a header no longer fits into the block
Trailer(offset) ==
  LET leftover == BlockSize - offset IN IF leftover < kHeaderSize THEN leftover ELSE 0

\* One round of AddRecord(): the trailer if a header does not fit, then
\* EmitPhysicalRecord(); block_offset_ moves whether or not the appends succeed.
EmitPhysicalRecord ==
  /\ wpc = "emit"
  /\ LET id == Len(added)
         trailer == Trailer(block_offset_)
         offset == IF BlockSize - block_offset_ < kHeaderSize THEN 0 ELSE block_offset_
         n == FragmentLength(left, offset)
         type == FragmentType(begin, left = n)
         bytes == SubSeq(Payload(id, added[id]), added[id] - left + 1, added[id] - left + n)
         header == <<Crc(type, bytes), [k |-> "len", v |-> <<n>>], [k |-> "type", v |-> <<type>>]>>
     IN /\ calls' = <<Zeros(trailer), header, [i \in 1..n |-> Byte(bytes[i])]>>
        /\ start' = IF begin THEN Append(start, Len(file) + trailer) ELSE start
        /\ block_offset_' = offset + kHeaderSize + n
        /\ left' = left - n
  /\ begin' = FALSE /\ wpc' = "append"
  /\ UNCHANGED <<written, added, ok, safe, end, reader, faults>>

\* Win32MapFile::Append() copies a cell, and maps the next region at its limit.
\* A failure ends the record, except for the trailer, whose status is ignored.
AppendCell ==
  /\ wpc = "append" /\ calls # <<>>
  /\ LET cells == Head(calls) IN
     \/ /\ cells = <<>>
        /\ calls' = Tail(calls) /\ Works
        /\ UNCHANGED <<file, size, wpc>>
     \/ /\ cells # <<>> /\ Works
        /\ file' = Append(file, Head(cells))
        /\ size' = IF Len(file) = size THEN size + MapSize ELSE size
        /\ calls' = [calls EXCEPT ![1] = Tail(cells)]
        /\ UNCHANGED wpc
     \/ /\ cells # <<>> /\ Len(file) = size /\ Fails("append")
        /\ IF Len(calls) = 3 THEN calls' = Tail(calls) /\ UNCHANGED wpc
                             ELSE calls' = <<>> /\ wpc' = "idle"
        /\ UNCHANGED <<file, size>>
  /\ UNCHANGED <<synced, block_offset_, left, begin, added, start, ok, safe, end, reader>>

\* EmitPhysicalRecord() is done; AddRecord() goes on or returns OK.
RecordAppended ==
  /\ wpc = "append" /\ calls = <<>>
  /\ IF left > 0 THEN wpc' = "emit" /\ UNCHANGED ok
                 ELSE wpc' = "idle" /\ ok' = ok \cup {Len(added)}
  /\ UNCHANGED <<written, block_offset_, left, begin, calls, added, start, safe, end, reader, faults>>

Sync ==
  /\ wpc = "idle" /\ synced # Len(file)
  /\ synced' = Len(file) /\ safe' = ok
  /\ UNCHANGED <<file, size, wpc, block_offset_, left, begin, calls, added, start, ok, end, reader, faults>>

-----------------------------------------------------------------------------
(* The end of the file: Close() cuts it to what was written; without it the  *)
(* file keeps its mapped size.  A crash of the machine keeps of each page at *)
(* least what was synced.                                                    *)

Ended(how) ==
  /\ wpc # "ended" /\ how \in Ends
  /\ wpc' = "ended" /\ end' = how /\ rpc' = "call"
  /\ UNCHANGED <<block_offset_, left, begin, calls, added, start, ok, safe, size, synced, pos, buffer_, eof_,
                 end_of_buffer_offset_, last_record_offset_, physical_record_offset,
                 prospective_record_offset, in_fragmented_record, scratch, result, reports, faults>>

Close == wpc = "idle" /\ Ended("close") /\ UNCHANGED file
ProcessCrash == Ended("process") /\ file' = file \o Zeros(size - Len(file))

\* The system has written back the pages in kept, the page of cut up to cut, and
\* what was synced.
MachineCrash ==
  /\ Ended("machine")
  /\ LET Page(i) == (i + PageSize - 1) \div PageSize
         dirty == {Page(i) : i \in synced + 1 .. Len(file)}
     IN \E kept \in SUBSET dirty, cut \in synced .. Len(file) :
          file' = [i \in 1..size |->
                     IF i <= Len(file) /\ (i <= synced \/ Page(i) \in kept \/ (Page(i) = Page(cut) /\ i <= cut))
                     THEN file[i] ELSE Byte(0)]

-----------------------------------------------------------------------------
(* log::Reader *)

\* ReportDrop() with end_of_buffer_offset_ at offset and rest left in buffer_; the
\* subtraction is unsigned.
ReportDrop(offset, rest, bytes) ==
  LET p == offset - Len(rest) IN
  IF bytes > p \/ p - bytes >= initial_offset_ THEN 1 ELSE 0

Reported(rest, bytes) == ReportDrop(end_of_buffer_offset_, rest, bytes)

\* Mutant: the block of initial_offset_ itself is skipped.
SkipBlock == initial_offset_ - (initial_offset_ % BlockSize) + BlockSize

\* Where SkipToInitialBlock() goes: the block of initial_offset_, or the one after
\* it if only a trailer is left.
SkipToInitialBlock ==
  LET in_block == initial_offset_ % BlockSize
      block == initial_offset_ - in_block
  IN IF in_block > BlockSize - (kHeaderSize - 1) THEN block + BlockSize ELSE block

\* ReadRecord() starts, with SkipToInitialBlock() if nothing was returned yet.
ReadRecord ==
  /\ rpc = "call"
  /\ LET skip == SkipToInitialBlock
     IN IF last_record_offset_ < initial_offset_
        THEN \/ /\ Works
                /\ end_of_buffer_offset_' = skip /\ pos' = pos + skip /\ rpc' = "fragment"
                /\ physical_record_offset' = skip - Len(buffer_) /\ UNCHANGED reports
             \/ /\ skip > 0 /\ Fails("skip")
                /\ end_of_buffer_offset_' = skip /\ rpc' = "done"
                /\ reports' = reports + ReportDrop(skip, buffer_, skip)
                /\ UNCHANGED <<pos, physical_record_offset>>
        ELSE /\ Works
             /\ rpc' = "fragment" /\ physical_record_offset' = end_of_buffer_offset_ - Len(buffer_)
             /\ UNCHANGED <<pos, end_of_buffer_offset_, reports>>
  /\ in_fragmented_record' = FALSE /\ scratch' = <<>>
  /\ UNCHANGED <<written, writer, buffer_, eof_, last_record_offset_, prospective_record_offset, result>>

\* Mutant: a short block is not the last.
NeverShort(block) == FALSE

\* Read() returned less than was asked for.
IsShort(block) == Len(block) < BlockSize

\* ReadPhysicalRecord() needs a block, or is at the end of the file.
ReadBlock ==
  /\ rpc = "fragment" /\ Len(buffer_) < kHeaderSize
  /\ \/ /\ ~eof_ /\ Works
        /\ LET block == SubSeq(file, pos + 1, Smaller(pos + BlockSize, Len(file))) IN
           /\ buffer_' = block
           /\ pos' = pos + Len(block)
           /\ end_of_buffer_offset_' = end_of_buffer_offset_ + Len(block)
           /\ eof_' = IsShort(block)
        /\ UNCHANGED <<rpc, scratch, reports>>
     \/ /\ ~eof_ /\ Fails("read")
        /\ buffer_' = <<>> /\ eof_' = TRUE /\ rpc' = "done" /\ scratch' = <<>>
        /\ reports' = reports + Reported(<<>>, BlockSize)
        /\ UNCHANGED <<pos, end_of_buffer_offset_>>
     \/ /\ eof_ /\ Works
        /\ buffer_' = <<>> /\ rpc' = "done" /\ scratch' = <<>>
        /\ UNCHANGED <<pos, eof_, end_of_buffer_offset_, reports>>
  /\ UNCHANGED <<written, writer, last_record_offset_, physical_record_offset, prospective_record_offset,
                 in_fragmented_record, result>>

\* What a cell may say when it is read as the length or the type of a header:
\* anything, if it was not written as one.
ReadAs(cell, k, any) == IF cell.k = k \/ cell = Byte(0) THEN {cell.v[1]} ELSE any

\* Mutant: the checksum is not compared.
NoCheck(crc, type, cells) == type # kZeroType

ChecksumMatches(crc, type, cells) ==
  /\ \A i \in DOMAIN cells : cells[i].k = "byte"
  /\ crc = Crc(type, [i \in DOMAIN cells |-> cells[i].v[1]])

\* Mutant: a zero record is corruption.
NoPreallocation(type, length) == FALSE

\* A header of zeros: the file was extended but not written here.
IsPreallocated(type, length) == type = kZeroType /\ length = 0

\* The rest of ReadPhysicalRecord(): its result, the buffer_ it leaves and the
\* corruption it reports
PhysicalRecord(length, type) ==
  LET n == kHeaderSize + length
      rest == SubSeq(buffer_, n + 1, Len(buffer_))
      cells == SubSeq(buffer_, kHeaderSize + 1, n)
      Bad(r, drop) == [type |-> kBadRecord, bytes |-> <<>>, rest |-> r, drop |-> drop]
  IN CASE n > Len(buffer_) ->
            IF eof_ THEN [Bad(<<>>, 0) EXCEPT !.type = kEof] ELSE Bad(<<>>, Reported(<<>>, Len(buffer_)))
       [] n <= Len(buffer_) ->
            IF IsPreallocated(type, length) THEN Bad(<<>>, 0)
            ELSE IF ~ChecksumMatches(buffer_[1], type, cells) THEN Bad(<<>>, Reported(<<>>, Len(buffer_)))
            ELSE IF end_of_buffer_offset_ - Len(rest) < initial_offset_ + n THEN Bad(rest, 0)
            ELSE [type |-> type, bytes |-> [i \in DOMAIN cells |-> cells[i].v[1]], rest |-> rest, drop |-> 0]

Returned(record, offset) ==
  /\ result' = Append(result, record) /\ last_record_offset_' = offset
  /\ scratch' = <<>> /\ rpc' = "call"
  /\ UNCHANGED <<in_fragmented_record, prospective_record_offset>>

Continues(fragmented, kept, offset) ==
  /\ in_fragmented_record' = fragmented /\ scratch' = kept /\ prospective_record_offset' = offset
  /\ UNCHANGED <<rpc, result, last_record_offset_>>

\* One turn of the loop of ReadRecord()
ReadFragment ==
  /\ rpc = "fragment" /\ Len(buffer_) >= kHeaderSize
  /\ \E length \in ReadAs(buffer_[2], "len", 0..BlockSize) :
     \E type \in ReadAs(buffer_[3], "type", kZeroType..kLastType) :
       LET p == PhysicalRecord(length, type)
           lost == in_fragmented_record /\ scratch # <<>>
           Report(bytes) == reports' = reports + p.drop + Reported(p.rest, bytes)
           Quiet == reports' = reports + p.drop
       IN /\ buffer_' = p.rest
          /\ physical_record_offset' = end_of_buffer_offset_ - Len(p.rest)
          /\ \/ /\ p.type = kFullType
                /\ IF lost THEN Report(Len(scratch)) ELSE Quiet
                /\ Returned(p.bytes, physical_record_offset)
             \/ /\ p.type = kFirstType
                /\ IF lost THEN Report(Len(scratch)) ELSE Quiet
                /\ Continues(TRUE, p.bytes, physical_record_offset)
             \/ /\ p.type = kMiddleType
                /\ IF in_fragmented_record
                   THEN Quiet /\ Continues(TRUE, scratch \o p.bytes, prospective_record_offset)
                   ELSE Report(Len(p.bytes)) /\ Continues(FALSE, scratch, prospective_record_offset)
             \/ /\ p.type = kLastType
                /\ IF in_fragmented_record
                   THEN Quiet /\ Returned(scratch \o p.bytes, prospective_record_offset)
                   ELSE Report(Len(p.bytes)) /\ Continues(FALSE, scratch, prospective_record_offset)
             \/ /\ p.type = kEof
                /\ Quiet /\ rpc' = "done" /\ scratch' = <<>>
                /\ UNCHANGED <<in_fragmented_record, prospective_record_offset, result, last_record_offset_>>
             \/ /\ p.type = kBadRecord
                /\ IF in_fragmented_record THEN Report(Len(scratch)) ELSE Quiet
                /\ Continues(FALSE, <<>>, prospective_record_offset)
  /\ Works
  /\ UNCHANGED <<written, writer, pos, eof_, end_of_buffer_offset_>>

-----------------------------------------------------------------------------

Writing == UNCHANGED initial_offset_ /\ (AddRecord \/ EmitPhysicalRecord \/ AppendCell \/ RecordAppended \/ Sync)
Ending == UNCHANGED initial_offset_ /\ (Close \/ ProcessCrash \/ MachineCrash)
Reading == UNCHANGED initial_offset_ /\ (ReadRecord \/ ReadBlock \/ ReadFragment)
Done == rpc = "done" /\ UNCHANGED vars

Next == Writing \/ Ending \/ Reading \/ Done

Spec == Init /\ [][Next]_vars

\* The caller reads on until ReadRecord() returns false; no call has to fail.
FairSpec == Spec /\ WF_vars(Reading /\ Works)

-----------------------------------------------------------------------------
(* Properties *)

Records(ids) == LET s == SetToSortSeq(ids, <) IN [i \in DOMAIN s |-> Payload(s[i], added[s[i]])]

\* However the file ended, the reader returns records that were added, whole, in
\* the order they were added in, and each at most once.
OnlyWritten == \E ids \in SUBSET DOMAIN added : result = Records(ids)

\* The records a caller may count on: those AddRecord() returned OK for, or if
\* the machine crashed, those a Sync() followed
Promised == {id \in IF end = "machine" THEN safe ELSE ok : start[id] >= initial_offset_}

\* Unless it fails to read, the reader returns all of these before it reports the
\* end of the file, and nothing that starts before initial_offset_.
PromisedAreRead ==
  rpc = "done" /\ faults \cap {"read", "skip"} = {} => \E ids \in SUBSET {id \in DOMAIN start : start[id] >= initial_offset_} :
                    Promised \subseteq ids /\ result = Records(ids)

\* Nothing of a record was left unwritten when the file ended.
Whole == (begin \/ left = 0) /\ \A i \in DOMAIN calls : calls[i] = <<>>

\* No corruption is reported to a reader of the whole file if the file was closed,
\* nor if it is preallocated and its process ended between two records.
NoFalseAlarm ==
  faults = {} /\ initial_offset_ = 0 /\ (end = "close" \/ (end = "process" /\ Whole)) => reports = 0

\* The reader comes to the end of every file.
ReaderEnds == wpc = "ended" ~> rpc = "done"

=============================================================================
