------------------------------ MODULE LogFormat ------------------------------
(***************************************************************************)
(* The format of log and descriptor files: log::Writer cuts records into   *)
(* fragments that do not cross blocks, and log::Reader puts them together  *)
(* again (db/log_writer.cc, db/log_reader.cc, db/log_format.h).            *)
(*                                                                         *)
(* A file is a sequence of bytes.  A byte tells which fragment of which    *)
(* record it belongs to and its place there, so a checksum matches if and  *)
(* only if the bytes under it are those of one fragment.                   *)
(***************************************************************************)
EXTENDS Integers, SequencesExt, FiniteSetsExt

CONSTANTS
    kBlockSize,   \* the length of a block
    kHeaderSize,  \* the length of the header of a fragment
    Lengths,      \* the lengths of records
    MaxRecords    \* bound on the records added

VARIABLES
    log,      \* the bytes of the file
    block_offset,  \* Writer::block_offset_
    records,  \* the records added: their bytes are start + 1 .. stop of log
    broken    \* the length of the file at the last crash or failure, or -1

logVars == <<log, block_offset, records, broken>>

kZeroType == 0
kFullType == 1
kFirstType == 2
kMiddleType == 3
kLastType == 4
kEof == 5
kBadRecord == 6

(***************************************************************************)
(* log::Writer                                                             *)
(***************************************************************************)
Zero == [rec |-> 0, frag |-> 0, type |-> kZeroType, len |-> 0, pos |-> 0]

Zeros(n) == [i \in 1 .. n |-> Zero]

\* EmitPhysicalRecord: the header and the payload of one fragment.
Fragment(rec, frag, type, len) ==
    [i \in 1 .. kHeaderSize + len |->
        [rec |-> rec, frag |-> frag, type |-> type, len |-> len, pos |-> i]]

FragmentType(begin, end) ==
    CASE begin /\ end -> kFullType
      [] begin /\ ~end -> kFirstType
      [] ~begin /\ end -> kLastType
      [] OTHER -> kMiddleType

\* Mutant of Trailer: a header goes into a block that is one byte too short.
TrailerShort(offset) == IF kBlockSize - offset < kHeaderSize - 1 THEN kBlockSize - offset ELSE 0

\* The trailer that AddRecord fills before a fragment when a block has no
\* room left for a header.
Trailer(offset) == IF kBlockSize - offset < kHeaderSize THEN kBlockSize - offset ELSE 0

\* The loop of AddRecord: the bytes of the fragments numbered from frag on
\* for `left` bytes of payload, at an offset in a block.
RECURSIVE Fragments(_, _, _, _)
Fragments(rec, frag, offset, left) ==
    LET trailer == Trailer(offset)
        start == IF trailer > 0 \/ offset = kBlockSize THEN 0 ELSE offset
        avail == kBlockSize - start - kHeaderSize
        len == IF left < avail THEN left ELSE avail
        bytes == Zeros(trailer)
                 \o Fragment(rec, frag, FragmentType(frag = 1, left = len), len)
    IN  IF left = len THEN bytes
        ELSE bytes \o Fragments(rec, frag + 1, start + kHeaderSize + len, left - len)

AddRecord(len) ==
    LET id == Len(records) + 1
        bytes == Fragments(id, 1, block_offset, len)
        start == Len(log) + Trailer(block_offset)
    IN  /\ id <= MaxRecords
        /\ log' = log \o bytes
        /\ block_offset' = (block_offset + Len(bytes)) % kBlockSize
        /\ records' = Append(records, [ok |-> TRUE, start |-> start, stop |-> Len(log'),
                                       frags |-> Last(bytes).frag])
        /\ UNCHANGED broken

\* The Append of the trailer fails after n bytes, which AddRecord does not look
\* at, and the Appends of the record succeed.
AddRecordLosesTrailer(len) ==
    LET id == Len(records) + 1
        trailer == Trailer(block_offset)
        bytes == Fragments(id, 1, block_offset, len)
    IN  /\ id <= MaxRecords
        /\ \E n \in 0 .. trailer - 1 :
            /\ log' = log \o Zeros(n) \o SubSeq(bytes, trailer + 1, Len(bytes))
            /\ broken' = Len(log) + n
        /\ block_offset' = (block_offset + Len(bytes)) % kBlockSize
        /\ records' = Append(records, [ok |-> TRUE, start |-> broken', stop |-> Len(log'),
                                       frags |-> Last(bytes).frag])

\* An Append to the file fails after n bytes.  block_offset_ counts the whole
\* fragment, and the writer goes on with the next record.
AddRecordFails(len) ==
    LET id == Len(records) + 1
        bytes == Fragments(id, 1, block_offset, len)
    IN  /\ id <= MaxRecords
        /\ \E n \in {m \in 0 .. Len(bytes) - 1 : bytes[m + 1] # Zero} :
            LET next == bytes[n + 1]
                stop == n + 1 + kHeaderSize + next.len - next.pos
            IN  /\ log' = log \o SubSeq(bytes, 1, n)
                /\ block_offset' = (block_offset + stop) % kBlockSize
        /\ records' = Append(records, [ok |-> FALSE, start |-> 0, stop |-> 0, frags |-> 0])
        /\ broken' = Len(log')

\* A crash keeps the first n bytes; the log is reused: Writer(dest, dest_length).
CrashAndReuse(n) ==
    /\ log' = SubSeq(log, 1, n)
    /\ block_offset' = n % kBlockSize
    /\ records' = [i \in DOMAIN records |-> [records[i] EXCEPT !.ok = @ /\ records[i].stop <= n]]
    /\ broken' = n

(***************************************************************************)
(* log::Reader.  The reader r reads the file `bytes`, up to position r.pos *)
(* so far; r.out is what ReadRecord has returned.                          *)
(***************************************************************************)
\* SkipToInitialBlock
InitialBlock(offset) ==
    LET inBlock == offset % kBlockSize
        start == offset - inBlock
    IN  IF inBlock > kBlockSize - (kHeaderSize - 1) THEN start + kBlockSize ELSE start

Reader(bytes, offset) ==
    [pos |-> Min({InitialBlock(offset), Len(bytes)}), end |-> InitialBlock(offset),
     initial |-> offset, resyncing |-> offset > 0, eof |-> FALSE, buffer |-> <<>>,
     type |-> kBadRecord, fragment |-> <<0, 0, 0>>, fragmented |-> FALSE,
     scratch |-> <<>>, out |-> <<>>, reported |-> FALSE]

\* Mutant of Checked: the checksum is not verified.
CheckedLength(buffer) == buffer[1].pos = 1 /\ kHeaderSize + buffer[1].len <= Len(buffer)

\* Does the buffer start with a fragment whose checksum matches?
Checked(buffer) ==
    LET b == buffer[1]
    IN  /\ b.pos = 1
        /\ kHeaderSize + b.len <= Len(buffer)
        /\ \A i \in 1 .. kHeaderSize + b.len : buffer[i] = [b EXCEPT !.pos = i]

\* A fragment whose end is missing at the end of the file.
CutShort(r) ==
    LET b == r.buffer[1]
    IN  /\ r.eof /\ b.pos = 1 /\ kHeaderSize + b.len > Len(r.buffer)
        /\ \A i \in 1 .. kHeaderSize : r.buffer[i] = [b EXCEPT !.pos = i]

\* After a bad length or checksum the rest of the buffer is dropped.
Drop(r) == [r EXCEPT !.buffer = <<>>, !.type = kBadRecord, !.reported = TRUE]

RECURSIVE ReadPhysicalRecord(_, _)
ReadPhysicalRecord(bytes, r) ==
    LET next == SubSeq(bytes, r.pos + 1, Min({r.pos + kBlockSize, Len(bytes)}))
        b == r.buffer[1]
        rest == SubSeq(r.buffer, kHeaderSize + b.len + 1, Len(r.buffer))
        early == r.end - Len(r.buffer) < r.initial
    IN  CASE Len(r.buffer) < kHeaderSize /\ ~r.eof ->
                ReadPhysicalRecord(bytes, [r EXCEPT !.pos = @ + Len(next), !.buffer = next,
                                                    !.end = @ + Len(next),
                                                    !.eof = Len(next) < kBlockSize])
          [] Len(r.buffer) < kHeaderSize /\ r.eof -> [r EXCEPT !.buffer = <<>>, !.type = kEof]
          [] Len(r.buffer) >= kHeaderSize /\ CutShort(r) -> [r EXCEPT !.buffer = <<>>, !.type = kEof]
          [] Len(r.buffer) >= kHeaderSize /\ b = Zero -> [r EXCEPT !.buffer = <<>>, !.type = kBadRecord]
          [] Len(r.buffer) >= kHeaderSize /\ Checked(r.buffer) ->
                [r EXCEPT !.buffer = rest, !.type = IF early THEN kBadRecord ELSE b.type,
                          !.fragment = IF early THEN <<0, 0, 0>> ELSE <<b.rec, b.frag, b.len>>]
          [] OTHER -> Drop(r)

\* What ReadRecord does with the fragment it has read.
Empty(scratch) == \A i \in DOMAIN scratch : scratch[i][3] = 0

Returned(r, record) == [r EXCEPT !.out = Append(@, record), !.scratch = <<>>, !.fragmented = FALSE]

Assemble(r) ==
    LET unfinished == r.fragmented /\ ~Empty(r.scratch)
    IN  CASE r.type = kFullType ->
                [Returned(r, <<r.fragment>>) EXCEPT !.reported = @ \/ unfinished]
          [] r.type = kFirstType ->
                [r EXCEPT !.scratch = <<r.fragment>>, !.fragmented = TRUE,
                          !.reported = @ \/ unfinished]
          [] r.type = kMiddleType ->
                IF r.fragmented THEN [r EXCEPT !.scratch = Append(@, r.fragment)]
                ELSE [r EXCEPT !.reported = TRUE]
          [] r.type = kLastType ->
                IF r.fragmented THEN Returned(r, Append(r.scratch, r.fragment))
                ELSE [r EXCEPT !.reported = TRUE]
          [] r.type = kBadRecord ->
                [r EXCEPT !.scratch = <<>>, !.fragmented = FALSE,
                          !.reported = @ \/ r.fragmented]
          [] OTHER -> r

\* ReadRecord, called until it returns false.
RECURSIVE ReadFrom(_, _)
ReadFrom(bytes, reader) ==
    LET r == ReadPhysicalRecord(bytes, reader)
        skip == r.resyncing /\ r.type \in {kMiddleType, kLastType}
    IN  CASE r.type = kEof -> r
          [] r.type # kEof /\ skip ->
                ReadFrom(bytes, [r EXCEPT !.resyncing = r.type = kMiddleType])
          [] OTHER -> ReadFrom(bytes, Assemble([r EXCEPT !.resyncing = FALSE]))

ReadLog(bytes, offset) == ReadFrom(bytes, Reader(bytes, offset))

-----------------------------------------------------------------------------
LogInit == log = <<>> /\ block_offset = 0 /\ records = <<>> /\ broken = -1

LogNext ==
    \/ \E len \in Lengths : AddRecord(len)
    \/ broken = -1 /\ \E len \in Lengths : AddRecordFails(len) \/ AddRecordLosesTrailer(len)
    \/ broken = -1 /\ \E n \in 1 .. Len(log) : CrashAndReuse(n)

LogSpec == LogInit /\ [][LogNext]_logVars

-----------------------------------------------------------------------------
\* The record that a sequence of fragments is, or 0.
Identity(fragments) ==
    LET i == fragments[1][1]
    IN  IF [j \in DOMAIN fragments |-> <<fragments[j][1], fragments[j][2]>>]
             = [j \in 1 .. records[i].frags |-> <<i, j>>]
        THEN i ELSE 0

Ok(from) == SelectSeq([i \in DOMAIN records |-> i],
                      LAMBDA i : records[i].ok /\ records[i].start >= from)

Read(offset) == ReadLog(log, offset)
ReadIds(offset) == LET r == Read(offset) IN [i \in DOMAIN r.out |-> Identity(r.out[i])]

\* Until something follows a partial record, a reader returns the records that
\* were added and not cut, whatever the boundaries of blocks, and takes the
\* partial record at the end for the end of the file, with no corruption.  A
\* reader with an initial offset (log_reader.h: "the first record physically
\* at or after this initial_offset") returns the records that start there.
LogRoundTrip ==
    /\ broken \in {-1, Len(log)} => ReadIds(0) = Ok(0) /\ ~Read(0).reported
    /\ broken = -1 => \A offset \in 0 .. Len(log) : ReadIds(offset) = Ok(offset)

\* Whatever was cut or failed, nothing is made up or put together from two
\* records, the records come in the order in which they were added, and every
\* record that was complete before the damage is returned.  What a reused log
\* loses to the partial record in it ends with the block of that record: every
\* record that starts in a later block is returned.  This last part says
\* nothing of a writer that went on after a failed Append of some bytes, whose
\* block_offset_ no longer is its place in the file: it may lose any record.
LogDamageConfined ==
    LET ids == ReadIds(0)
        later == broken + ((-broken) % kBlockSize)
    IN  /\ \A i \in DOMAIN ids : ids[i] # 0 /\ records[ids[i]].ok
        /\ \A i, j \in DOMAIN ids : i < j => ids[i] < ids[j]
        /\ \A i \in DOMAIN records : records[i].ok =>
              \/ i \in ToSet(ids)
              \/ records[i].stop > broken /\ records[i].start < later
              \/ records[i].stop > broken /\ Len(log) % kBlockSize # block_offset
=============================================================================
