-------------------------- MODULE PosixWritableFile --------------------------
(***************************************************************************)
(* A file that is written through a buffer (util/env_posix.cc).  The bytes *)
(* are numbered in the order in which they are appended.  write() may take *)
(* a part of what it is given or fail, and fdatasync() may fail; a call    *)
(* that meets a failure returns it and the caller may go on.               *)
(***************************************************************************)
EXTENDS Integers, Sequences, SequencesExt

CONSTANTS
    kWritableFileBufferSize,
    is_manifest_, \* is the directory synced too?
    MaxBytes      \* how many bytes are appended

VARIABLES
    appended,   \* how many bytes were given to Append
    buf_,       \* buf_[0 .. pos_ - 1]
    file,       \* the bytes handed to the kernel
    synced,     \* how many of them fdatasync has made durable
    all_ok,     \* has every call so far returned ok?
    fd_open

fileVars == <<appended, buf_, file, synced, all_ok, fd_open>>

FileInit ==
    /\ appended = 0 /\ buf_ = <<>> /\ file = <<>> /\ synced = 0
    /\ all_ok = TRUE /\ fd_open = TRUE

\* WriteUnbuffered: all the data, or a part of it and an error.
Written(data, ok) ==
    IF ok THEN {data} ELSE {SubSeq(data, 1, k) : k \in 0 .. Len(data) - 1}

\* FlushBuffer empties the buffer even when the write fails.
FlushBuffer(ok) ==
    /\ \E w \in Written(buf_, ok) : file' = file \o w
    /\ buf_' = <<>>

New(n) == [i \in 1 .. n |-> appended + i]

\* Append: what fits goes to the buffer; if there is more, the buffer is
\* flushed, and the rest is buffered or, when it is large, written.
AppendFits(n) ==
    /\ Len(buf_) + n <= kWritableFileBufferSize
    /\ buf_' = buf_ \o New(n)
    /\ UNCHANGED <<file, all_ok>>

AppendFlushes(n) ==
    LET room == kWritableFileBufferSize - Len(buf_)
        full == buf_ \o SubSeq(New(n), 1, room)
        rest == SubSeq(New(n), room + 1, n)
    IN  /\ n > room
        /\ \/ /\ \E w \in Written(full, FALSE) : file' = file \o w
              /\ buf_' = <<>> /\ all_ok' = FALSE
           \/ /\ Len(rest) < kWritableFileBufferSize
              /\ file' = file \o full /\ buf_' = rest
              /\ UNCHANGED all_ok
           \/ /\ Len(rest) >= kWritableFileBufferSize
              /\ buf_' = <<>>
              /\ \E ok \in BOOLEAN :
                  /\ \E w \in Written(rest, ok) : file' = file \o full \o w
                  /\ all_ok' = (all_ok /\ ok)

FileAppend(n) ==
    /\ fd_open /\ appended + n <= MaxBytes
    /\ AppendFits(n) \/ AppendFlushes(n)
    /\ appended' = appended + n
    /\ UNCHANGED <<synced, fd_open>>

FileFlush(ok) ==
    /\ fd_open
    /\ FlushBuffer(ok)
    /\ all_ok' = (all_ok /\ ok)
    /\ UNCHANGED <<appended, synced, fd_open>>

\* Mutant of FileSync: the data in the buffer is overlooked.
FileSyncUnflushed(ok) ==
    /\ fd_open
    /\ synced' = IF ok THEN Len(file) ELSE synced
    /\ all_ok' = (all_ok /\ ok)
    /\ UNCHANGED <<appended, buf_, file, fd_open>>

\* Sync: the directory of a manifest, the buffer, and the file.
FileSync(ok) ==
    /\ fd_open
    /\ \/ /\ ~ok /\ is_manifest_    \* SyncDirIfManifest fails, ...
          /\ UNCHANGED <<buf_, file, synced>>
       \/ /\ ~ok    \* ... or the write ...
          /\ FlushBuffer(FALSE)
          /\ UNCHANGED synced
       \/ /\ FlushBuffer(TRUE)
          /\ synced' = IF ok THEN Len(file') ELSE synced    \* ... or fdatasync
    /\ all_ok' = (all_ok /\ ok)
    /\ UNCHANGED <<appended, fd_open>>

\* Close: the descriptor is gone whether the write, or close, fails or not.
FileClose(ok) ==
    /\ fd_open
    /\ \E flushed \in BOOLEAN : (ok => flushed) /\ FlushBuffer(flushed)
    /\ all_ok' = (all_ok /\ ok) /\ fd_open' = FALSE
    /\ UNCHANGED <<appended, synced>>

FileNext ==
    \/ \E n \in 1 .. MaxBytes : FileAppend(n)
    \/ \E ok \in BOOLEAN : FileFlush(ok) \/ FileSync(ok) \/ FileClose(ok)

FileSpec == FileInit /\ [][FileNext]_fileVars

\* As long as every call has returned ok, the file and the buffer hold what
\* was appended, and all of it is durable after a Sync.  After an error bytes
\* may be missing, but what is there is in order and nothing is there twice.
FileHasNoGap ==
    /\ [](all_ok => file \o buf_ = [i \in 1 .. appended |-> i])
    /\ [](\A i, j \in DOMAIN (file \o buf_) : i < j => (file \o buf_)[i] < (file \o buf_)[j])
    /\ [][FileSync(TRUE) /\ all_ok => synced' = appended]_fileVars
=============================================================================
