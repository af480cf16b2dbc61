------------------------------ MODULE Recovery ------------------------------
(***************************************************************************)
(* What survives a crash: DB::Open and the recovery it runs, the write     *)
(* path's log, the flush and compaction steps that replace logs and tables *)
(* by new tables, the MANIFEST and CURRENT files, and RemoveObsoleteFiles  *)
(* (db/db_impl.cc, db/version_set.cc, db/filename.cc, db/builder.cc).      *)
(*                                                                         *)
(* A process or a machine may crash between any two operations on files.   *)
(* Files are sequences of records: the bytes of a record that was written  *)
(* only in part are Torn.  A log fits one block of log::Reader, so nothing *)
(* after torn bytes can be read.  A table is one record, the set of writes *)
(* it holds.  Keys are not modelled: every write is its own key.           *)
(* options: create_if_missing = true, paranoid_checks = false.             *)
(***************************************************************************)
EXTENDS Integers, SequencesExt, FiniteSetsExt

CONSTANTS
    Writes,     \* the identities of the writes, issued in their order: 1 .. n
    Torn,       \* the bytes of a partial record
    None,       \* no memtable
    Setups      \* the options, and the bounds on what happens, of each instance

\* reuse: options.reuse_logs, the same at each Open.  refusals: may a file that
\* was to be reused be refused, and an empty memtable be switched?  The others
\* bound the writes, the crashes and failures, the versions that iterators
\* pin and the compactions.
ASSUME SetupsAssumption ==
    Setups \subseteq [reuse : BOOLEAN, refusals : BOOLEAN, writes : SUBSET Writes,
                      faults : Nat, pins : Nat, compactions : Nat]

VARIABLES
    disk,     \* the files, as the operating system shows and could lose them
    vs,       \* the VersionSet
    mem,      \* DBImpl::mem_, or None
    imm,      \* DBImpl::imm_, or None
    logfile,  \* DBImpl::logfile_number_
    pending,  \* DBImpl::pending_outputs_
    bgError,  \* is DBImpl::bg_error_ set?
    job,      \* the thread in DB::Open, then the background thread
    comp,     \* the compaction whose output file is open, or NoComp
    writer,   \* the write at the front of the queue
    pinned,   \* versions that iterators hold
    used,     \* the writes issued
    stable,   \* writes acknowledged with sync = true
    found,    \* what a recovery of the files would find
    behind,   \* writes in logs, behind the bytes of a partial record
    damaged,  \* has a descriptor with torn or unsynced edits been reused?
    faults,   \* crashes, failures and switches of empty memtables so far
    compactions,  \* started so far
    setup     \* the member of Setups that this instance is

volatile == <<vs, mem, imm, logfile, pending, bgError, job, comp, writer, pinned>>
vars == <<disk, volatile, used, stable, found, behind, damaged, faults, compactions, setup>>

NoComp == [inputs |-> {}, out |-> 0]
NoWriter == [w |-> 0, seq |-> 0, sync |-> FALSE]
NoEdit == [new |-> {}, del |-> {}, log |-> 0]
NoVersions == [tables |-> {}, log |-> 0, next |-> 2, manifest |-> 0, last |-> 0,
               open |-> FALSE]
NoJob == [pc |-> "closed", why |-> "open", edit |-> NoEdit, num |-> 0, data |-> {},
          logs |-> <<>>, recs |-> <<>>, flushed |-> FALSE,
          save |-> FALSE, del |-> {}]
Idle == [NoJob EXCEPT !.pc = "idle", !.why = "idle"]

(***************************************************************************)
(* File names and the files.  dir is the directory that running processes  *)
(* see; a machine crash may bring back one of the directories in past.     *)
(* Changes of the directory reach the disk in order, as in a journalled    *)
(* file system, and syncing a file also commits the changes made before.   *)
(***************************************************************************)
LogFile(n) == <<"log", n>>
TableFile(n) == <<"table", n>>
DescriptorFile(n) == <<"manifest", n>>
TempFile(n) == <<"tmp", n>>

NumbersOf(type, files) == {f[2] : f \in {g \in files : g[1] = type}}

\* The contents of files that no directory names are gone.
Trim(d) ==
    LET named == d.dir.files \cup UNION {p.files : p \in d.past}
    IN  [d EXCEPT !.data = [f \in DOMAIN d.data \cap named |-> d.data[f]]]

ChangeDir(d, dir) == [d EXCEPT !.past = @ \cup {d.dir}, !.dir = dir]

\* NewWritableFile, which truncates, and the records written at once.
NewFile(d, f, recs) ==
    LET e == ChangeDir(d, [d.dir EXCEPT !.files = @ \cup {f}])
    IN  [e EXCEPT !.data = [g \in DOMAIN d.data \cup {f} |->
                               IF g = f THEN [recs |-> recs, synced |-> 0] ELSE d.data[g]]]

AddRecord(d, f, r) == [d EXCEPT !.data[f].recs = Append(@, r)]

SyncFile(d, f) ==
    Trim([d EXCEPT !.data[f].synced = Len(d.data[f].recs), !.past = {}])

RemoveFile(d, f) == Trim(ChangeDir(d, [d.dir EXCEPT !.files = @ \ {f}]))

\* The rename of SetCurrentFile, which is atomic.
RenameToCurrent(d, n) ==
    Trim(ChangeDir(d, [files |-> d.dir.files \ {TempFile(n)}, current |-> n]))

\* log::Reader over a file of one block.
Readable(recs) ==
    LET t == SelectInSeq(recs, LAMBDA r : r = Torn)
    IN  IF t = 0 THEN recs ELSE SubSeq(recs, 1, t - 1)

\* A partial record at the end of a file is its end.  Anywhere else its
\* checksum does not match, which the reader reports.
Corrupt(recs) == \E i \in 1 .. Len(recs) - 1 : recs[i] = Torn

CorruptFiles(d, type) == {f \in DOMAIN d.data : f[1] = type /\ Corrupt(d.data[f].recs)}

Unsynced(d, f) == d.data[f].synced < Len(d.data[f].recs)

LastSeq(recs) == Max({0} \cup {r.seq : r \in ToSet(recs)})

(***************************************************************************)
(* Reading a database back.                                                *)
(***************************************************************************)
\* VersionSet::Recover: the edits of the descriptor that CURRENT names,
\* applied in order; DBImpl::Recover then looks for the tables they name.
\* The search goes by number, whatever the type of the file.
ReadDescriptor(d) ==
    LET f == DescriptorFile(d.dir.current)
        recs == IF f \in d.dir.files THEN d.data[f].recs ELSE <<>>
        edits == Readable(recs)
        i == SelectLastInSeq(edits, LAMBDA e : e.has)
        tables == UNION {edits[k].new \ UNION {edits[j].del : j \in k + 1 .. Len(edits)}
                         : k \in 1 .. Len(edits)}
    IN  [ok |-> ~Corrupt(recs) /\ i # 0 /\ tables \subseteq {g[2] : g \in d.dir.files},
         tables |-> tables,
         log |-> IF i = 0 THEN 0 ELSE edits[i].log,
         next |-> IF i = 0 THEN 0 ELSE edits[i].next,
         last |-> IF i = 0 THEN 0 ELSE edits[i].last]

TableData(d, n) ==
    LET recs == IF TableFile(n) \in d.dir.files THEN d.data[TableFile(n)].recs ELSE <<>>
    IN  IF recs = <<>> \/ recs[1] = Torn THEN {} ELSE recs[1]

LogsFrom(d, n) == {k \in NumbersOf("log", d.dir.files) : k >= n}

LogData(d, n) == LET recs == d.data[LogFile(n)].recs IN ToSet(Readable(recs))

TablesData(d, tables) == UNION {TableData(d, n) : n \in tables}

\* Everything a recovery of the files as they are finds.
Recovered(d) ==
    LET m == ReadDescriptor(d)
    IN  IF d.dir.current = 0 \/ ~m.ok THEN {}
        ELSE TablesData(d, m.tables) \cup UNION {LogData(d, n) : n \in LogsFrom(d, m.log)}

Ids(recs) == {r.w : r \in recs}

\* The writes that a recovery passes over: a partial record precedes them in
\* a log, one that is there or that a machine crash could bring back.
BehindTorn(d) ==
    UNION {LET recs == d.data[f].recs IN Ids(ToSet(recs) \ (ToSet(Readable(recs)) \cup {Torn}))
           : f \in CorruptFiles(d, "log")}

(***************************************************************************)
(* DB::Open                                                                *)
(***************************************************************************)
Open ==
    /\ job.pc = "closed"
    /\ job' = [NoJob EXCEPT !.pc = IF disk.dir.current = 0 THEN "newdb" ELSE "recover"]
    /\ UNCHANGED <<disk, vs, mem, imm, logfile, pending, bgError, comp, writer, pinned,
                   used, stable, faults>>

\* Every other step of the job leaves the history and the writer alone.
JobAt(pc) ==
    /\ job.pc = pc
    /\ UNCHANGED <<writer, pinned, used, stable, faults>>

\* DBImpl::NewDB, up to the Sync of MANIFEST-000001.
NewDB ==
    /\ JobAt("newdb")
    /\ disk' = NewFile(disk, DescriptorFile(1),
                       <<[has |-> TRUE, new |-> {}, del |-> {}, log |-> 0, next |-> 2,
                          last |-> 0]>>)
    /\ job' = [job EXCEPT !.pc = "msync"]
    /\ vs' = [vs EXCEPT !.manifest = 1]
    /\ UNCHANGED <<mem, imm, logfile, pending, bgError, comp>>

SortedLogs(d, n) == SetToSortSeq(LogsFrom(d, n), LAMBDA a, b : a < b)

LogRecords(d, logs) == IF logs = <<>> THEN <<>> ELSE Readable(d.data[LogFile(logs[1])].recs)

\* VersionSet::Recover with ReuseManifest, which may refuse (a descriptor of
\* the target file size, or one that cannot be opened), and the first part of
\* DBImpl::Recover.  Open fails if the descriptor cannot be used.
Recover ==
    /\ JobAt("recover")
    /\ LET m == ReadDescriptor(disk)
           logs == SortedLogs(disk, m.log)
       IN  IF m.ok
           THEN \E keep \in {setup.reuse, setup.reuse /\ ~setup.refusals} :
                /\ vs' = [tables |-> m.tables, log |-> m.log, next |-> m.next + 1,
                          manifest |-> IF keep THEN disk.dir.current ELSE m.next,
                          last |-> m.last, open |-> keep]
                /\ job' = [job EXCEPT !.pc = "replay", !.save = ~keep, !.logs = logs,
                                      !.recs = LogRecords(disk, logs)]
           ELSE job' = NoJob /\ UNCHANGED vs
    /\ UNCHANGED <<disk, mem, imm, logfile, pending, bgError, comp>>

\* Go on to the next log: MarkFileNumberUsed, and the sequence numbers seen.
NextLog(j) ==
    LET logs == Tail(j.logs)
    IN  [j EXCEPT !.logs = logs, !.recs = LogRecords(disk, logs), !.flushed = FALSE]

\* Mutant of LogSeen: the log's sequence numbers are not looked at.
LogSeenNumber(n) == vs' = [vs EXCEPT !.next = Max({@, n + 1})]

LogSeen(n) ==
    vs' = [vs EXCEPT !.next = Max({@, n + 1}),
                     !.last = Max({@, LastSeq(Readable(disk.data[LogFile(n)].recs))})]

\* RecoverLogFile: the first k records left fill a memtable, which is
\* written to a table because it is large or because the log ends.
ReplayChunk ==
    /\ JobAt("replay")
    /\ job.recs # <<>>
    /\ \E k \in 1 .. Len(job.recs) :
        job' = [job EXCEPT !.pc = "table", !.data = ToSet(SubSeq(job.recs, 1, k)),
                           !.recs = SubSeq(@, k + 1, Len(@)), !.flushed = TRUE,
                           !.save = TRUE]
    /\ UNCHANGED <<disk, vs, mem, imm, logfile, pending, bgError, comp>>

CanReuse == setup.reuse /\ Len(job.logs) = 1 /\ ~job.flushed

\* RecoverLogFile keeps the last log and its memtable, if it can open it.
ReplayReuse ==
    /\ JobAt("replay")
    /\ job.logs # <<>> /\ CanReuse
    /\ mem' = ToSet(job.recs)
    /\ logfile' = job.logs[1]
    /\ LogSeen(job.logs[1])
    /\ job' = NextLog(job)
    /\ UNCHANGED <<disk, imm, pending, bgError, comp>>

ReplayEnd ==
    /\ JobAt("replay")
    /\ job.logs # <<>> /\ job.recs = <<>> /\ (CanReuse => setup.refusals)
    /\ LogSeen(job.logs[1])
    /\ job' = NextLog(job)
    /\ UNCHANGED <<disk, mem, imm, logfile, pending, bgError, comp>>

\* DB::Open after DBImpl::Recover: a new log unless one is reused.  With
\* nothing to save the version is in place, and Install changes nothing.
OpenLog ==
    /\ JobAt("replay")
    /\ job.logs = <<>>
    /\ LET pc == IF job.save THEN "append" ELSE "install"
       IN  IF mem = None
           THEN /\ disk' = NewFile(disk, LogFile(vs.next), <<>>)
                /\ vs' = [vs EXCEPT !.next = @ + 1]
                /\ logfile' = vs.next
                /\ mem' = {}
                /\ job' = [job EXCEPT !.pc = pc,
                                      !.edit.log = IF job.save THEN vs.next ELSE vs.log]
           ELSE /\ job' = [job EXCEPT !.pc = pc,
                                      !.edit.log = IF job.save THEN logfile ELSE vs.log]
                /\ UNCHANGED <<disk, vs, logfile, mem>>
    /\ UNCHANGED <<imm, pending, bgError, comp>>

(***************************************************************************)
(* Steps that DB::Open shares with flushes and compactions.                *)
(***************************************************************************)
\* WriteLevel0Table and BuildTable, up to the Sync of the table.  An empty
\* memtable makes no table: CompactMemTable goes on with the log in use.
WriteTable ==
    /\ JobAt("table")
    /\ vs' = [vs EXCEPT !.next = @ + 1]
    /\ IF job.data # {}
       THEN /\ disk' = NewFile(disk, TableFile(vs.next), <<job.data>>)
            /\ pending' = pending \cup {vs.next}
            /\ job' = [job EXCEPT !.pc = "tsync", !.num = vs.next]
       ELSE /\ disk' = IF TableFile(vs.next) \in disk.dir.files
                       THEN RemoveFile(disk, TableFile(vs.next)) ELSE disk
            /\ job' = [job EXCEPT !.pc = "append", !.edit.log = logfile]
            /\ UNCHANGED pending
    /\ UNCHANGED <<mem, imm, logfile, bgError, comp>>

\* The Sync and what follows.  A compaction keeps its outputs pending until
\* CleanupCompaction.  A flush that ends names the log in use, which is the
\* oldest one still needed.
SyncTable ==
    /\ JobAt("tsync")
    /\ disk' = SyncFile(disk, TableFile(job.num))
    /\ pending' = IF job.why = "compact" THEN pending ELSE pending \ {job.num}
    /\ job' = [job EXCEPT !.pc = IF job.why = "open" THEN "replay" ELSE "append",
                          !.edit.new = @ \cup {job.num},
                          !.edit.log = IF job.why = "flush" THEN logfile ELSE @]
    /\ UNCHANGED <<vs, mem, imm, logfile, bgError, comp>>

\* VersionSet::LogAndApply up to the Sync of the descriptor.  A new
\* descriptor starts with WriteSnapshot, which holds no numbers.
EditRecord ==
    [has |-> TRUE, new |-> job.edit.new, del |-> job.edit.del, next |-> vs.next,
     last |-> vs.last, log |-> IF job.edit.log = 0 THEN vs.log ELSE job.edit.log]

Snapshot == [has |-> FALSE, new |-> vs.tables, del |-> {}, log |-> 0, next |-> 0, last |-> 0]

AppendEdit ==
    /\ JobAt("append")
    /\ disk' = IF vs.open
               THEN AddRecord(disk, DescriptorFile(vs.manifest), EditRecord)
               ELSE NewFile(disk, DescriptorFile(vs.manifest), <<Snapshot, EditRecord>>)
    /\ job' = [job EXCEPT !.pc = "msync", !.edit.log = EditRecord.log]
    /\ UNCHANGED <<vs, mem, imm, logfile, pending, bgError, comp>>

\* Mutant of SyncDescriptor: CURRENT is switched before the Sync.
SyncDescriptorLate ==
    /\ JobAt("msync")
    /\ disk' = IF vs.open THEN SyncFile(disk, DescriptorFile(vs.manifest)) ELSE disk
    /\ job' = [job EXCEPT !.pc = IF vs.open THEN "install" ELSE "tmp"]
    /\ UNCHANGED <<vs, mem, imm, logfile, pending, bgError, comp>>

SyncDescriptor ==
    /\ JobAt("msync")
    /\ disk' = SyncFile(disk, DescriptorFile(vs.manifest))
    /\ job' = [job EXCEPT !.pc = IF vs.open THEN "install" ELSE "tmp"]
    /\ UNCHANGED <<vs, mem, imm, logfile, pending, bgError, comp>>

\* SetCurrentFile: WriteStringToFileSync, then RenameFile.
WriteTemp ==
    /\ JobAt("tmp")
    /\ disk' = SyncFile(NewFile(disk, TempFile(vs.manifest), <<vs.manifest>>),
                        TempFile(vs.manifest))
    /\ job' = [job EXCEPT !.pc = "rename"]
    /\ UNCHANGED <<vs, mem, imm, logfile, pending, bgError, comp>>

\* After NewDB, whose descriptor is closed, Open goes on with Recover.
RenameTemp ==
    /\ JobAt("rename")
    /\ disk' = RenameToCurrent(disk, vs.manifest)
    /\ IF disk.dir.current = 0
       THEN job' = [job EXCEPT !.pc = "recover"] /\ UNCHANGED vs
       ELSE job' = [job EXCEPT !.pc = "install"] /\ vs' = [vs EXCEPT !.open = TRUE]
    /\ UNCHANGED <<mem, imm, logfile, pending, bgError, comp>>

\* Mutant of Obsolete: versions that only iterators hold are not live.
ObsoleteCurrentOnly(version, outputs) ==
    LET live == outputs \cup version.tables
    IN  {f \in disk.dir.files : CASE f[1] = "log" -> f[2] < version.log
                                  [] f[1] = "manifest" -> f[2] < version.manifest
                                  [] OTHER -> f[2] \notin live}

\* Mutant of Obsolete: an off-by-one in the log that is kept.
ObsoleteLog(version, outputs) ==
    LET live == outputs \cup version.tables \cup UNION pinned
    IN  {f \in disk.dir.files : CASE f[1] = "log" -> f[2] <= version.log
                                  [] f[1] = "manifest" -> f[2] < version.manifest
                                  [] OTHER -> f[2] \notin live}

\* The files that RemoveObsoleteFiles does not keep, by their type.
Obsolete(version, outputs) ==
    LET live == outputs \cup version.tables \cup UNION pinned
    IN  {f \in disk.dir.files : CASE f[1] = "log" -> f[2] < version.log
                                  [] f[1] = "manifest" -> f[2] < version.manifest
                                  [] OTHER -> f[2] \notin live}

\* LogAndApply installs the version; a flush drops imm_, and a compaction
\* its pending outputs.  Then RemoveObsoleteFiles lists the directory, unless
\* there is a background error.
Install ==
    /\ JobAt("install")
    /\ vs' = [vs EXCEPT !.tables = (@ \ job.edit.del) \cup job.edit.new,
                        !.log = job.edit.log]
    /\ imm' = IF job.why = "flush" THEN None ELSE imm
    /\ pending' = IF job.why = "compact" THEN pending \ {comp.out} ELSE pending
    /\ comp' = IF job.why = "compact" THEN NoComp ELSE comp
    /\ job' = [job EXCEPT !.pc = "remove",
                          !.del = IF bgError THEN {} ELSE Obsolete(vs', pending')]
    /\ UNCHANGED <<disk, mem, logfile, bgError>>

\* The files are removed one by one, with the mutex released.  The order is
\* that of GetChildren; one order is enough, for none of them is read again.
RemoveObsolete ==
    /\ JobAt("remove")
    /\ IF job.del = {}
       THEN job' = Idle /\ UNCHANGED disk
       ELSE LET f == CHOOSE f \in job.del : \A g \in job.del : f[2] <= g[2]
            IN  disk' = RemoveFile(disk, f) /\ job' = [job EXCEPT !.del = @ \ {f}]
    /\ UNCHANGED <<vs, mem, imm, logfile, pending, bgError, comp>>

(***************************************************************************)
(* Background work of an open database.                                    *)
(***************************************************************************)
\* CompactMemTable, called by BackgroundCompaction or inside the loop of
\* DoCompactionWork, where no one asks for bg_error_.
StartFlush ==
    /\ JobAt("idle")
    /\ imm # None
    /\ comp # NoComp \/ ~bgError
    /\ job' = [Idle EXCEPT !.pc = "table", !.why = "flush", !.data = imm]
    /\ UNCHANGED <<disk, vs, mem, imm, logfile, pending, bgError, comp>>

\* DoCompactionWork opens an output for a set of inputs.
StartCompaction ==
    /\ JobAt("idle")
    /\ imm = None /\ comp = NoComp /\ ~bgError
    /\ compactions < setup.compactions
    /\ \E inputs \in SUBSET vs.tables :
        /\ inputs # {}
        /\ comp' = [inputs |-> inputs, out |-> vs.next]
    /\ disk' = NewFile(disk, TableFile(vs.next), <<>>)
    /\ vs' = [vs EXCEPT !.next = @ + 1]
    /\ pending' = pending \cup {vs.next}
    /\ UNCHANGED <<mem, imm, logfile, bgError, job>>

\* FinishCompactionOutputFile and InstallCompactionResults.
FinishCompaction ==
    /\ JobAt("idle")
    /\ comp # NoComp
    /\ disk' = AddRecord(disk, TableFile(comp.out), TablesData(disk, comp.inputs))
    /\ job' = [Idle EXCEPT !.pc = "tsync", !.why = "compact", !.num = comp.out,
                           !.edit.del = comp.inputs]
    /\ UNCHANGED <<vs, mem, imm, logfile, pending, bgError, comp>>

(***************************************************************************)
(* Failures of the job's file operations: what BuildTable, LogAndApply and *)
(* SetCurrentFile clean up.  DB::Open then deletes the database object,    *)
(* and background work records a background error.                         *)
(***************************************************************************)
Down ==
    /\ vs' = NoVersions /\ mem' = None /\ imm' = None /\ logfile' = 0
    /\ pending' = {} /\ bgError' = FALSE /\ job' = NoJob /\ comp' = NoComp
    /\ writer' = NoWriter /\ pinned' = {}

AfterFailure ==
    LET manifest == DescriptorFile(vs.manifest)
        created == ~vs.open /\ disk.dir.current # 0
    IN  CASE job.pc = "tsync" ->
                {IF job.why = "compact" THEN disk ELSE RemoveFile(disk, TableFile(job.num))}
          [] job.pc = "append" ->
                IF vs.open THEN {disk, AddRecord(disk, manifest, Torn)} ELSE {disk}
          [] job.pc = "msync" -> {IF vs.open THEN disk ELSE RemoveFile(disk, manifest)}
          [] job.pc = "tmp" -> {IF created THEN RemoveFile(disk, manifest) ELSE disk}
          [] job.pc = "rename" ->
                LET d == RemoveFile(disk, TempFile(vs.manifest))
                IN  {IF created THEN RemoveFile(d, manifest) ELSE d}
          [] OTHER -> {}

JobFails ==
    /\ faults < setup.faults
    /\ faults' = faults + 1
    /\ disk' \in AfterFailure
    /\ IF job.why = "open"
       THEN Down
       ELSE /\ bgError' = TRUE
            /\ job' = Idle
            /\ pending' = pending \ {job.num}
            /\ comp' = IF job.why = "compact" THEN NoComp ELSE comp
            /\ UNCHANGED <<vs, mem, imm, logfile, writer, pinned>>
    /\ UNCHANGED <<used, stable>>

(***************************************************************************)
(* Writes: one at a time, at the front of the queue of DBImpl::Write.      *)
(***************************************************************************)
Up == job.why # "open"

\* A writer that may go on, for a write not issued before.
MayWrite == Up /\ writer = NoWriter /\ ~bgError

NextWrite == Cardinality(used) + 1

\* MakeRoomForWrite switches to a new log and memtable: a full one, or any,
\* an empty one too, when a compaction forces it with an empty batch.
SwitchMemTable ==
    /\ MayWrite
    /\ imm = None
    /\ mem = {} => setup.refusals /\ faults < setup.faults
    /\ faults' = IF mem = {} THEN faults + 1 ELSE faults
    /\ disk' = NewFile(disk, LogFile(vs.next), <<>>)
    /\ vs' = [vs EXCEPT !.next = @ + 1]
    /\ logfile' = vs.next
    /\ imm' = mem /\ mem' = {}
    /\ UNCHANGED <<pending, bgError, job, comp, writer, pinned, used, stable>>

\* DBImpl::Write appends the batch to the log, with the mutex released.
AppendLog ==
    /\ MayWrite
    /\ NextWrite \in setup.writes
    /\ \E sync \in BOOLEAN :
        writer' = [w |-> NextWrite, seq |-> vs.last + 1, sync |-> sync]
    /\ disk' = AddRecord(disk, LogFile(logfile), [w |-> NextWrite, seq |-> vs.last + 1])
    /\ used' = used \cup {NextWrite}
    /\ UNCHANGED <<vs, mem, imm, logfile, pending, bgError, job, comp, pinned, stable, faults>>

\* AddRecord fails, maybe after some bytes.  The writer gets the error, and
\* the database goes on with the same log.
AppendLogFails ==
    /\ MayWrite
    /\ NextWrite \in setup.writes
    /\ faults < setup.faults
    /\ faults' = faults + 1
    /\ disk' \in {disk, AddRecord(disk, LogFile(logfile), Torn)}
    /\ vs' = [vs EXCEPT !.last = @ + 1]
    /\ used' = used \cup {NextWrite}
    /\ UNCHANGED <<mem, imm, logfile, pending, bgError, job, comp, writer, pinned, stable>>

\* Mutant of FinishWrite: sync writes are not synced.
FinishWriteUnsynced ==
    /\ writer # NoWriter
    /\ mem' = mem \cup {[w |-> writer.w, seq |-> writer.seq]}
    /\ vs' = [vs EXCEPT !.last = writer.seq]
    /\ stable' = IF writer.sync THEN stable \cup {writer.w} ELSE stable
    /\ writer' = NoWriter
    /\ UNCHANGED <<disk, imm, logfile, pending, bgError, job, comp, pinned, used, faults>>

\* The Sync, the insertion into the memtable and the acknowledgement.
FinishWrite ==
    /\ writer # NoWriter
    /\ disk' = IF writer.sync THEN SyncFile(disk, LogFile(logfile)) ELSE disk
    /\ mem' = mem \cup {[w |-> writer.w, seq |-> writer.seq]}
    /\ vs' = [vs EXCEPT !.last = writer.seq]
    /\ stable' = IF writer.sync THEN stable \cup {writer.w} ELSE stable
    /\ writer' = NoWriter
    /\ UNCHANGED <<imm, logfile, pending, bgError, job, comp, pinned, used, faults>>

\* The Sync fails: a background error, and nothing in the memtable.
SyncFails ==
    /\ writer.sync
    /\ faults < setup.faults
    /\ faults' = faults + 1
    /\ bgError' = TRUE
    /\ vs' = [vs EXCEPT !.last = writer.seq]
    /\ writer' = NoWriter
    /\ UNCHANGED <<disk, mem, imm, logfile, pending, job, comp, pinned, used, stable>>

(***************************************************************************)
(* Iterators hold the version they were created on.                        *)
(***************************************************************************)
NewIterator ==
    /\ Up
    /\ vs.tables # {}
    /\ Cardinality(pinned \cup {vs.tables}) <= setup.pins
    /\ pinned' = pinned \cup {vs.tables}
    /\ UNCHANGED <<disk, vs, mem, imm, logfile, pending, bgError, job, comp, writer, used,
                   stable, faults>>

ReleaseIterator ==
    /\ \E v \in pinned : pinned' = pinned \ {v}
    /\ UNCHANGED <<disk, vs, mem, imm, logfile, pending, bgError, job, comp, writer, used,
                   stable, faults>>

(***************************************************************************)
(* Crashes.  The end of the process keeps what it has written; the end of  *)
(* the machine also loses data that was not synced, in the middle of a     *)
(* record or between two, and the latest changes of the directory.         *)
(***************************************************************************)
ProcessCrash ==
    /\ job.pc # "closed" /\ faults < setup.faults
    /\ faults' = faults + 1
    /\ Down
    /\ UNCHANGED <<disk, used, stable>>

\* What a crash can leave of a file: whole records, then maybe a torn one.
Cuts(file) ==
    {c \in (file.synced .. Len(file.recs)) \X BOOLEAN : c[2] => c[1] < Len(file.recs)}

Cut(file, c) ==
    LET recs == SubSeq(file.recs, 1, c[1]) \o (IF c[2] THEN <<Torn>> ELSE <<>>)
    IN  [recs |-> recs, synced |-> Len(recs)]

MachineCrash ==
    /\ job.pc # "closed" /\ faults < setup.faults
    /\ faults' = faults + 1
    /\ \E dir \in disk.past \cup {disk.dir} :
        LET lossy == {f \in dir.files : Unsynced(disk, f)}
        IN  \E cut \in [lossy -> UNION {Cuts(disk.data[f]) : f \in lossy}] :
                /\ \A f \in lossy : cut[f] \in Cuts(disk.data[f])
                /\ disk' = [dir |-> dir, past |-> {},
                            data |-> [f \in dir.files |->
                                        IF f \in lossy THEN Cut(disk.data[f], cut[f])
                                        ELSE disk.data[f]]]
    /\ Down
    /\ UNCHANGED <<used, stable>>

\* What a reader of an open database sees.
Visible ==
    mem \cup (IF imm = None THEN {} ELSE imm) \cup TablesData(disk, vs.tables)

Init ==
    /\ disk = [dir |-> [files |-> {}, current |-> 0], past |-> {}, data |-> [f \in {} |-> 0]]
    /\ vs = NoVersions /\ mem = None /\ imm = None /\ logfile = 0
    /\ pending = {} /\ bgError = FALSE /\ job = NoJob /\ comp = NoComp
    /\ writer = NoWriter /\ pinned = {}
    /\ used = {} /\ stable = {} /\ found = {} /\ behind = {} /\ damaged = FALSE
    /\ faults = 0 /\ compactions = 0 /\ setup \in Setups

JobStep ==
    \/ NewDB \/ Recover \/ ReplayChunk \/ ReplayReuse \/ ReplayEnd \/ OpenLog
    \/ WriteTable \/ SyncTable \/ AppendEdit \/ SyncDescriptor \/ WriteTemp \/ RenameTemp
    \/ Install \/ RemoveObsolete
    \/ StartFlush \/ StartCompaction \/ FinishCompaction \/ JobFails

WriteStep == SwitchMemTable \/ AppendLog \/ AppendLogFails \/ FinishWrite \/ SyncFails

Next ==
    /\ Open \/ JobStep \/ WriteStep \/ NewIterator \/ ReleaseIterator
       \/ ProcessCrash \/ MachineCrash
    /\ UNCHANGED setup
    /\ compactions' = IF comp = NoComp /\ comp' # NoComp THEN compactions + 1 ELSE compactions
    /\ IF disk' = disk
       THEN UNCHANGED <<found, behind>>
       ELSE found' = Recovered(disk') /\ behind' = BehindTorn(disk')
    /\ damaged' = \/ damaged
                  \/ CorruptFiles(disk', "manifest") # {}
                  \/ /\ job.pc = "recover" /\ vs'.open
                     /\ Unsynced(disk, DescriptorFile(disk.dir.current))

Spec == Init /\ [][Next]_vars

(***************************************************************************)
(* Properties.                                                             *)
(***************************************************************************)
\* The abstract store: what a recovery of the files would find, at every
\* moment, Open included.
Store == INSTANCE DurableStore WITH store <- Ids(found)

\* Only a crash of the machine loses a write that a recovery would find, and
\* none that a sync acknowledged: no end of the process does (options.h,
\* WriteOptions::sync; doc/index.md), no Open, flush, compaction, failed file
\* operation or RemoveObsoleteFiles; no lost write comes back and none appears
\* in part.  Two things are exempt, as DurableStore says: writes behind a
\* partial record of a log (see SyncedIsFound), and all once a MANIFEST with
\* torn or unsynced edits has been reused, with the experimental reuse_logs.
Durable ==
    Store!Init /\ [][Store!Step \/ (MachineCrash /\ Store!Reboot)]_(Store!absvars)

\* A write acknowledged with sync = true can be found by a recovery from then
\* on (include/leveldb/options.h on WriteOptions::sync).
SyncedIsFound == stable \subseteq Ids(found)

\* A reader of an open database sees what a recovery of the files would find,
\* while no write is under way and until a background error: each write is in
\* the memtable and a log that is kept, or in a live table.  More is visible
\* only where a write lies behind a partial record of its log.  Stores whose
\* MANIFEST was reused with torn or unsynced edits are exempt.
MemoryMatchesFiles ==
    Up /\ writer = NoWriter /\ ~bgError /\ ~damaged =>
        found \subseteq Visible /\ Ids(Visible \ found) \subseteq behind

\* Each table of the current version, and of a version that an iterator holds,
\* is in the directory with its contents: RemoveObsoleteFiles and a truncating
\* NewWritableFile leave it alone, whatever numbers orphans of a crash had.
LiveTablesIntact ==
    Up => \A v \in pinned \cup {vs.tables} : \A n \in v : TableData(disk, n) # {}

\* No crash leaves files that VersionSet::Recover or the check for missing
\* tables in DBImpl::Recover rejects, unless a MANIFEST with torn or unsynced
\* edits was reused: an edit behind a torn one makes every later Open fail.
OpenSucceeds == job.pc = "recover" /\ ~damaged => ReadDescriptor(disk).ok

\* A sequence number given to a write is above those of all records that can
\* be found, so that the newest entry of a key is the last one written: also
\* for records that a flush has not reached and for lost writes' numbers.
\* Stores whose MANIFEST was reused with torn or unsynced edits are exempt.
FreshSequence ==
    Up /\ writer = NoWriter /\ ~damaged =>
        /\ \A r \in found : r.seq <= vs.last
        /\ \A r, q \in found : r.seq = q.seq => r = q
=============================================================================
