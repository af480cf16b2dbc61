----------------------------- MODULE MCRecovery ------------------------------
(* Recovery for TLC: the instances whose union the runs explore. *)
EXTENDS Recovery

\* Two writes, a compaction and two faults, with reuse_logs on or off.
Plain == [reuse : BOOLEAN, refusals : {FALSE}, writes : {{1, 2}}, faults : {2},
          pins : {0}, compactions : {1}]

\* An iterator beside them, and one fault.
Pinning == [reuse : BOOLEAN, refusals : {FALSE}, writes : {{1, 2}}, faults : {1},
            pins : {1}, compactions : {1}]

\* Files that are reused at one Open and refused at another, and forced
\* switches of an empty memtable.
Refusing == [reuse : {TRUE}, refusals : {TRUE}, writes : {{1}}, faults : {2},
             pins : {0}, compactions : {0}]

AllSetups == Plain \cup Pinning \cup Refusing

\* Default options, two writes, one failing append or crash.
OneFault == [reuse : {FALSE}, refusals : {FALSE}, writes : {{1, 2}}, faults : {1},
             pins : {0}, compactions : {0}]
=============================================================================
