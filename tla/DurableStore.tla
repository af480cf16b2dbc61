---------------------------- MODULE DurableStore -----------------------------
(***************************************************************************)
(* What a database promises about writes across crashes (doc/index.md,     *)
(* "Synchronous Writes"; include/leveldb/options.h, WriteOptions::sync),   *)
(* without logs, tables or descriptors.                                    *)
(*                                                                         *)
(* A write is committed at most once, as a whole, and stays in the store   *)
(* whatever the process does and however it ends (Step).  Only a Reboot    *)
(* of the machine loses writes, and none that was acknowledged with sync.  *)
(*                                                                         *)
(* Where the code falls short of that promise, the module says so: a write *)
(* may land behind a partial record, where no reader finds it, and the     *)
(* promise is void once the descriptor is damaged.                         *)
(***************************************************************************)
CONSTANT Writes    \* the identities of the writes issued

VARIABLES
    used,      \* the writes issued
    store,     \* the writes that a reader of a reopened database finds
    behind,    \* the writes that lie in a log behind a partial record
    stable,    \* the writes acknowledged with sync = true
    damaged    \* has a damaged or unsynced descriptor been reused?

absvars == <<used, store, behind, stable, damaged>>

Init == used = {} /\ store = {} /\ behind = {} /\ stable = {} /\ damaged = FALSE

\* A write reaches the store, or lands behind a partial record, or fails and
\* leaves nothing.
Commit(w) ==
    /\ w \notin used
    /\ used' = used \cup {w}
    /\ \/ store' = store \cup {w} /\ behind' = behind
       \/ store' = store /\ behind' = behind \cup {w}
       \/ UNCHANGED <<store, behind>>
    /\ UNCHANGED <<stable, damaged>>

Acknowledge(w) ==
    /\ w \in store \cup behind
    /\ stable' = stable \cup {w}
    /\ UNCHANGED <<used, store, behind, damaged>>

\* What the process does to its files: it may save a write behind a partial
\* record from memory, or forget it, but loses none that can be found.
Tidy ==
    /\ store \subseteq store' /\ store' \subseteq store \cup behind
    /\ behind' \subseteq behind
    /\ UNCHANGED <<used, stable, damaged>>

\* In a damaged store only writes that were issued can be found.
Void ==
    /\ damaged' = TRUE
    /\ used \subseteq used' /\ store' \subseteq used'

Step == (\E w \in Writes : Commit(w) \/ Acknowledge(w)) \/ Tidy \/ Void

\* The end of the machine, for which only synced writes are safe.
Reboot ==
    /\ (stable \cap store) \ behind \subseteq store' /\ store' \subseteq store
    /\ behind' \subseteq behind
    /\ UNCHANGED <<used, stable, damaged>>
=============================================================================
