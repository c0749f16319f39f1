--------------------------- MODULE AppendOnlyLog ---------------------------
(***************************************************************************)
(* What a Delta table's transaction log promises to its readers and to the *)
(* callers of Commit, with no writers, retries, uploads or checkpoints: a  *)
(* sequence of entries that only ever grows at its end, and a set of       *)
(* acknowledgements, each of which names an entry that is there for good.  *)
(* DeltaTable is shown to implement this specification when a table has    *)
(* one writer at a time.                                                   *)
(***************************************************************************)
EXTENDS Integers

CONSTANTS
    Entry,       \* the contents a log entry may have
    NoEntry,     \* what a version that was never written holds
    MaxVersion   \* bound on the length of the log

Version == 0..MaxVersion

VARIABLES
    entries,     \* [Version -> Entry \cup {NoEntry}]
    acked        \* the <<version, entry>> pairs Commit has returned

vars == <<entries, acked>>

Init ==
    /\ entries = [v \in Version |-> NoEntry]
    /\ acked = {}

\* The next free version.
IsEnd(v) ==
    /\ entries[v] = NoEntry
    /\ \A u \in Version : u < v => entries[u] # NoEntry

(* A write lands at the end of the log; its caller may or may not learn of *)
(* it.                                                                     *)
Append(v, e) ==
    /\ IsEnd(v)
    /\ entries' = [entries EXCEPT ![v] = e]
    /\ acked' \in {acked, acked \cup {<<v, e>>}}

Next == \E v \in Version, e \in Entry : Append(v, e)

Spec == Init /\ [][Next]_vars
=============================================================================
