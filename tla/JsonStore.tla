------------------------------ MODULE JsonStore ------------------------------
(***************************************************************************)
(* JsonStore.write of the processes that share a data directory, call by   *)
(* call: the temporary file is opened, which truncates it, filled, and     *)
(* renamed over the snapshot.  A file that is open stays the same file     *)
(* when it is renamed or replaced.  The actions are called by Sidecar.     *)
(***************************************************************************)
EXTENDS FiniteSets

CONSTANT Pids

VARIABLES
    saving,     \* "idle", "begin", "closed", or which file a process has open:
                \*   "temp", "snapshot", or "lost" when it has been replaced
    temp,       \* what the files hold: "none" if missing, "empty",
    snapshot,   \*   "whole" or "torn"
    raced,      \* history: processes whose save met another one's
    spoilt      \* history: the snapshot comes of such a save

store == <<saving, temp, snapshot, raced, spoilt>>

Open == {"temp", "snapshot", "lost"}
Contents == {"none", "empty", "whole", "torn"}

StoreInit ==
    /\ saving = [p \in Pids |-> "idle"]
    /\ temp = "none" /\ snapshot = "none" /\ raced = {} /\ spoilt = FALSE

BeginSave(p) ==
    /\ saving' = [saving EXCEPT ![p] = "begin"]
    /\ UNCHANGED <<temp, snapshot, raced, spoilt>>

\* Mutant of OpenTemp: the snapshot is written in place.
OpenInPlace(p, live) ==
    /\ saving[p] = "begin"
    /\ saving' = [saving EXCEPT ![p] = "snapshot"]
    /\ snapshot' = "empty"
    /\ UNCHANGED <<temp, raced, spoilt>>
OpenTemp(p, live) ==
    LET met == {q \in live \ {p} : saving[q] \in Open \cup {"closed"}} IN
    /\ saving[p] = "begin"
    /\ saving' = [saving EXCEPT ![p] = "temp"]
    /\ temp' = "empty"
    /\ raced' = IF met = {} THEN raced \ {p} ELSE raced \cup met \cup {p}
    /\ UNCHANGED <<snapshot, spoilt>>

\* What a write from the start of a file may leave: the rest of a longer one stays.
Filled(file) == IF file = "empty" THEN {"whole"} ELSE {"whole", "torn"}

Fill(p) ==
    /\ saving[p] \in Open
    /\ saving' = [saving EXCEPT ![p] = "closed"]
    /\ temp' \in IF saving[p] = "temp" THEN Filled(temp) ELSE {temp}
    /\ snapshot' \in IF saving[p] = "snapshot" THEN Filled(snapshot) ELSE {snapshot}
    /\ UNCHANGED <<raced, spoilt>>

\* It fails when another process has renamed the file.
Rename(p) ==
    /\ saving[p] = "closed" /\ temp # "none"
    /\ snapshot' = temp /\ temp' = "none"
    /\ saving' = [q \in Pids |-> CASE q = p -> "idle"
                                   [] q # p /\ saving[q] = "temp" -> "snapshot"
                                   [] q # p /\ saving[q] = "snapshot" -> "lost"
                                   [] OTHER -> saving[q]]
    /\ spoilt' = (p \in raced)
    /\ UNCHANGED raced

\* One of the calls throws, which #save logs.
Abandon(p) ==
    /\ saving[p] # "idle"
    /\ saving' = [saving EXCEPT ![p] = "idle"]
    /\ UNCHANGED <<temp, snapshot, raced, spoilt>>

SaveStep(p, live) == OpenTemp(p, live) \/ Fill(p) \/ Rename(p) \/ Abandon(p)

\* Whatever dies or fails in the middle of a save, the snapshot is whole, unless
\* two processes were saving at once; even then the next save that meets no other
\* makes it whole.
SnapshotWhole == snapshot \in {"none", "whole"} \/ spoilt
=============================================================================
