------------------------------ MODULE OwnerSlot ------------------------------
(***************************************************************************)
(* The single-owner marker of the hermes plugin: every hermes process that *)
(* loads the plugin runs acquire_owner_slot, and only the owner runs the   *)
(* sidecar and the callback listener.  The processes share nothing but the *)
(* file, so each access to it is an action of its own.  A process is named *)
(* by its pid; a pid may come back after its process is gone.              *)
(***************************************************************************)
EXTENDS FiniteSets

CONSTANTS
    Pids,
    Events      \* of {"race": two processes may acquire at the same time,
                \*     "io_error": an access to the file fails,
                \*     "leave": a process ends, or unloads the plugin}

Absent == "absent"      \* no marker
Blank == "blank"        \* a marker without a readable pid

ASSUME PidsAssumption == {Absent, Blank} \cap Pids = {} /\ Events \subseteq {"race", "io_error", "leave"}

VARIABLES
    marker,     \* the contents of the marker
    pc,         \* where each process is
    unlinked,   \* processes whose open handle is of a marker since removed
    exposed     \* history: the live processes a failed access has left without
                \* the protection of the marker

vars == <<marker, pc, unlinked, exposed>>

\* "create": about to open with O_EXCL; "write": created it, handle open;
\* "read": it existed; "open": about to truncate it; "rewrite": truncated it;
\* "confirm": about to read it back; "inert": refused; "unguarded": an owner
\* that could not touch the marker; "remove": has read its own pid and is about
\* to remove the marker; "released": teardown is over; "left": it is over, and the
\* marker could not be read or removed.
Acquiring == {"create", "write", "read", "open", "rewrite", "confirm"}
States == Acquiring \cup {"gone", "owner", "unguarded", "inert", "remove", "released", "left"}

Alive(p) == pc[p] # "gone"
Goto(p, where) == pc' = [pc EXCEPT ![p] = where]

\* What _read_owner_pid may answer: a marker that cannot be read looks like one
\* without a pid.
OwnerPid == {marker} \cup (IF "io_error" \in Events THEN {Blank} ELSE {})

Begin(p) ==
    /\ pc[p] = "gone"
    /\ "race" \in Events \/ \A q \in Pids : pc[q] \notin Acquiring
    /\ Goto(p, "create")
    /\ UNCHANGED <<marker, unlinked, exposed>>

Create(p) ==
    /\ pc[p] = "create"
    /\ IF marker = Absent THEN marker' = Blank /\ Goto(p, "write")
                          ELSE UNCHANGED marker /\ Goto(p, "read")
    /\ UNCHANGED <<unlinked, exposed>>

\* Mutant of Written: the pid is not written.
WrittenNothing(p) == marker' = marker
Written(p) == marker' = IF p \in unlinked THEN marker ELSE p

Write(p) ==
    /\ pc[p] = "write"
    /\ Written(p)
    /\ Goto(p, "owner")
    /\ unlinked' = unlinked \ {p}
    /\ UNCHANGED exposed

\* Mutants of TakesOver: a live owner is not respected, or a dead one is.
TakesAlways(p, current) == TRUE
TakesBlankOnly(p, current) == current \notin Pids
TakesOver(p, current) == current \in Pids \ {p} => ~Alive(current)

\* A live process whose marker could not be read is about to lose it.
Read(p) ==
    /\ pc[p] = "read"
    /\ \E current \in OwnerPid :
        /\ Goto(p, IF TakesOver(p, current) THEN "open" ELSE "inert")
        /\ exposed' = exposed \cup IF current = marker THEN {}
                                   ELSE {q \in Pids \ {p} : marker = q /\ Alive(q)}
    /\ UNCHANGED <<marker, unlinked>>

\* Opening with "w" truncates the marker, or creates it again.
Open(p) ==
    /\ pc[p] = "open"
    /\ marker' = Blank
    /\ Goto(p, "rewrite")
    /\ UNCHANGED <<unlinked, exposed>>

Rewrite(p) ==
    /\ pc[p] = "rewrite"
    /\ Written(p)
    /\ Goto(p, "confirm")
    /\ unlinked' = unlinked \ {p}
    /\ UNCHANGED exposed

Confirmed(p, confirmed) == confirmed \in Pids => confirmed = p

Confirm(p) ==
    /\ pc[p] = "confirm"
    /\ \E confirmed \in OwnerPid : Goto(p, IF Confirmed(p, confirmed) THEN "owner" ELSE "inert")
    /\ UNCHANGED <<marker, unlinked, exposed>>

\* "continuing as owner": the marker cannot be created, opened or written, and
\* the process runs the stack without it.
FailOpen(p) ==
    /\ "io_error" \in Events
    /\ pc[p] \in {"create", "write", "open", "rewrite"}
    /\ Goto(p, "unguarded")
    /\ unlinked' = unlinked \ {p}
    /\ exposed' = exposed \cup {p}
    /\ UNCHANGED marker

\* teardown: the stack is stopped, then the marker released if it is one's own.
Release(p) ==
    /\ "leave" \in Events /\ pc[p] \in {"owner", "unguarded"}
    /\ \E current \in OwnerPid :
        Goto(p, IF current = p THEN "remove" ELSE IF marker = p THEN "left" ELSE "released")
    /\ UNCHANGED <<marker, unlinked, exposed>>

\* Nobody looks again before the removal: one who took the marker over since,
\* because it could not be read, loses it.
Remove(p) ==
    /\ pc[p] = "remove"
    /\ marker' = Absent
    /\ Goto(p, "released")
    /\ unlinked' = {q \in Pids : pc[q] \in {"write", "rewrite"}}
    /\ exposed' = exposed \cup IF p \in exposed
                               THEN unlinked' \cup {q \in Pids \ {p} : marker = q} ELSE {}

\* The removal fails, and nobody hears of it.
FailRemove(p) ==
    /\ "io_error" \in Events
    /\ pc[p] = "remove"
    /\ Goto(p, IF marker = p THEN "left" ELSE "released")
    /\ UNCHANGED <<marker, unlinked, exposed>>

\* The process ends: a one-shot command after its teardown, or a crash.
Exit(p) ==
    /\ "leave" \in Events /\ Alive(p)
    /\ Goto(p, "gone")
    /\ unlinked' = unlinked \ {p}
    /\ exposed' = exposed \ {p}
    /\ UNCHANGED marker

\* Earlier processes may have left a marker behind.
Init ==
    /\ marker \in Pids \cup {Absent, Blank}
    /\ pc = [p \in Pids |-> "gone"]
    /\ unlinked = {} /\ exposed = {}

Acquire(p) ==
    Create(p) \/ Write(p) \/ Read(p) \/ Open(p) \/ Rewrite(p) \/ Confirm(p) \/ FailOpen(p)

Next == \E p \in Pids : Begin(p) \/ Acquire(p) \/ Release(p) \/ Remove(p) \/ FailRemove(p)
                      \/ Exit(p)

Spec == Init /\ [][Next]_vars

-----------------------------------------------------------------------------

\* Every variable keeps its type.
TypeOK ==
    /\ marker \in Pids \cup {Absent, Blank}
    /\ pc \in [Pids -> States]
    /\ unlinked \subseteq Pids
    /\ exposed \subseteq Pids

Owners == {p \in Pids : pc[p] \in {"owner", "unguarded"}}

\* Exactly one process per host may run the stack: a live owner is never
\* dislodged, and a second process never runs the stack next to it.  Out of it are
\* only the processes that a failed access has exposed: one that could not touch
\* the marker itself, the live one whose marker another could not read, and those
\* whose marker such a dislodged owner then removes as if it were its own.
OneOwner == \A p, q \in Owners \ exposed : p = q

\* The marker names the owner, so that any later process will find it, unless a
\* failed access has exposed it.
OwnerIsNamed == \A p \in Owners \ exposed : marker = p

\* A process is refused only while another one runs the stack, is giving it back
\* or has failed to remove its marker and lives on: a marker left behind by a
\* crash, at any step of an acquisition, or by a process whose pid has come back,
\* never locks the stack out.
RefusedForOwner ==
    [][\A p \in Pids :
        pc'[p] = "inert" /\ pc[p] # "inert" => \E q \in Pids \ {p} :
                              pc[q] \in {"owner", "unguarded", "remove", "left"}]_vars
=============================================================================
