------------------------------- MODULE Outreach -------------------------------
(***************************************************************************)
(* What the guardrails promise, without heartbeats, queues or snapshots: a *)
(* session is reached now and then, never within a cooldown of any time it *)
(* was reached before in the last day, and never more often than an hour   *)
(* or a day allows.                                                        *)
(***************************************************************************)
EXTENDS Integers, FiniteSets

CONSTANTS Sessions, Cooldown, Hour, Day, MaxPerHour, MaxPerDay

VARIABLES
    now,
    reached     \* the times each session has been reached, since ever

vars == <<now, reached>>

Within(s, span) == {at \in reached[s] : now - at < span}

Init ==
    /\ now = 0
    /\ reached = [s \in Sessions |-> {}]

Reach(s) ==
    /\ \A at \in Within(s, Day) : now - at >= Cooldown
    /\ Cardinality(Within(s, Hour)) < MaxPerHour
    /\ Cardinality(Within(s, Day)) < MaxPerDay
    /\ reached' = [reached EXCEPT ![s] = @ \cup {now}]
    /\ now' = now

Pass ==
    /\ now' = now + 1
    /\ reached' = reached

Next == Pass \/ \E s \in Sessions : Reach(s)

Spec == Init /\ [][Next]_vars
=============================================================================
