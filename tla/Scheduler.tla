------------------------------ MODULE Scheduler ------------------------------
(***************************************************************************)
(* The interval scheduler: tasks by name, one setInterval timer per task   *)
(* while started, and a set of names that skips overlapping runs.  A run   *)
(* is an async function, so registering, cancelling, stopping and starting *)
(* interleave with the runs in flight.                                     *)
(***************************************************************************)
EXTENDS Integers, FiniteSets

CONSTANTS
    Names,      \* task names
    Bodies,     \* what registerTask calls may pass as `run`
    Runs        \* bound: identities for one task's runs in flight at one time

NoTask == "none"

ASSUME NamesAssumption == NoTask \notin Bodies

VARIABLES
    started,    \* #started
    tasks,      \* #tasks: the body registered under each name, or NoTask
    timers,     \* #timers: the body its interval invokes, or NoTask
    intervals,  \* the intervals the event loop really holds, <<name, body>>
    running,    \* #running
    runs,       \* the runs in flight
    cut         \* history: the tasks that cancelTask or stop caught in a run, until
                \* no run of theirs is in flight

vars == <<started, tasks, timers, intervals, running, runs, cut>>

RunsOf(n) == {r \in runs : r.name = n}
Interval(n) == IF timers[n] = NoTask THEN {} ELSE {<<n, timers[n]>>}

\* #arm.  Mutant: the timer it replaces goes on.
ArmAnother(n, body) ==
    /\ timers' = [timers EXCEPT ![n] = body]
    /\ intervals' = intervals \cup {<<n, body>>}
Arm(n, body) ==
    /\ timers' = [timers EXCEPT ![n] = body]
    /\ intervals' = (intervals \ Interval(n)) \cup {<<n, body>>}

\* An interval that is not positive throws before anything is set.
RegisterTask(n, body, intervalMs) ==
    IF intervalMs <= 0 THEN UNCHANGED vars
    ELSE /\ tasks' = [tasks EXCEPT ![n] = body]
         /\ IF started THEN Arm(n, body) ELSE UNCHANGED <<timers, intervals>>
         /\ UNCHANGED <<started, running, runs, cut>>

\* The flag of a run in flight goes with the timer; the run itself goes on.
CancelTask(n) ==
    /\ timers' = [timers EXCEPT ![n] = NoTask]
    /\ intervals' = intervals \ Interval(n)
    /\ running' = running \ {n}
    /\ tasks' = [tasks EXCEPT ![n] = NoTask]
    /\ cut' = IF RunsOf(n) = {} THEN cut ELSE cut \cup {n}
    /\ UNCHANGED <<started, runs>>

Start ==
    /\ ~started
    /\ started' = TRUE
    /\ timers' = [n \in Names |-> IF tasks[n] = NoTask THEN timers[n] ELSE tasks[n]]
    /\ intervals' = UNION {IF tasks[n] = NoTask THEN Interval(n) ELSE {<<n, tasks[n]>>} :
                             n \in Names}
    /\ UNCHANGED <<tasks, running, runs, cut>>

Stop ==
    /\ intervals' = intervals \ UNION {Interval(n) : n \in Names}
    /\ timers' = [n \in Names |-> NoTask]
    /\ running' = {}
    /\ started' = FALSE
    /\ cut' = {r.name : r \in runs}
    /\ UNCHANGED <<tasks, runs>>

\* task.run is called, and is in flight until its promise settles.
Run(n, body) ==
    \E id \in Runs \ {r.id : r \in RunsOf(n)} :
        runs' = runs \cup {[id |-> id, name |-> n, body |-> body]}

\* An interval elapses.  #invoke skips it when the name is running.  Mutant: it
\* does not look.
InvokeAlways(n, body) ==
    /\ <<n, body>> \in intervals
    /\ running' = running \cup {n}
    /\ Run(n, body)
    /\ UNCHANGED <<started, tasks, timers, intervals, cut>>

Invoke(n, body) ==
    /\ <<n, body>> \in intervals
    /\ n \notin running
    /\ running' = running \cup {n}
    /\ Run(n, body)
    /\ UNCHANGED <<started, tasks, timers, intervals, cut>>

\* The run settles, and the `finally` clears the flag, whichever run of the task
\* had set it.  Mutant: a run that throws leaves it set.
SettleWithoutFinally(r, threw) ==
    /\ r \in runs
    /\ runs' = runs \ {r}
    /\ running' = IF threw THEN running ELSE running \ {r.name}
    /\ cut' = IF RunsOf(r.name) = {r} THEN cut \ {r.name} ELSE cut
    /\ UNCHANGED <<started, tasks, timers, intervals>>

Settle(r, threw) ==
    /\ r \in runs
    /\ runs' = runs \ {r}
    /\ running' = running \ {r.name}
    /\ cut' = IF RunsOf(r.name) = {r} THEN cut \ {r.name} ELSE cut
    /\ UNCHANGED <<started, tasks, timers, intervals>>

Init ==
    /\ started = FALSE
    /\ tasks = [n \in Names |-> NoTask] /\ timers = [n \in Names |-> NoTask]
    /\ intervals = {} /\ running = {} /\ runs = {} /\ cut = {}

InvokeSome(n) == \E body \in Bodies : Invoke(n, body)
SettleSome(n) == \E r \in runs, threw \in BOOLEAN : r.name = n /\ Settle(r, threw)

Next ==
    \/ \E n \in Names, body \in Bodies, intervalMs \in {0, 1} :
           RegisterTask(n, body, intervalMs)
    \/ \E n \in Names : CancelTask(n) \/ InvokeSome(n) \/ SettleSome(n)
    \/ Start
    \/ Stop

Spec == Init /\ [][Next]_vars

\* Intervals elapse again and again (nobody re-registers a task faster than its
\* interval) and a task's promise settles.
FairSpec == Spec /\ \A n \in Names : WF_vars(InvokeSome(n)) /\ WF_vars(SettleSome(n))

-----------------------------------------------------------------------------

\* Every variable keeps its type.
TypeOK ==
    /\ started \in BOOLEAN
    /\ tasks \in [Names -> Bodies \cup {NoTask}]
    /\ timers \in [Names -> Bodies \cup {NoTask}]
    /\ intervals \subseteq Names \X Bodies
    /\ running \subseteq Names
    /\ runs \subseteq [id : Runs, name : Names, body : Bodies]
    /\ cut \subseteq Names

\* Exactly the registered tasks have an interval while started, each one and
\* with its latest body, and none has while stopped: replacing, cancelling or
\* restarting never leaks an interval that keeps invoking an old body.
NoLeakedInterval ==
    intervals = IF started THEN {p \in Names \X Bodies : tasks[p[1]] = p[2]} ELSE {}

\* The timers map is what cancelTask and stop will find: it names every interval.
TimersKnown == intervals = UNION {Interval(n) : n \in Names}

\* Two runs of one task overlap only in the wake of a cancelTask or stop that
\* caught the task in a run: those clear the flag of a run that goes on, and its
\* `finally` may then clear the flag of its successor, so the task is unprotected
\* until no run of it is in flight.  Otherwise the flag is exactly the run in
\* flight; and it is never set without one, so that no task is blocked for good.
NoOverlap == \A r, q \in runs : r.name = q.name => r = q \/ r.name \in cut
FlagIsRun == \A r \in runs : r.name \in running \cup cut
NeverBlocked == running \subseteq {r.name : r \in runs}
RunsAreFlagged == NoOverlap /\ FlagIsRun /\ NeverBlocked

\* A run that throws or is slow never stops its task for good: an armed task
\* runs again, unless it is cancelled, replaced or the scheduler is stopped.
TaskRunsAgain ==
    \A n \in Names, body \in Bodies :
        <<n, body>> \in intervals ~>
            (<<n, body>> \notin intervals \/ \E r \in RunsOf(n) : r.body = body)
=============================================================================
