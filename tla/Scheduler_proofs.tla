--------------------------- MODULE Scheduler_proofs ---------------------------
(***************************************************************************)
(* Theorems about the scheduler, for every set of tasks.                   *)
(***************************************************************************)
EXTENDS Scheduler, TLAPS

IInv == TypeOK /\ NoLeakedInterval /\ TimersKnown /\ (~started => timers = [n \in Names |-> NoTask])

LEMMA InitIInv == Init => IInv
BY NamesAssumption DEF Init, IInv, TypeOK, NoLeakedInterval, TimersKnown, Interval

\* While started, the timers map is the task map.
LEMMA TimersAreTasks ==
    ASSUME IInv
    PROVE  \A n \in Names : timers[n] = IF started THEN tasks[n] ELSE NoTask
<1> SUFFICES ASSUME NEW n \in Names
             PROVE  timers[n] = IF started THEN tasks[n] ELSE NoTask
  OBVIOUS
<1>1. CASE ~started
  BY <1>1 DEF IInv
<1>2. CASE started
  <2>1. \A body \in Bodies : <<n, body>> \in intervals <=> tasks[n] = body
    BY <1>2 DEF IInv, NoLeakedInterval
  <2>2. \A body \in Bodies : <<n, body>> \in intervals <=> timers[n] = body
    <3> SUFFICES ASSUME NEW body \in Bodies
                 PROVE  <<n, body>> \in intervals <=> timers[n] = body
      OBVIOUS
    <3>1. <<n, body>> \in intervals <=> \E m \in Names : <<n, body>> \in Interval(m)
      BY DEF IInv, TimersKnown
    <3>2. QED BY <3>1, NamesAssumption DEF Interval, IInv, TypeOK
  <2>3. QED BY <1>2, <2>1, <2>2 DEF IInv, TypeOK
<1>3. QED BY <1>1, <1>2

LEMMA StepIInv == IInv /\ [Next]_vars => IInv'
<1> SUFFICES ASSUME IInv, [Next]_vars PROVE IInv'
  OBVIOUS
<1>0. TypeOK /\ \A n \in Names : timers[n] = IF started THEN tasks[n] ELSE NoTask
  BY TimersAreTasks DEF IInv
<1>1. ASSUME NEW n \in Names, NEW body \in Bodies, NEW intervalMs \in {0, 1},
             RegisterTask(n, body, intervalMs), ~ UNCHANGED vars
      PROVE  IInv'
  <2>1. TypeOK'
    BY <1>0, <1>1 DEF RegisterTask, Arm, TypeOK
  <2>2. CASE started
    <3>1. intervals' = (intervals \ Interval(n)) \cup {<<n, body>>}
          /\ timers' = [timers EXCEPT ![n] = body] /\ tasks' = [tasks EXCEPT ![n] = body]
          /\ started'
      BY <1>1, <2>2 DEF RegisterTask, Arm
    <3>2. NoLeakedInterval'
      BY <1>0, <2>2, <3>1, NamesAssumption DEF NoLeakedInterval, IInv, Interval, TypeOK
    <3>3. \A m \in Names : m # n => Interval(m)' = Interval(m)
      BY <1>0, <3>1 DEF Interval, TypeOK
    <3>4. Interval(n)' = {<<n, body>>}
      BY <1>0, <3>1, NamesAssumption DEF Interval, TypeOK
    <3>5. \A m \in Names : \A p \in Interval(m) : p[1] = m
      BY DEF Interval
    <3>6. TimersKnown'
      BY <3>1, <3>3, <3>4, <3>5 DEF TimersKnown, IInv
    <3>7. QED BY <2>1, <3>1, <3>2, <3>6 DEF IInv
  <2>3. CASE ~started
    <3>1. UNCHANGED <<timers, intervals, started>>
      BY <1>1, <2>3 DEF RegisterTask
    <3>2. QED BY <2>1, <2>3, <3>1 DEF IInv, NoLeakedInterval, TimersKnown, Interval
  <2>4. QED BY <2>2, <2>3
<1>2. ASSUME NEW n \in Names, CancelTask(n) PROVE IInv'
  <2>1. TypeOK'
    BY <1>0, <1>2 DEF CancelTask, TypeOK
  <2>2. /\ intervals' = intervals \ Interval(n)
        /\ timers' = [timers EXCEPT ![n] = NoTask] /\ tasks' = [tasks EXCEPT ![n] = NoTask]
        /\ started' = started
    BY <1>2 DEF CancelTask
  <2>3. NoLeakedInterval'
    BY <1>0, <2>2, NamesAssumption DEF NoLeakedInterval, IInv, Interval, TypeOK
  <2>4. \A m \in Names : m # n => Interval(m)' = Interval(m)
    BY <1>0, <2>2 DEF Interval, TypeOK
  <2>5. Interval(n)' = {}
    BY <1>0, <2>2 DEF Interval, TypeOK
  <2>6. \A m \in Names : \A p \in Interval(m) : p[1] = m
    BY DEF Interval
  <2>7. TimersKnown'
    BY <2>2, <2>4, <2>5, <2>6 DEF TimersKnown, IInv
  <2>8. ~started' => timers' = [m \in Names |-> NoTask]
    BY <1>0, <2>2 DEF IInv, TypeOK
  <2>9. QED BY <2>1, <2>3, <2>7, <2>8 DEF IInv
<1>3. CASE Start
  <2>1. timers' = [n \in Names |-> tasks[n]] /\ tasks' = tasks /\ started'
    BY <1>0, <1>3 DEF Start, TypeOK
  <2>2. intervals' = UNION {Interval(n)' : n \in Names}
    BY <1>0, <1>3, <2>1 DEF Start, Interval
  <2>3. TypeOK'
    BY <1>0, <1>3, <2>1, <2>2 DEF Start, TypeOK, Interval
  <2>4. NoLeakedInterval'
    BY <1>0, <2>1, <2>2, NamesAssumption DEF NoLeakedInterval, Interval, TypeOK
  <2>5. QED BY <2>1, <2>2, <2>3, <2>4 DEF IInv, TimersKnown
<1>4. CASE Stop
  <2>1. timers' = [n \in Names |-> NoTask] /\ intervals' = {} /\ ~started'
    BY <1>4 DEF Stop, IInv, TimersKnown
  <2>2. TypeOK'
    BY <1>0, <1>4, <2>1 DEF Stop, TypeOK
  <2>3. QED BY <2>1, <2>2 DEF IInv, NoLeakedInterval, TimersKnown, Interval
<1>5. ASSUME NEW n \in Names, InvokeSome(n) PROVE IInv'
  BY <1>0, <1>5 DEF InvokeSome, Invoke, Run, IInv, TypeOK, NoLeakedInterval, TimersKnown, Interval
<1>6. ASSUME NEW n \in Names, SettleSome(n) PROVE IInv'
  BY <1>0, <1>6 DEF SettleSome, Settle, IInv, TypeOK, NoLeakedInterval, TimersKnown, Interval
<1>7. CASE UNCHANGED vars
  BY <1>7 DEF vars, IInv, TypeOK, NoLeakedInterval, TimersKnown, Interval
<1>8. QED BY <1>1, <1>2, <1>3, <1>4, <1>5, <1>6, <1>7 DEF Next

\* However registrations, cancellations, stops and starts interleave with runs,
\* the event loop holds one interval per registered task while started, with
\* its latest body, and none while stopped.
THEOREM IntervalsNeverLeak == Spec => []NoLeakedInterval
<1>1. IInv => NoLeakedInterval
  BY DEF IInv
<1>2. QED BY <1>1, InitIInv, StepIInv, PTL DEF Spec

-----------------------------------------------------------------------------
(* Overlap protection.                                                      *)

OneRun == TypeOK /\ RunsAreFlagged

LEMMA StepOneRun == TypeOK' /\ OneRun /\ [Next]_vars => OneRun'
<1> SUFFICES ASSUME TypeOK', OneRun, [Next]_vars PROVE OneRun'
  OBVIOUS
<1> USE DEF RunsAreFlagged
<1>1. ASSUME NEW n \in Names, NEW body \in Bodies, NEW intervalMs \in {0, 1},
             RegisterTask(n, body, intervalMs)
      PROVE  OneRun'
  BY <1>1 DEF RegisterTask, OneRun, NoOverlap, FlagIsRun, NeverBlocked, vars
<1>2. ASSUME NEW n \in Names, CancelTask(n) PROVE OneRun'
  <2>1. runs' = runs /\ running' = running \ {n}
        /\ cut' = IF RunsOf(n) = {} THEN cut ELSE cut \cup {n}
    BY <1>2 DEF CancelTask
  <2>2. cut \subseteq cut'
    BY <2>1
  <2>3. \A r \in runs : r.name = n => n \in cut'
    BY <2>1 DEF RunsOf
  <2>4. NoOverlap' /\ NeverBlocked'
    BY <2>1, <2>2 DEF OneRun, NoOverlap, NeverBlocked
  <2>5. FlagIsRun'
    BY <2>1, <2>2, <2>3 DEF OneRun, FlagIsRun
  <2>6. QED BY <2>4, <2>5 DEF OneRun
<1>3. CASE Start
  BY <1>3 DEF Start, OneRun, NoOverlap, FlagIsRun, NeverBlocked
<1>4. CASE Stop
  <2>1. runs' = runs /\ running' = {} /\ \A r \in runs : r.name \in cut'
    BY <1>4 DEF Stop
  <2>2. QED BY <2>1 DEF OneRun, NoOverlap, FlagIsRun, NeverBlocked
<1>5. ASSUME NEW n \in Names, InvokeSome(n) PROVE OneRun'
  <2>1. PICK body \in Bodies : Invoke(n, body)
    BY <1>5 DEF InvokeSome
  <2>2. PICK new \in [id : Runs, name : {n}, body : Bodies] : runs' = runs \cup {new}
    BY <2>1 DEF Invoke, Run
  <2>3. new.name = n /\ n \notin running /\ running' = running \cup {n} /\ cut' = cut
    BY <2>1, <2>2 DEF Invoke
  <2>4. \A r \in runs : r.name = n => n \in cut
    BY <2>3 DEF OneRun, FlagIsRun
  <2>5. NoOverlap' /\ FlagIsRun'
    BY <2>2, <2>3, <2>4 DEF OneRun, NoOverlap, FlagIsRun
  <2>6. NeverBlocked'
    BY <2>2, <2>3 DEF OneRun, NeverBlocked
  <2>7. QED BY <2>5, <2>6 DEF OneRun
<1>6. ASSUME NEW n \in Names, SettleSome(n) PROVE OneRun'
  <2>1. PICK r \in runs : /\ runs' = runs \ {r} /\ running' = running \ {r.name}
                          /\ cut' = IF RunsOf(r.name) = {r} THEN cut \ {r.name} ELSE cut
    BY <1>6 DEF SettleSome, Settle
  <2>2. \A q \in runs' : q.name \in cut => q.name \in cut'
    BY <2>1 DEF RunsOf
  <2>3. NoOverlap'
    BY <2>1, <2>2 DEF OneRun, NoOverlap
  <2>4. \A q \in runs' : q.name = r.name => q.name \in cut'
    BY <2>1, <2>2 DEF OneRun, NoOverlap
  <2>5. FlagIsRun'
    BY <2>1, <2>2, <2>4 DEF OneRun, FlagIsRun
  <2>6. NeverBlocked'
    BY <2>1 DEF OneRun, NeverBlocked
  <2>7. QED BY <2>3, <2>5, <2>6 DEF OneRun
<1>7. CASE UNCHANGED vars
  BY <1>7 DEF vars, OneRun, NoOverlap, FlagIsRun, NeverBlocked
<1>8. QED BY <1>1, <1>2, <1>3, <1>4, <1>5, <1>6, <1>7 DEF Next

\* Whatever is cancelled, stopped or re-registered during a run: two runs of a task
\* overlap only in the wake of a cancelTask or stop that caught it in a run, and no
\* flag outlives the runs in flight, so no task is blocked for good.
THEOREM RunsAlwaysFlagged == Spec => []RunsAreFlagged
<1>1. Init => OneRun
  BY InitIInv DEF Init, IInv, OneRun, RunsAreFlagged, NoOverlap, FlagIsRun, NeverBlocked
<1>2. IInv' /\ OneRun /\ [Next]_vars => OneRun'
  BY StepOneRun DEF IInv
<1>3. OneRun => RunsAreFlagged
  BY DEF OneRun
<1>4. QED BY <1>1, <1>2, <1>3, InitIInv, StepIInv, PTL DEF Spec
=============================================================================
