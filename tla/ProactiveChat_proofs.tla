------------------------- MODULE ProactiveChat_proofs -------------------------
(***************************************************************************)
(* Theorems about the proactive-chat plugin.  For every configuration and  *)
(* across suspended ticks, teardowns, restores and crashes: types, what a  *)
(* step may do to the heartbeat and to the slots, and that the slots of    *)
(* the send log are paced.  In one process no slot is forgotten while it   *)
(* counts, so that the plugin implements the promise of its guardrails,    *)
(* module Outreach; in one lifecycle the slots are what the users receive. *)
(***************************************************************************)
EXTENDS ProactiveChat, FiniteSetTheorems, TLAPS

-----------------------------------------------------------------------------
(* Types of the helpers. *)

LEMMA HelperTypes ==
    ASSUME TypeOK, NEW s \in Sessions, NEW score \in Scores
    PROVE  /\ Held(s) \in SUBSET Stub
           /\ Rescored(Held(s), score, clock) \in SUBSET Stub
           /\ \A held \in SUBSET Stub : WithQueue(s, held) \in [Sessions -> SUBSET Stub]
<1>1. Held(s) \in SUBSET Stub
  BY DEF Held, TypeOK
<1>2. Rescored(Held(s), score, clock) \in SUBSET Stub
  BY <1>1 DEF Rescored, Fresh, Stub
<1>3. \A held \in SUBSET Stub : WithQueue(s, held) \in [Sessions -> SUBSET Stub]
  BY DEF WithQueue, TypeOK
<1>4. QED BY <1>1, <1>2, <1>3

Logs == [Sessions -> Log]
Queues == [Sessions -> SUBSET Stub]

LEMMA SaveType ==
    ASSUME TypeOK, NEW logs \in Logs, NEW queues \in Queues, Save(logs, queues)
    PROVE  /\ sends' \in Logs /\ behind' \in BOOLEAN
           /\ disk' \in [Sessions -> [sends : Log, queue : SUBSET Stub]]
<1>1. CASE Persist /\ ~Stopped
  <2>1. \A s \in Sessions : Recent(logs[s], clock) \in Log
    BY DEF Recent, Log, Logs
  <2>2. sends' \in Logs /\ Write(Snapshot(logs, queues))
    BY <1>1, <2>1 DEF Save, Logs, Log
  <2>3. Snapshot(logs, queues) \in [Sessions -> [sends : Log, queue : SUBSET Stub]]
    BY <2>1 DEF Snapshot, Blank, Logs, Queues, Log
  <2>4. QED BY <2>2, <2>3 DEF Write, TypeOK
<1>2. CASE ~(Persist /\ ~Stopped)
  BY <1>2 DEF Save, TypeOK, Logs
<1>3. QED BY <1>1, <1>2

LEMMA RecordType ==
    ASSUME TypeOK, NEW s \in Sessions, NEW at \in Time,
           NEW logs \in Logs, NEW queues \in Queues, Record(s, at, logs, queues)
    PROVE  /\ sends' \in Logs /\ disk' \in [Sessions -> [sends : Log, queue : SUBSET Stub]]
           /\ granted' \in Logs /\ behind' \in BOOLEAN
<1> DEFINE newLogs == [logs EXCEPT ![s] = Recent(@, at) \cup {at}]
<1>1. newLogs \in Logs
  BY DEF Logs, Log, Recent
<1>2. Save(newLogs, queues)
  BY DEF Record
<1>3. granted' \in Logs
  BY DEF Record, TypeOK, Logs, Log
<1>4. QED BY <1>1, <1>2, <1>3, SaveType

\* What the heartbeat's own steps leave well typed.
HeartbeatTyped ==
    /\ sends' \in Logs
    /\ queue' \in Queues
    /\ disk' \in [Sessions -> [sends : Log, queue : SUBSET Stub]]
    /\ hb' \in Heartbeats /\ (hb'.pc \in Awaits <=> hb'.session \in Sessions)
    /\ granted' \in Logs
    /\ delivered' \in [Sessions -> SUBSET [tick : Time, at : Time]]
    /\ behind' \in BOOLEAN

LEMMA TickDoneType ==
    ASSUME TypeOK, TickDone
    PROVE  hb' \in Heartbeats /\ (hb'.pc \in Awaits <=> hb'.session \in Sessions)
BY ConfigAssumption DEF TypeOK, TickDone, Looping, Idle, Heartbeats, Awaits

LEMMA WaitingType ==
    ASSUME TypeOK, NEW pc \in Awaits, NEW s \in Sessions, NEW extras \in SUBSET Stub,
           hb' = Waiting(pc, s, extras)
    PROVE  hb' \in Heartbeats /\ (hb'.pc \in Awaits <=> hb'.session \in Sessions)
BY DEF TypeOK, Waiting, Heartbeats, Awaits

LEMMA DeliverType ==
    ASSUME TypeOK, NEW s \in Sessions, Deliver(s)
    PROVE  delivered' \in [Sessions -> SUBSET [tick : Time, at : Time]]
BY DEF TypeOK, Deliver, Heartbeats

LEMMA DelegateType ==
    ASSUME TypeOK, NEW s \in Sessions, NEW logs \in Logs, NEW queues \in Queues,
           Delegate(s, logs, queues), queue' = queues
    PROVE  HeartbeatTyped
<1>1. CASE Awaited
  <2>1. hb' = Waiting("deliver", s, {}) /\ "deliver" \in Awaits
    BY <1>1 DEF Delegate, Awaits
  <2>2. hb' \in Heartbeats /\ (hb'.pc \in Awaits <=> hb'.session \in Sessions)
    BY <2>1, WaitingType
  <2>3. QED BY <1>1, <2>2 DEF Delegate, HeartbeatTyped, TypeOK, history, Logs
<1>2. CASE ~Awaited
  <2>1. hb.now \in Time
    BY DEF TypeOK, Heartbeats
  <2>2. Record(s, hb.now, logs, queues) /\ Deliver(s) /\ TickDone
    BY <1>2 DEF Delegate
  <2>3. QED BY <2>1, <2>2, RecordType, DeliverType, TickDoneType DEF HeartbeatTyped
<1>3. QED BY <1>1, <1>2

LEMMA EnqueuedType ==
    ASSUME NEW held \in SUBSET Stub, NEW stub \in Stub, NEW t,
           NEW result \in Enqueued(held, stub, t)
    PROVE  result \in SUBSET Stub
BY DEF Enqueued, Fresh, Lowest

LEMMA DecidedType ==
    ASSUME TypeOK, NEW s \in Sessions, NEW score \in Scores, NEW logs \in Logs,
           Decided(s, score, logs)
    PROVE  HeartbeatTyped
<1> DEFINE rescored == Rescored(Held(s), score, clock)
           promoted == score >= SendThreshold /\ rescored # {}
           stub == [at |-> hb.now, score |-> score]
           Leave(held) == /\ queue' = WithQueue(s, held)
                          /\ sends' = logs
                          /\ UNCHANGED <<disk, behind, history>>
           Outreach(extras) ==
               IF Mode = "delegate"
               THEN /\ queue' = WithQueue(s, extras)
                    /\ Delegate(s, logs, WithQueue(s, extras))
               ELSE /\ hb' = Waiting("generate", s, extras)
                    /\ Leave({})
<1>1. rescored \in SUBSET Stub /\ stub \in Stub
  BY HelperTypes DEF TypeOK, Heartbeats, Stub
<1>2. ASSUME NEW held \in SUBSET Stub, Leave(held)
      PROVE  /\ sends' \in Logs /\ queue' \in Queues
             /\ disk' \in [Sessions -> [sends : Log, queue : SUBSET Stub]]
             /\ granted' \in Logs /\ behind' \in BOOLEAN
             /\ delivered' \in [Sessions -> SUBSET [tick : Time, at : Time]]
  BY <1>2, HelperTypes DEF Queues, TypeOK, history, Logs
<1>3. ASSUME NEW held \in SUBSET Stub, TickDone, Leave(held)
      PROVE  HeartbeatTyped
  <2>1. hb' \in Heartbeats /\ (hb'.pc \in Awaits <=> hb'.session \in Sessions)
    BY <1>3, TickDoneType
  <2>2. QED BY <1>2, <1>3, <2>1 DEF HeartbeatTyped
<1>4. ASSUME NEW extras \in SUBSET Stub, Outreach(extras)
      PROVE  HeartbeatTyped
  <2>1. CASE Mode = "delegate"
    <3>1. WithQueue(s, extras) \in Queues
      BY HelperTypes DEF Queues
    <3>2. queue' = WithQueue(s, extras) /\ Delegate(s, logs, WithQueue(s, extras))
      BY <1>4, <2>1
    <3>3. QED BY <3>1, <3>2, DelegateType
  <2>2. CASE Mode # "delegate"
    <3>1. hb' = Waiting("generate", s, extras) /\ Leave({})
      BY <1>4, <2>2
    <3>2. hb' \in Heartbeats /\ (hb'.pc \in Awaits <=> hb'.session \in Sessions)
      <4>1. "generate" \in Awaits BY DEF Awaits
      <4>2. QED BY <3>1, <4>1, WaitingType
    <3>3. QED BY <1>2, <3>1, <3>2 DEF HeartbeatTyped
  <2>3. QED BY <2>1, <2>2
<1>5. CASE promoted /\ \E first \in rescored : Outreach(rescored \ {first})
  BY <1>1, <1>4, <1>5
<1>6. CASE TickDone /\ Leave(rescored)
  BY <1>1, <1>3, <1>6
<1>7. CASE Outreach({})
  BY <1>4, <1>7
<1>8. CASE TickDone /\ \E held \in Enqueued(rescored, stub, clock) : Leave(held)
  BY <1>1, <1>3, <1>8, EnqueuedType
<1>9. QED BY <1>5, <1>6, <1>7, <1>8 DEF Decided

-----------------------------------------------------------------------------
(* Type correctness. *)

LEMMA RecentType == ASSUME NEW log \in Log, NEW t PROVE Recent(log, t) \in Log
BY DEF Recent, Log

LEMMA InitTypeOK == Init => TypeOK
<1> SUFFICES ASSUME Init PROVE TypeOK
  OBVIOUS
<1>1. hb \in Heartbeats /\ (hb.pc \in Awaits <=> hb.session \in Sessions)
  BY ConfigAssumption DEF Init, Idle, Heartbeats, Awaits, Time
<1>2. /\ sends \in [Sessions -> Log] /\ granted \in [Sessions -> Log]
      /\ forgotten \in [Sessions -> Log]
      /\ disk \in [Sessions -> [sends : Log, queue : SUBSET Stub]]
  BY DEF Init, Blank, Log
<1>3. QED BY <1>1, <1>2 DEF Init, TypeOK, Time

\* The parts of the state a heartbeat step leaves alone, and what it may type.
LEMMA HeartbeatTypeOK ==
    ASSUME TypeOK, HeartbeatTyped, todo' \subseteq todo,
           lastActivity' \in [Sessions -> Time], ticks' \in Nat,
           UNCHANGED <<clock, phase, forgotten, live, talked>>
    PROVE  TypeOK'
BY DEF TypeOK, HeartbeatTyped, Logs, Queues

LEMMA StepTypeOK == TypeOK /\ [Next]_vars => TypeOK'
<1> SUFFICES ASSUME TypeOK, [Next]_vars PROVE TypeOK'
  OBVIOUS
<1> USE DEF memory, history
<1>1. CASE StartHeartbeat
  BY <1>1, ConfigAssumption
     DEF StartHeartbeat, TypeOK, Looping, Idle, Heartbeats, Awaits, Stub
<1>2. ASSUME NEW s \in Sessions, VisitSilent(s) PROVE TypeOK'
  <2>1. HeartbeatTyped
    BY <1>2, TickDoneType DEF VisitSilent, HeartbeatTyped, TypeOK, Logs, Queues
  <2>2. QED BY <1>2, <2>1, HeartbeatTypeOK DEF VisitSilent, Visit, TypeOK
<1>3. ASSUME NEW s \in Sessions, VisitVetoed(s) PROVE TypeOK'
  <2>1. sends' \in Logs
    BY <1>3, RecentType DEF VisitVetoed, TypeOK, Logs
  <2>2. HeartbeatTyped
    BY <1>3, <2>1, TickDoneType DEF VisitVetoed, HeartbeatTyped, TypeOK, Logs, Queues
  <2>3. QED BY <1>3, <2>2, HeartbeatTypeOK DEF VisitVetoed, Visit, TypeOK
<1>4. ASSUME NEW s \in Sessions, VisitCleared(s) PROVE TypeOK'
  <2> DEFINE logs == [sends EXCEPT ![s] = Recent(sends[s], hb.now)]
  <2>1. logs \in Logs
    BY RecentType DEF TypeOK, Logs
  <2>2. CASE Assess
    <3>1. hb' = Waiting("assess", s, {}) /\ sends' = logs /\ "assess" \in Awaits
      BY <1>4, <2>2 DEF VisitCleared, Awaits
    <3>2. hb' \in Heartbeats /\ (hb'.pc \in Awaits <=> hb'.session \in Sessions)
      BY <3>1, WaitingType
    <3>3. HeartbeatTyped
      BY <1>4, <2>1, <2>2, <3>1, <3>2 DEF VisitCleared, HeartbeatTyped, TypeOK, Logs, Queues
    <3>4. QED BY <1>4, <3>3, HeartbeatTypeOK DEF VisitCleared, Visit, TypeOK
  <2>3. CASE ~Assess
    <3>1. HeartbeatTyped
      BY <1>4, <2>1, <2>3, DecidedType DEF VisitCleared
    <3>2. QED BY <1>4, <3>1, HeartbeatTypeOK DEF VisitCleared, Visit, TypeOK
  <2>4. QED BY <2>2, <2>3
<1>5. CASE Assessed
  <2>1. hb.session \in Sessions
    BY <1>5 DEF Assessed, TypeOK, Awaits
  <2>2. HeartbeatTyped
    <3>1. CASE Stopped
      BY <1>5, <3>1, TickDoneType DEF Assessed, HeartbeatTyped, TypeOK, Logs, Queues
    <3>2. CASE ~Stopped
      BY <1>5, <2>1, <3>2, DecidedType DEF Assessed, TypeOK, Logs
    <3>3. QED BY <3>1, <3>2
  <2>3. QED BY <1>5, <2>2, HeartbeatTypeOK DEF Assessed, TypeOK
<1>6. ASSUME NEW kind \in Results, Thought(kind) PROVE TypeOK'
  <2> DEFINE s == hb.session
  <2>1. s \in Sessions /\ hb.extras \in SUBSET Stub
    BY <1>6 DEF Thought, TypeOK, Awaits, Heartbeats
  <2>2. queue' \in Queues
    <3>1. Fresh(Held(s), clock) \cup hb.extras \in SUBSET Stub
      BY <2>1 DEF Held, Fresh, TypeOK
    <3>2. WithQueue(s, Fresh(Held(s), clock) \cup hb.extras) \in Queues
      BY <3>1 DEF WithQueue, TypeOK, Queues
    <3>3. QED BY <1>6, <3>2 DEF Thought, TypeOK, Queues
  <2>3. /\ hb' \in Heartbeats /\ (hb'.pc \in Awaits <=> hb'.session \in Sessions)
        /\ lastActivity' \in [Sessions -> Time]
        /\ delivered' \in [Sessions -> SUBSET [tick : Time, at : Time]]
    <3>1. CASE TickDone /\ UNCHANGED <<lastActivity, delivered>>
      BY <3>1, TickDoneType DEF TypeOK
    <3>2. CASE hb' = Waiting("deliver", s, {}) /\ UNCHANGED <<lastActivity, delivered>>
      <4>1. "deliver" \in Awaits BY DEF Awaits
      <4>2. QED BY <2>1, <3>2, <4>1, WaitingType DEF TypeOK
    <3>3. CASE Speak(s) /\ Deliver(s)
      <4>1. "sent" \in Awaits BY DEF Awaits
      <4>2. QED BY <2>1, <3>3, <4>1, WaitingType, DeliverType DEF TypeOK, Speak
    <3>4. QED BY <1>6, <3>1, <3>2, <3>3 DEF Thought
  <2>4. HeartbeatTyped
    BY <1>6, <2>2, <2>3 DEF Thought, HeartbeatTyped, TypeOK, Logs
  <2>5. QED BY <1>6, <2>3, <2>4, HeartbeatTypeOK DEF Thought, TypeOK
<1>7. CASE DeliveryFulfilled
  <2> DEFINE s == hb.session
  <2>1. s \in Sessions /\ hb.now \in Time
    BY <1>7 DEF DeliveryFulfilled, TypeOK, Awaits, Heartbeats
  <2>2. HeartbeatTyped /\ lastActivity' \in [Sessions -> Time]
    <3>1. CASE TickDone /\ UNCHANGED <<lastActivity, sends, disk, behind, granted>>
      BY <1>7, <3>1, TickDoneType DEF DeliveryFulfilled, HeartbeatTyped, TypeOK, Logs, Queues
    <3>2. CASE Speak(s) /\ UNCHANGED <<sends, disk, behind, granted>>
      <4>1. "sent" \in Awaits BY DEF Awaits
      <4>2. hb' \in Heartbeats /\ (hb'.pc \in Awaits <=> hb'.session \in Sessions)
        BY <2>1, <3>2, <4>1, WaitingType DEF Speak
      <4>3. lastActivity' \in [Sessions -> Time]
        BY <2>1, <3>2 DEF Speak, TypeOK
      <4>4. QED BY <1>7, <3>2, <4>2, <4>3
                DEF DeliveryFulfilled, HeartbeatTyped, TypeOK, Logs, Queues
    <3>3. CASE Record(s, hb.now, sends, queue) /\ TickDone /\ UNCHANGED lastActivity
      <4>1. sends \in Logs /\ queue \in Queues
        BY DEF TypeOK, Logs, Queues
      <4>2. sends' \in Logs /\ granted' \in Logs /\ behind' \in BOOLEAN
            /\ disk' \in [Sessions -> [sends : Log, queue : SUBSET Stub]]
        BY <2>1, <3>3, <4>1, RecordType
      <4>3. QED BY <1>7, <3>3, <4>2, TickDoneType
                DEF DeliveryFulfilled, HeartbeatTyped, TypeOK, Queues
    <3>4. QED BY <1>7, <3>1, <3>2, <3>3 DEF DeliveryFulfilled
  <2>3. QED BY <1>7, <2>2, HeartbeatTypeOK DEF DeliveryFulfilled, TypeOK
<1>8. CASE DeliveryRejected
  <2>1. HeartbeatTyped
    BY <1>8, TickDoneType DEF DeliveryRejected, HeartbeatTyped, TypeOK, Logs, Queues
  <2>2. QED BY <1>8, <2>1, HeartbeatTypeOK DEF DeliveryRejected, TypeOK
<1>9. CASE RecordSent
  <2>1. hb.session \in Sessions
    BY <1>9 DEF RecordSent, TypeOK, Awaits
  <2>2. sends \in Logs /\ queue \in Queues /\ clock \in Time
    BY DEF TypeOK, Logs, Queues
  <2>3. sends' \in Logs /\ granted' \in Logs /\ behind' \in BOOLEAN
        /\ disk' \in [Sessions -> [sends : Log, queue : SUBSET Stub]]
    BY <1>9, <2>1, <2>2, RecordType DEF RecordSent
  <2>4. HeartbeatTyped
    BY <1>9, <2>3, TickDoneType DEF RecordSent, HeartbeatTyped, TypeOK, Queues
  <2>5. QED BY <1>9, <2>4, HeartbeatTypeOK DEF RecordSent, TypeOK
<1>10. CASE FinishHeartbeat
  <2>1. /\ sends' \in Logs /\ behind' \in BOOLEAN
        /\ disk' \in [Sessions -> [sends : Log, queue : SUBSET Stub]]
    <3>1. sends \in Logs /\ queue \in Queues
      BY DEF TypeOK, Logs, Queues
    <3>2. CASE ticks' = 0
      BY <1>10, <3>1, <3>2, SaveType DEF FinishHeartbeat
    <3>3. CASE ticks' # 0
      BY <1>10, <3>1, <3>3 DEF FinishHeartbeat, TypeOK
    <3>4. QED BY <3>2, <3>3
  <2>2. hb' \in Heartbeats /\ (hb'.pc \in Awaits <=> hb'.session \in Sessions)
    BY <1>10, ConfigAssumption DEF FinishHeartbeat, Idle, Heartbeats, Awaits, Time
  <2>3. HeartbeatTyped
    BY <1>10, <2>1, <2>2 DEF FinishHeartbeat, HeartbeatTyped, TypeOK, Logs, Queues
  <2>4. ticks' \in Nat
    BY <1>10, ConfigAssumption DEF FinishHeartbeat, TypeOK
  <2>5. QED BY <1>10, <2>3, <2>4, HeartbeatTypeOK DEF FinishHeartbeat, TypeOK
<1>11. CASE AbortHeartbeat
  BY <1>11, ConfigAssumption DEF AbortHeartbeat, TypeOK, Idle, Heartbeats, Awaits, Time
<1>12. CASE Landed
  <2>1. hb.session \in Sessions
    BY <1>12 DEF Landed, TypeOK, Awaits
  <2>2. hb' \in Heartbeats /\ (hb'.pc \in Awaits <=> hb'.session \in Sessions)
    BY <1>12 DEF Landed, TypeOK, Heartbeats
  <2>3. QED BY <1>12, <2>1, <2>2, DeliverType DEF Landed, TypeOK
<1>13. ASSUME NEW s \in Sessions, NEW role \in {"user", "agent"}, Message(s, role)
       PROVE TypeOK'
  BY <1>13 DEF Message, GetOrCreate, TypeOK
<1>14. CASE PluginInit
  <2>1. sends' \in Logs /\ queue' \in Queues /\ forgotten' \in Logs
    <3>1. CASE Restore
      <4>1. sends' \in Logs /\ forgotten' \in Logs
        BY <3>1, RecentType DEF Restore, TypeOK, Logs
      <4>2. UNION {disk[s].queue : s \in Sessions} \subseteq Stub
        BY DEF TypeOK
      <4>3. queue' \in Queues
        BY <3>1, <4>2 DEF Restore, Queues
      <4>4. QED BY <4>1, <4>3
    <3>2. CASE StartFresh
      BY <3>2 DEF StartFresh, TypeOK, Logs, Queues, Log
    <3>3. QED BY <1>14, <3>1, <3>2 DEF PluginInit
  <2>2. QED BY <1>14, <2>1 DEF PluginInit, TypeOK, Logs, Queues
<1>15. CASE Teardown
  <2>1. hb' \in Heartbeats /\ (hb'.pc \in Awaits <=> hb'.session \in Sessions)
    BY <1>15 DEF Teardown, TypeOK, Heartbeats
  <2>2. disk' \in [Sessions -> [sends : Log, queue : SUBSET Stub]] /\ behind' \in BOOLEAN
    <3>1. Snapshot(sends, queue) \in [Sessions -> [sends : Log, queue : SUBSET Stub]]
      BY RecentType DEF Snapshot, Blank, TypeOK, Log
    <3>2. QED BY <1>15, <3>1 DEF Teardown, Write, TypeOK
  <2>3. forgotten' \in Logs
    BY <1>15 DEF Teardown, TypeOK, Logs, Log
  <2>4. QED BY <1>15, <2>1, <2>2, <2>3 DEF Teardown, TypeOK, Logs, Log
<1>16. CASE Crash
  BY <1>16, ConfigAssumption DEF Crash, TypeOK, Idle, Heartbeats, Awaits, Log, Time
<1>17. CASE ClockTick
  BY <1>17 DEF ClockTick, TypeOK, Time
<1>18. CASE UNCHANGED vars
  BY <1>18 DEF vars, TypeOK
<1>19. QED
  BY <1>1, <1>2, <1>3, <1>4, <1>5, <1>6, <1>7, <1>8, <1>9, <1>10, <1>11, <1>12,
     <1>13, <1>14, <1>15, <1>16, <1>17, <1>18 DEF Next, HeartbeatStep

\* In every configuration the plugin's state keeps its type; in particular a
\* suspended tick always knows its session and the loop only visits live ones.
THEOREM TypeCorrect == Spec => []TypeOK
BY InitTypeOK, StepTypeOK, PTL DEF Spec

-----------------------------------------------------------------------------
(* What a step may do to the heartbeat and to the slots. *)

\* A plugin that is torn down leaves the tick it interrupted at its await or ends
\* it.
LEMMA TornStays ==
    ASSUME [Next]_vars, phase = "torn", hb'.pc \in {"generate", "deliver", "sent"}
    PROVE  hb'.pc = hb.pc
<1>1. Stopped
  BY DEF Stopped
<1>2. ~TickDone /\ hb' # Idle
  <2>1. Idle.pc = "idle"
    BY DEF Idle
  <2>2. Looping(hb.now).pc = "loop"
    BY DEF Looping, Idle
  <2>3. QED BY <2>1, <2>2 DEF TickDone
<1>3. ~(\E s \in Sessions : VisitSilent(s) \/ VisitVetoed(s) \/ VisitCleared(s))
  BY <1>1 DEF VisitSilent, VisitVetoed, VisitCleared, Visit
<1>4. ~HeartbeatStep
  BY <1>1, <1>2, <1>3 DEF HeartbeatStep, Assessed, Thought, DeliveryFulfilled, DeliveryRejected,
                          RecordSent, FinishHeartbeat, AbortHeartbeat
<1>5. CASE Landed
  BY <1>5 DEF Landed
<1>6. CASE UNCHANGED hb
  BY <1>6
<1>7. QED
  BY <1>2, <1>4, <1>5, <1>6 DEF Next, StartHeartbeat, Message, PluginInit, Teardown, Crash,
                                ClockTick, vars

\* A plugin that is torn down begins no generation and no delivery, for every
\* configuration and whatever the tick it interrupted was waiting for.
THEOREM TornStartsNothing == Spec => NoOutreachWhileTorn
<1>1. [Next]_vars =>
        [phase = "torn" /\ hb'.pc \in {"generate", "deliver", "sent"} => hb'.pc = hb.pc]_vars
  BY TornStays
<1>2. QED BY <1>1, PTL DEF Spec, NoOutreachWhileTorn

-----------------------------------------------------------------------------
(* Where a tick is, and what it holds. *)

Single(held) == \A p, q \in held : p = q

\* A tick in flight belongs to a live process and a session it knows; it carries
\* no extras, because nobody holds two stubs.
InFlight ==
    /\ hb.pc # "idle" => phase # "down"
    /\ hb.pc \in Awaits => hb.session \in live
    /\ hb.extras = {}
TickInv == InFlight /\ OneStubHeld

\* What a heartbeat does to its own place.
Goes(s, pcs) == TickDone \/ \E pc \in pcs : hb' = Waiting(pc, s, {})

LEMMA GoesInFlight ==
    ASSUME TypeOK, NEW s \in live, phase' # "down", live' = live, Goes(s, Awaits)
    PROVE  InFlight'
<1>1. CASE TickDone
  BY <1>1 DEF TickDone, Looping, Idle, Awaits, InFlight
<1>2. ASSUME NEW pc \in Awaits, hb' = Waiting(pc, s, {}) PROVE InFlight'
  BY <1>2 DEF Waiting, TypeOK, Heartbeats, InFlight
<1>3. QED BY <1>1, <1>2 DEF Goes

LEMMA SaveSingle ==
    ASSUME OneStubHeld, NEW logs, NEW queues, Save(logs, queues),
           \A s \in Sessions : Single(queues[s]), NEW s \in Sessions
    PROVE  Single(disk'[s].queue)
<1>1. CASE Persist /\ ~Stopped
  <2>1. \/ disk'[s] = IF s \in live THEN [sends |-> Recent(logs[s], clock), queue |-> queues[s]]
                                    ELSE Blank
        \/ UNCHANGED disk
    BY <1>1 DEF Save, Write, Snapshot
  <2>2. QED BY <2>1 DEF Blank, Single, OneStubHeld
<1>2. CASE ~(Persist /\ ~Stopped)
  BY <1>2 DEF Save, OneStubHeld, Single
<1>3. QED BY <1>1, <1>2

LEMMA EnqueuedEmpty ==
    ASSUME NEW stub, NEW t, NEW held \in Enqueued({}, stub, t)
    PROVE  Single(held)
<1>1. Fresh({}, t) = {}
  BY DEF Fresh
<1>2. Cardinality({}) < MaxSize
  BY FS_EmptySet, ConfigAssumption
<1>3. Enqueued({}, stub, t) = {{} \cup {stub}}
  BY <1>1, <1>2 DEF Enqueued
<1>4. QED BY <1>3 DEF Single

\* A decision leaves one stub at most, and goes on with none in hand.
LEMMA DecidedTick ==
    ASSUME TypeOK, OneStubHeld, NEW s \in Sessions, NEW score, NEW logs, Decided(s, score, logs)
    PROVE  Goes(s, {"generate", "deliver"}) /\ OneStubHeld'
<1> DEFINE rescored == Rescored(Held(s), score, clock)
           promoted == score >= SendThreshold /\ rescored # {}
           stub == [at |-> hb.now, score |-> score]
           Leave(held) == /\ queue' = WithQueue(s, held)
                          /\ sends' = logs
                          /\ UNCHANGED <<disk, behind, history>>
           Outreach(extras) ==
               IF Mode = "delegate"
               THEN /\ queue' = WithQueue(s, extras)
                    /\ Delegate(s, logs, WithQueue(s, extras))
               ELSE /\ hb' = Waiting("generate", s, extras)
                    /\ Leave({})
<1>1. Single(Held(s)) /\ Single(Fresh(Held(s), clock)) /\ Single(rescored)
  BY DEF OneStubHeld, Single, Held, Fresh, Rescored
<1>2. ASSUME NEW held, Single(held), NEW r \in Sessions PROVE Single(WithQueue(s, held)[r])
  BY <1>2 DEF WithQueue, OneStubHeld, Single, TypeOK
<1>3. ASSUME NEW held, Single(held), Leave(held) PROVE OneStubHeld'
  BY <1>2, <1>3 DEF OneStubHeld, Single
<1>4. CASE Outreach({})
  <2>1. Single({})
    BY DEF Single
  <2>2. CASE Mode = "delegate" /\ Awaited
    <3>1. hb' = Waiting("deliver", s, {}) /\ Leave({})
      BY <1>4, <2>2 DEF Delegate
    <3>2. QED BY <1>3, <2>1, <3>1 DEF Goes
  <2>3. CASE Mode = "delegate" /\ ~Awaited
    <3>1. TickDone /\ queue' = WithQueue(s, {}) /\ Record(s, hb.now, logs, WithQueue(s, {}))
      BY <1>4, <2>3 DEF Delegate
    <3>2. PICK newLogs : Save(newLogs, WithQueue(s, {}))
      BY <3>1 DEF Record
    <3>3. \A r \in Sessions : Single(queue'[r]) /\ Single(disk'[r].queue)
      BY <1>2, <2>1, <3>1, <3>2, SaveSingle
    <3>4. QED BY <3>1, <3>3 DEF Goes, OneStubHeld, Single
  <2>4. CASE Mode # "delegate"
    <3>1. hb' = Waiting("generate", s, {}) /\ Leave({})
      BY <1>4, <2>4
    <3>2. QED BY <1>3, <2>1, <3>1 DEF Goes
  <2>5. QED BY <2>2, <2>3, <2>4
<1>5. CASE promoted /\ \E first \in rescored : Outreach(rescored \ {first})
  <2>1. PICK first \in rescored : Outreach(rescored \ {first})
    BY <1>5
  <2>2. rescored \ {first} = {}
    BY <1>1 DEF Single
  <2>3. QED BY <1>4, <2>1, <2>2
<1>6. CASE TickDone /\ Leave(rescored)
  BY <1>1, <1>3, <1>6 DEF Goes
<1>7. CASE TickDone /\ NothingHeld(s) /\ \E held \in Enqueued(rescored, stub, clock) : Leave(held)
  <2>1. rescored = {}
    BY <1>7 DEF NothingHeld, Rescored
  <2>2. QED BY <1>3, <1>7, <2>1, EnqueuedEmpty DEF Goes
<1>8. QED BY <1>4, <1>5, <1>6, <1>7 DEF Decided

\* A step that leaves queues and snapshot alone, or is a save of these queues.
LEMMA SavedTick ==
    ASSUME OneStubHeld, UNCHANGED queue, NEW logs, UNCHANGED disk \/ Save(logs, queue)
    PROVE  OneStubHeld'
BY SaveSingle DEF OneStubHeld, Single

LEMMA StepTick == TypeOK /\ TickInv /\ [Next]_vars => TickInv'
<1> SUFFICES ASSUME TypeOK, TickInv, [Next]_vars PROVE TickInv'
  OBVIOUS
<1> USE DEF memory, history
<1>0. /\ OneStubHeld /\ live \subseteq Sessions /\ todo \subseteq live
      /\ hb.pc \in Awaits => hb.session \in live /\ hb.session \in Sessions /\ phase # "down"
      /\ hb.pc = "loop" => phase # "down"
      /\ hb.extras = {}
  BY DEF TypeOK, TickInv, InFlight, Awaits
<1>1. CASE StartHeartbeat
  <2>1. OneStubHeld'
    BY <1>0, <1>1, SavedTick DEF StartHeartbeat
  <2>2. InFlight'
    BY <1>1 DEF StartHeartbeat, InFlight, Looping, Idle, Awaits
  <2>3. QED BY <2>1, <2>2 DEF TickInv
<1>2. ASSUME NEW s \in Sessions, VisitSilent(s) \/ VisitVetoed(s) PROVE TickInv'
  <2>1. Visit(s) /\ TickDone /\ UNCHANGED <<queue, disk>>
    BY <1>2 DEF VisitSilent, VisitVetoed
  <2>2. OneStubHeld'
    BY <1>0, <2>1, SavedTick
  <2>3. s \in live /\ phase' # "down" /\ live' = live
    BY <1>0, <2>1 DEF Visit
  <2>4. QED BY <2>1, <2>2, <2>3, GoesInFlight DEF Goes, TickInv
<1>3. ASSUME NEW s \in Sessions, VisitCleared(s) PROVE TickInv'
  <2>1. s \in live /\ phase' # "down" /\ live' = live
    BY <1>0, <1>3 DEF VisitCleared, Visit
  <2>2. Goes(s, Awaits) /\ OneStubHeld'
    <3>1. CASE Assess
      BY <1>0, <1>3, <3>1, SavedTick DEF VisitCleared, Goes, Awaits
    <3>2. CASE ~Assess
      BY <1>0, <1>3, <3>2, DecidedTick DEF VisitCleared, Goes, Awaits
    <3>3. QED BY <3>1, <3>2
  <2>3. QED BY <2>1, <2>2, GoesInFlight DEF TickInv
<1>4. CASE Assessed
  <2>1. hb.session \in live /\ hb.session \in Sessions /\ phase' # "down" /\ live' = live
    BY <1>0, <1>4 DEF Assessed, Awaits
  <2>2. Goes(hb.session, Awaits) /\ OneStubHeld'
    <3>1. CASE Stopped
      BY <1>0, <1>4, <3>1, SavedTick DEF Assessed, Goes
    <3>2. CASE ~Stopped
      BY <1>0, <1>4, <2>1, <3>2, DecidedTick DEF Assessed, Goes, Awaits
    <3>3. QED BY <3>1, <3>2
  <2>3. QED BY <2>1, <2>2, GoesInFlight DEF TickInv
<1>5. ASSUME NEW kind \in Results, Thought(kind) PROVE TickInv'
  <2>1. /\ hb.session \in live /\ hb.session \in Sessions /\ phase' # "down" /\ live' = live
        /\ UNCHANGED disk
    BY <1>0, <1>5 DEF Thought, Awaits
  <2>2. Goes(hb.session, Awaits)
    BY <1>5 DEF Thought, Speak, Goes, Awaits
  <2>3. OneStubHeld'
    <3>1. CASE UNCHANGED queue
      BY <1>0, <2>1, <3>1, SavedTick
    <3>2. CASE queue' = WithQueue(hb.session, Fresh(Held(hb.session), clock) \cup hb.extras)
      <4>1. Single(Fresh(Held(hb.session), clock) \cup hb.extras)
        BY <1>0, <2>1 DEF OneStubHeld, Single, Held, Fresh
      <4>2. QED BY <1>0, <2>1, <3>2, <4>1 DEF WithQueue, OneStubHeld, Single, TypeOK
    <3>3. QED BY <1>5, <3>1, <3>2 DEF Thought
  <2>4. QED BY <2>1, <2>2, <2>3, GoesInFlight DEF TickInv
<1>6. CASE DeliveryFulfilled \/ DeliveryRejected \/ RecordSent
  <2>1. /\ hb.session \in live /\ phase' # "down" /\ live' = live
        /\ UNCHANGED queue
    BY <1>0, <1>6 DEF DeliveryFulfilled, DeliveryRejected, RecordSent, Awaits
  <2>2. Goes(hb.session, Awaits)
    BY <1>6 DEF DeliveryFulfilled, DeliveryRejected, RecordSent, Speak, Goes, Awaits
  <2>3. UNCHANGED disk \/ \E at : Record(hb.session, at, sends, queue)
    BY <1>6 DEF DeliveryFulfilled, DeliveryRejected, RecordSent
  <2>4. OneStubHeld'
    BY <1>0, <2>1, <2>3, SavedTick DEF Record
  <2>5. QED BY <2>1, <2>2, <2>4, GoesInFlight DEF TickInv
<1>7. CASE FinishHeartbeat \/ AbortHeartbeat
  <2>1. OneStubHeld'
    BY <1>0, <1>7, SavedTick DEF FinishHeartbeat, AbortHeartbeat
  <2>2. hb' = Idle
    BY <1>7 DEF FinishHeartbeat, AbortHeartbeat
  <2>3. QED BY <2>1, <2>2 DEF TickInv, InFlight, Idle, Awaits
<1>8. CASE Landed
  <2>1. hb'.pc = hb.pc /\ hb'.session = hb.session /\ hb'.extras = hb.extras
    BY <1>8 DEF Landed, TypeOK, Heartbeats
  <2>2. OneStubHeld'
    BY <1>0, <1>8, SavedTick DEF Landed
  <2>3. QED BY <1>0, <1>8, <2>1, <2>2 DEF Landed, TickInv, InFlight
<1>9. ASSUME NEW s \in Sessions, NEW role \in {"user", "agent"}, Message(s, role)
      PROVE TickInv'
  <2>1. OneStubHeld'
    BY <1>0, <1>9, SavedTick DEF Message
  <2>2. QED BY <1>0, <1>9, <2>1 DEF Message, GetOrCreate, TickInv, InFlight
<1>10. CASE PluginInit
  <2>1. ASSUME NEW s \in Sessions PROVE Single(queue'[s])
    <3>1. queue'[s] \in SUBSET disk[s].queue
      BY <1>10 DEF PluginInit, Restore, StartFresh, Trimmed, Fresh
    <3>2. QED BY <1>0, <3>1 DEF OneStubHeld, Single
  <2>2. OneStubHeld'
    BY <1>0, <1>10, <2>1 DEF PluginInit, OneStubHeld, Single
  <2>3. QED BY <1>0, <1>10, <2>2 DEF PluginInit, TickInv, InFlight
<1>11. CASE Teardown
  <2>1. hb'.pc = hb.pc /\ hb'.session = hb.session /\ hb'.extras = hb.extras
    BY <1>11 DEF Teardown, TypeOK, Heartbeats
  <2>2. ASSUME NEW s \in Sessions PROVE queue'[s] = {} /\ Single(disk'[s].queue)
    <3>1. CASE disk'[s] = IF s \in live THEN [sends |-> Recent(sends[s], clock), queue |-> queue[s]]
                                        ELSE Blank
      BY <1>0, <1>11, <3>1 DEF Teardown, Blank, OneStubHeld, Single
    <3>2. CASE UNCHANGED disk
      BY <1>0, <1>11, <3>2 DEF Teardown, OneStubHeld, Single
    <3>3. QED BY <1>11, <3>1, <3>2 DEF Teardown, Write, Snapshot
  <2>3. QED BY <1>0, <1>11, <2>1, <2>2 DEF Teardown, TickInv, InFlight, OneStubHeld, Single
<1>12. CASE Crash
  BY <1>0, <1>12 DEF Crash, Idle, Awaits, TickInv, InFlight, OneStubHeld
<1>13. CASE ClockTick \/ UNCHANGED vars
  <2>1. OneStubHeld'
    BY <1>0, <1>13, SavedTick DEF ClockTick, vars
  <2>2. QED BY <1>0, <1>13, <2>1 DEF ClockTick, vars, TickInv, InFlight
<1>14. QED
  BY <1>1, <1>2, <1>3, <1>4, <1>5, <1>6, <1>7, <1>8, <1>9, <1>10, <1>11, <1>12, <1>13
     DEF Next, HeartbeatStep

LEMMA TickAlways == Spec => []TickInv
<1>1. Init => TickInv
  BY DEF Init, Idle, Blank, Awaits, TickInv, InFlight, OneStubHeld
<1>2. QED BY <1>1, StepTick, TypeCorrect, PTL DEF Spec

\* In every configuration a session holds one stub at most, in memory and in the
\* snapshot.
THEOREM OneStubAlways == Spec => []OneStubHeld
<1>1. TickInv => OneStubHeld
  BY DEF TickInv
<1>2. QED BY <1>1, TickAlways, PTL

-----------------------------------------------------------------------------
(* A heartbeat comes nearer its end. *)

\* How far the tick of the visited session still is from its end.
Rank == [pc \in {"idle", "loop"} \cup Awaits |->
            CASE pc = "assess" -> 5 [] pc = "generate" -> 4 [] pc = "deliver" -> 3
              [] pc = "sent" -> 2 [] pc = "loop" -> 1 [] OTHER -> 0]

\* A session is done, or else the tick goes on to a later await.
Nearer == todo' \subseteq todo /\ (todo' # todo \/ Rank[hb'.pc] < Rank[hb.pc])

LEMMA GoesNearer ==
    ASSUME TypeOK, NEW s, NEW pcs, Goes(s, pcs), UNCHANGED todo, hb.pc \in Awaits,
           pcs \subseteq {pc \in Awaits : Rank[pc] < Rank[hb.pc]}
    PROVE  Nearer
<1>1. CASE TickDone
  BY <1>1 DEF TickDone, Looping, Idle, Rank, Awaits, Nearer
<1>2. ASSUME NEW pc \in pcs, hb' = Waiting(pc, s, {}) PROVE Nearer
  BY <1>2 DEF Waiting, TypeOK, Heartbeats, Nearer
<1>3. QED BY <1>1, <1>2 DEF Goes

LEMMA HeartbeatNearer == ASSUME TypeOK, TickInv, HeartbeatStep PROVE Nearer
<1>0. OneStubHeld /\ (hb.pc \in Awaits => hb.session \in Sessions)
  BY DEF TypeOK, TickInv
<1>1. ASSUME NEW s \in Sessions, VisitSilent(s) \/ VisitVetoed(s) \/ VisitCleared(s) PROVE Nearer
  <2>1. s \in todo /\ todo' = todo \ {s}
    BY <1>1 DEF VisitSilent, VisitVetoed, VisitCleared, Visit
  <2>2. QED BY <2>1 DEF Nearer
<1>2. CASE Assessed
  <2>1. Goes(hb.session, {"generate", "deliver"})
    <3>1. CASE Stopped
      BY <1>2, <3>1 DEF Assessed, Goes
    <3>2. CASE ~Stopped
      BY <1>0, <1>2, <3>2, DecidedTick DEF Assessed, Awaits
    <3>3. QED BY <3>1, <3>2
  <2>2. UNCHANGED todo /\ hb.pc = "assess"
    BY <1>2 DEF Assessed
  <2>3. QED BY <2>1, <2>2, GoesNearer DEF Rank, Awaits
<1>3. ASSUME NEW kind \in Results, Thought(kind) PROVE Nearer
  <2>1. Goes(hb.session, {"deliver", "sent"})
    BY <1>3 DEF Thought, Speak, Goes
  <2>2. UNCHANGED todo /\ hb.pc = "generate"
    BY <1>3 DEF Thought
  <2>3. QED BY <2>1, <2>2, GoesNearer DEF Rank, Awaits
<1>4. CASE DeliveryFulfilled \/ DeliveryRejected
  <2>1. Goes(hb.session, {"sent"})
    BY <1>4 DEF DeliveryFulfilled, DeliveryRejected, Speak, Goes
  <2>2. UNCHANGED todo /\ hb.pc = "deliver"
    BY <1>4 DEF DeliveryFulfilled, DeliveryRejected
  <2>3. QED BY <2>1, <2>2, GoesNearer DEF Rank, Awaits
<1>5. CASE RecordSent
  <2>1. Goes(hb.session, {})
    BY <1>5 DEF RecordSent, Goes
  <2>2. UNCHANGED todo /\ hb.pc = "sent"
    BY <1>5 DEF RecordSent
  <2>3. QED BY <2>1, <2>2, GoesNearer DEF Awaits
<1>6. CASE FinishHeartbeat \/ AbortHeartbeat
  <2>1. hb.pc = "loop" /\ hb'.pc = "idle" /\ todo' \subseteq todo
    BY <1>6 DEF FinishHeartbeat, AbortHeartbeat, Idle
  <2>2. QED BY <2>1 DEF Rank, Nearer
<1>7. QED BY <1>1, <1>2, <1>3, <1>4, <1>5, <1>6 DEF HeartbeatStep

\* Why a heartbeat ends in every configuration, up to fairness: each step of its
\* own leaves a session less to visit, or brings the tick to a later await, and
\* nothing else that happens (messages, which may make new sessions, teardown,
\* re-initialisation, a landing, the clock) undoes that; only a crash ends it too.
NothingProlongs ==
    [][hb.pc # "idle" =>
        /\ HeartbeatStep => Nearer
        /\ Nearer \/ (UNCHANGED todo /\ hb'.pc = hb.pc)]_vars

THEOREM HeartbeatShortens == Spec => NothingProlongs
<1>1. ASSUME TypeOK, TickInv, [Next]_vars, hb.pc # "idle", ~HeartbeatStep
      PROVE  Nearer \/ (UNCHANGED todo /\ hb'.pc = hb.pc)
  <2> USE DEF memory, history
  <2>1. CASE Crash
    <3>1. hb.pc \in {"loop"} \cup Awaits /\ hb'.pc = "idle" /\ todo' \subseteq todo
      BY <1>1, <2>1 DEF Crash, Idle, TypeOK, Heartbeats
    <3>2. QED BY <3>1 DEF Rank, Awaits, Nearer
  <2>2. CASE Teardown \/ Landed
    BY <1>1, <2>2 DEF Teardown, Landed, TypeOK, Heartbeats
  <2>3. CASE \/ PluginInit \/ ClockTick \/ UNCHANGED vars
             \/ \E s \in Sessions, role \in {"user", "agent"} : Message(s, role)
    BY <2>3 DEF PluginInit, ClockTick, vars, Message
  <2>4. QED BY <1>1, <2>1, <2>2, <2>3 DEF Next, StartHeartbeat
<1>2. TypeOK /\ TickInv /\ [Next]_vars =>
        (hb.pc # "idle" => /\ HeartbeatStep => Nearer
                           /\ Nearer \/ (UNCHANGED todo /\ hb'.pc = hb.pc))
  BY <1>1, HeartbeatNearer
<1>3. QED BY <1>2, TypeCorrect, TickAlways, PTL DEF Spec, NothingProlongs

-----------------------------------------------------------------------------
(* The steps that record a slot. *)

\* A decision that records a slot has reached the user by the same step.
LEMMA DecidedGrants ==
    ASSUME NEW s, NEW score, NEW logs, Decided(s, score, logs)
    PROVE  \/ UNCHANGED <<granted, delivered, behind>>
           \/ /\ \E queues : Record(s, hb.now, logs, queues)
              /\ Deliver(s)
<1> DEFINE rescored == Rescored(Held(s), score, clock)
           promoted == score >= SendThreshold /\ rescored # {}
           stub == [at |-> hb.now, score |-> score]
           Leave(held) == /\ queue' = WithQueue(s, held)
                          /\ sends' = logs
                          /\ UNCHANGED <<disk, behind, history>>
           Outreach(extras) ==
               IF Mode = "delegate"
               THEN /\ queue' = WithQueue(s, extras)
                    /\ Delegate(s, logs, WithQueue(s, extras))
               ELSE /\ hb' = Waiting("generate", s, extras)
                    /\ Leave({})
           Goal == \/ UNCHANGED <<granted, delivered, behind>>
                   \/ (\E queues : Record(s, hb.now, logs, queues)) /\ Deliver(s)
<1>1. ASSUME NEW held, Leave(held) PROVE Goal
  BY <1>1 DEF history
<1>2. ASSUME NEW extras, Outreach(extras) PROVE Goal
  BY <1>1, <1>2 DEF Delegate, history
<1>3. CASE \E first \in rescored : Outreach(rescored \ {first})
  BY <1>2, <1>3
<1>4. CASE \E held : Leave(held)
  BY <1>1, <1>4
<1>5. CASE Outreach({})
  BY <1>2, <1>5
<1>6. QED BY <1>3, <1>4, <1>5 DEF Decided

\* A step grants a slot to one session at most: the one that is visited or whose
\* tick is at an await.  It delivers, or continues what was sent or fulfilled.
GrantsTo(s) ==
    /\ s \in live /\ phase # "down" /\ UNCHANGED <<clock, phase, forgotten>>
    /\ \E at, logs, queues : Record(s, at, logs, queues)
    /\ \/ Deliver(s)
       \/ /\ s = hb.session /\ UNCHANGED delivered
          /\ \/ hb.pc = "sent"
             \/ hb.pc = "deliver" /\ (hb.landed \/ "false_ok" \in Events)

LEMMA DecidedGrantsTo ==
    ASSUME NEW s \in live, phase # "down", UNCHANGED <<clock, phase, forgotten>>, granted' # granted,
           NEW score, NEW logs, Decided(s, score, logs)
    PROVE  GrantsTo(s)
<1>1. (\E queues : Record(s, hb.now, logs, queues)) /\ Deliver(s)
  BY DecidedGrants
<1>2. QED BY <1>1 DEF GrantsTo

LEMMA GrantingSteps ==
    ASSUME TypeOK, TickInv, [Next]_vars, granted' # granted
    PROVE  \E s \in live : GrantsTo(s)
<1> USE DEF history
<1>0. /\ todo \subseteq live
      /\ hb.pc \in Awaits => hb.session \in live /\ phase # "down"
      /\ hb.pc = "loop" => phase # "down"
  BY DEF TypeOK, TickInv, InFlight, Awaits
<1>1. ASSUME NEW s \in Sessions, VisitCleared(s) PROVE GrantsTo(s) /\ s \in live
  <2>1. UNCHANGED <<clock, phase, forgotten>> /\ s \in live /\ phase # "down"
    BY <1>0, <1>1 DEF VisitCleared, Visit
  <2>2. ~Assess
    BY <1>1 DEF VisitCleared
  <2>3. PICK score \in Scores : Decided(s, score, [sends EXCEPT ![s] = Recent(sends[s], hb.now)])
    BY <1>1, <2>2 DEF VisitCleared
  <2>4. QED BY <2>1, <2>3, DecidedGrantsTo
<1>2. CASE Assessed
  <2>1. UNCHANGED <<clock, phase, forgotten>> /\ hb.session \in live /\ phase # "down"
    BY <1>0, <1>2 DEF Assessed, Awaits
  <2>2. PICK score \in Scores : Decided(hb.session, score, sends)
    BY <1>2 DEF Assessed
  <2>3. QED BY <2>1, <2>2, DecidedGrantsTo
<1>3. CASE DeliveryFulfilled
  <2>1. UNCHANGED <<clock, phase, forgotten, delivered>> /\ hb.session \in live /\ phase # "down"
        /\ hb.pc = "deliver" /\ (hb.landed \/ "false_ok" \in Events)
    BY <1>0, <1>3 DEF DeliveryFulfilled, Awaits
  <2>2. Record(hb.session, hb.now, sends, queue)
    BY <1>3 DEF DeliveryFulfilled
  <2>3. QED BY <2>1, <2>2 DEF GrantsTo
<1>4. CASE RecordSent
  <2>1. UNCHANGED <<clock, phase, forgotten, delivered>> /\ hb.session \in live /\ phase # "down"
        /\ hb.pc = "sent" /\ Record(hb.session, clock, sends, queue)
    BY <1>0, <1>4 DEF RecordSent, Awaits
  <2>2. QED BY <2>1 DEF GrantsTo
<1>5. CASE \/ StartHeartbeat \/ DeliveryRejected \/ FinishHeartbeat \/ AbortHeartbeat
           \/ Landed \/ PluginInit \/ Teardown \/ Crash \/ ClockTick \/ UNCHANGED vars
           \/ \E s \in Sessions : VisitSilent(s) \/ VisitVetoed(s)
           \/ \E kind \in Results : Thought(kind)
           \/ \E s \in Sessions, role \in {"user", "agent"} : Message(s, role)
  BY <1>5 DEF StartHeartbeat, DeliveryRejected, FinishHeartbeat, AbortHeartbeat, Landed, PluginInit,
              Teardown, Crash, ClockTick, vars, VisitSilent, VisitVetoed, Visit, Thought, Message
<1>6. QED BY <1>1, <1>2, <1>3, <1>4, <1>5 DEF Next, HeartbeatStep

\* A write that succeeds brings the logs of the live sessions to disk.
LEMMA SaveDurable ==
    ASSUME NEW logs, NEW queues, Save(logs, queues), Persist, phase = "up", ~behind',
           NEW s \in Sessions, s \in live
    PROVE  sends'[s] = disk'[s].sends
BY DEF Save, Write, Snapshot, Stopped

\* Within a lifecycle only a save ends the wait for a write that succeeds.
LEMMA CatchingUp ==
    ASSUME TypeOK, [Next]_vars, phase = "up", phase' = "up", behind, ~behind'
    PROVE  \E logs, queues : Save(logs, queues) /\ UNCHANGED live
<1> USE DEF memory, history
<1> DEFINE Goal == \E logs, queues : Save(logs, queues) /\ UNCHANGED live
<1>1. ASSUME NEW s, NEW at, NEW logs, NEW queues, Record(s, at, logs, queues), UNCHANGED live
      PROVE  Goal
  BY <1>1 DEF Record
<1>2. ASSUME NEW s \in Sessions, NEW score, NEW logs, Decided(s, score, logs), UNCHANGED live
      PROVE  Goal
  <2>1. UNCHANGED behind \/ \E queues : Record(s, hb.now, logs, queues)
    BY <1>2, DecidedGrants
  <2>2. QED BY <1>1, <1>2, <2>1
<1>3. ASSUME NEW s \in Sessions, VisitCleared(s) PROVE Goal
  <2>1. UNCHANGED live
    BY <1>3 DEF VisitCleared, Visit
  <2>2. QED BY <1>2, <1>3, <2>1 DEF VisitCleared
<1>4. CASE Assessed
  <2>1. hb.session \in Sessions /\ UNCHANGED live
    BY <1>4 DEF Assessed, TypeOK, Awaits
  <2>2. QED BY <1>2, <1>4, <2>1 DEF Assessed
<1>5. CASE DeliveryFulfilled \/ RecordSent
  BY <1>1, <1>5 DEF DeliveryFulfilled, RecordSent
<1>6. CASE FinishHeartbeat
  BY <1>6 DEF FinishHeartbeat
<1>7. ~\/ StartHeartbeat \/ DeliveryRejected \/ AbortHeartbeat
       \/ Landed \/ PluginInit \/ Teardown \/ Crash \/ ClockTick \/ UNCHANGED vars
       \/ \E s \in Sessions : VisitSilent(s) \/ VisitVetoed(s)
       \/ \E kind \in Results : Thought(kind)
       \/ \E s \in Sessions, role \in {"user", "agent"} : Message(s, role)
  BY DEF StartHeartbeat, DeliveryRejected, AbortHeartbeat, Landed, PluginInit,
         Teardown, Crash, ClockTick, vars, VisitSilent, VisitVetoed, Visit, Thought, Message
<1>8. QED BY <1>3, <1>4, <1>5, <1>6, <1>7 DEF Next, HeartbeatStep

\* In every configuration with persistence a slot is on disk with all that count, at
\* once or with the next write that succeeds: its session is one the snapshot keeps.
THEOREM RecordedAlwaysDurable == Spec => RecordedIsDurable
<1>1. ASSUME TypeOK, TickInv, [Next]_vars, Persist, NEW s \in Sessions,
             granted'[s] # granted[s], phase = "up", ~behind'
      PROVE  sends'[s] = disk'[s].sends
  <2>1. PICK r \in live : GrantsTo(r)
    BY <1>1, GrantingSteps
  <2>2. PICK at, logs, queues : Record(r, at, logs, queues)
    BY <2>1 DEF GrantsTo
  <2>3. s = r /\ s \in live
    BY <1>1, <2>1, <2>2 DEF Record, TypeOK
  <2>4. PICK newLogs : Save(newLogs, queues)
    BY <2>2 DEF Record
  <2>5. QED BY <1>1, <2>3, <2>4, SaveDurable
<1>2. ASSUME TypeOK, [Next]_vars, Persist, NEW s \in Sessions,
             s \in live, phase = "up", phase' = "up", behind, ~behind'
      PROVE  sends'[s] = disk'[s].sends
  <2>1. PICK logs, queues : Save(logs, queues)
    BY <1>2, CatchingUp
  <2>2. QED BY <1>2, <2>1, SaveDurable
<1>3. TypeOK /\ TickInv /\ [Next]_vars
         => (Persist /\ phase = "up" /\ phase' = "up" /\ ~behind' =>
                \A s \in Sessions :
                    granted'[s] # granted[s] \/ (behind /\ s \in live)
                        => sends'[s] = disk'[s].sends)
  BY <1>1, <1>2
<1>4. QED BY <1>3, TypeCorrect, TickAlways, PTL DEF Spec, RecordedIsDurable

-----------------------------------------------------------------------------
(* A slot is a delivery. *)

\* An outreach that the transport or ctx.send has taken has reached the user.
Received ==
    hb.pc = "sent" \/ (hb.pc = "deliver" /\ hb.landed) =>
        \E d \in delivered[hb.session] : d.tick = hb.now /\ d.at <= clock

LEMMA GoesUnsent ==
    ASSUME TypeOK, NEW s, NEW pcs, Goes(s, pcs), "sent" \notin pcs
    PROVE  Received'
<1>1. CASE TickDone
  BY <1>1 DEF TickDone, Looping, Idle, Received
<1>2. ASSUME NEW pc \in pcs, hb' = Waiting(pc, s, {}) PROVE Received'
  BY <1>2 DEF Waiting, TypeOK, Heartbeats, Received
<1>3. QED BY <1>1, <1>2 DEF Goes

LEMMA DeliverReceived ==
    ASSUME TypeOK, NEW s \in Sessions, Deliver(s)
    PROVE  \E d \in delivered'[s] : d.tick = hb.now /\ d.at <= clock
<1> DEFINE d == [tick |-> hb.now, at |-> clock]
<1>1. d \in delivered'[s]
  BY DEF Deliver, TypeOK
<1>2. d.tick = hb.now /\ d.at <= clock
  BY DEF TypeOK, Time
<1>3. QED BY <1>1, <1>2

LEMMA StepReceived ==
    ASSUME "false_ok" \notin Events, TypeOK, TickInv, Received, [Next]_vars
    PROVE  Received'
<1> USE DEF memory, history
<1>0. /\ hb.pc \in Awaits => hb.session \in Sessions
      /\ clock \in Nat /\ \A s \in Sessions : \A d \in delivered[s] : d.at \in Nat
      /\ TickDone => Received'
  <2>1. TickDone => Goes(hb.session, {})
    BY DEF Goes
  <2>2. QED BY <2>1, GoesUnsent DEF TypeOK, Time
<1>speak. ASSUME Speak(hb.session), UNCHANGED clock,
                 \E d \in delivered'[hb.session] : d.tick = hb.now /\ d.at <= clock
          PROVE  Received'
  <2>1. hb'.session = hb.session /\ hb'.now = hb.now
    BY <1>speak DEF Speak, Waiting, TypeOK, Heartbeats
  <2>2. QED BY <1>speak, <2>1 DEF Received
<1>1. CASE StartHeartbeat
  BY <1>1 DEF StartHeartbeat, Looping, Idle, Received
<1>2. ASSUME NEW s \in Sessions, VisitSilent(s) \/ VisitVetoed(s) PROVE Received'
  BY <1>0, <1>2 DEF VisitSilent, VisitVetoed
<1>3. ASSUME NEW s \in Sessions, VisitCleared(s) PROVE Received'
  <2>1. CASE Assess
    BY <1>3, <2>1, GoesUnsent DEF VisitCleared, Goes
  <2>2. CASE ~Assess
    BY <1>3, <2>2, DecidedTick, GoesUnsent DEF VisitCleared, TickInv
  <2>3. QED BY <2>1, <2>2
<1>4. CASE Assessed
  <2>1. CASE Stopped
    BY <1>0, <1>4, <2>1 DEF Assessed
  <2>2. CASE ~Stopped
    BY <1>0, <1>4, <2>2, DecidedTick, GoesUnsent DEF Assessed, TickInv, Awaits
  <2>3. QED BY <2>1, <2>2
<1>5. ASSUME NEW kind \in Results, Thought(kind) PROVE Received'
  <2>1. CASE Goes(hb.session, {"deliver"})
    BY <2>1, GoesUnsent
  <2>2. CASE Speak(hb.session) /\ Deliver(hb.session)
    BY <1>0, <1>5, <1>speak, <2>2, DeliverReceived DEF Thought, Awaits
  <2>3. QED BY <1>5, <2>1, <2>2 DEF Thought, Goes
<1>6. CASE DeliveryFulfilled
  <2>1. CASE TickDone
    BY <1>0, <2>1
  <2>2. CASE Speak(hb.session)
    BY <1>6, <1>speak, <2>2 DEF DeliveryFulfilled, Received
  <2>3. QED BY <1>6, <2>1, <2>2 DEF DeliveryFulfilled
<1>7. CASE DeliveryRejected \/ RecordSent
  BY <1>0, <1>7 DEF DeliveryRejected, RecordSent
<1>8. CASE FinishHeartbeat \/ AbortHeartbeat \/ Crash
  BY <1>8 DEF FinishHeartbeat, AbortHeartbeat, Crash, Idle, Received
<1>9. CASE Landed
  <2>1. hb'.session = hb.session /\ hb'.now = hb.now /\ hb.session \in Sessions /\ Deliver(hb.session)
    BY <1>0, <1>9 DEF Landed, TypeOK, Heartbeats, Awaits
  <2>2. QED BY <1>9, <2>1, DeliverReceived DEF Landed, Received
<1>10. CASE \/ PluginInit \/ Teardown \/ ClockTick \/ UNCHANGED vars
            \/ \E s \in Sessions, role \in {"user", "agent"} : Message(s, role)
  <2>1. UNCHANGED delivered /\ clock <= clock' /\ clock' \in Nat
    BY <1>0, <1>10 DEF PluginInit, Teardown, ClockTick, vars, Message
  <2>2. hb'.pc = hb.pc /\ hb'.session = hb.session /\ hb'.now = hb.now /\ hb'.landed = hb.landed
    BY <1>10 DEF PluginInit, Teardown, ClockTick, vars, Message, TypeOK, Heartbeats
  <2>3. SUFFICES ASSUME hb.pc = "sent" \/ (hb.pc = "deliver" /\ hb.landed)
                 PROVE  \E d \in delivered[hb.session] : d.tick = hb.now /\ d.at <= clock'
    BY <2>1, <2>2 DEF Received
  <2>4. PICK d \in delivered[hb.session] : d.tick = hb.now /\ d.at <= clock
    BY <2>3 DEF Received
  <2>5. hb.session \in Sessions
    BY <1>0, <2>3 DEF Awaits
  <2>6. QED BY <1>0, <2>1, <2>4, <2>5
<1>11. QED
  BY <1>1, <1>2, <1>3, <1>4, <1>5, <1>6, <1>7, <1>8, <1>9, <1>10 DEF Next, HeartbeatStep

LEMMA ReceivedAlways == "false_ok" \notin Events => (Spec => []Received)
<1> SUFFICES ASSUME "false_ok" \notin Events PROVE Spec => []Received
  OBVIOUS
<1>1. Init => Received
  BY DEF Init, Idle, Received
<1>2. TypeOK /\ TickInv /\ Received /\ [Next]_vars => Received'
  BY StepReceived
<1>3. QED BY <1>1, <1>2, TypeCorrect, TickAlways, PTL DEF Spec

\* With a transport that does not report falsely, no slot is consumed unless the
\* tick that records it has reached its user, whatever rejections, late arrivals,
\* teardowns and crashes there are.
THEOREM SlotsAlwaysDeliveries == "false_ok" \notin Events => (Spec => SlotsAreDeliveries)
<1> SUFFICES ASSUME "false_ok" \notin Events PROVE Spec => SlotsAreDeliveries
  OBVIOUS
<1>1. ASSUME TypeOK, TickInv, Received, [Next]_vars, NEW s \in Sessions, granted'[s] # granted[s]
      PROVE  \E d \in delivered'[s] : d.tick = hb.now /\ d.at <= clock
  <2>1. PICK r \in live : GrantsTo(r)
    BY <1>1, GrantingSteps
  <2>2. s = r
    BY <1>1, <2>1 DEF GrantsTo, Record, TypeOK
  <2>3. CASE Deliver(s)
    BY <1>1, <2>3, DeliverReceived
  <2>4. CASE ~Deliver(s)
    BY <1>1, <2>1, <2>2, <2>4 DEF GrantsTo, Received
  <2>5. QED BY <2>3, <2>4
<1>2. TypeOK /\ TickInv /\ Received /\ [Next]_vars
         => \A s \in Sessions : granted'[s] # granted[s] =>
                \E d \in delivered'[s] : d.tick = hb.now /\ d.at <= clock
  BY <1>1
<1>3. QED BY <1>2, TypeCorrect, TickAlways, ReceivedAlways, PTL DEF Spec, SlotsAreDeliveries


-----------------------------------------------------------------------------
(* Logs: smaller logs satisfy more, and a paced log takes one more entry. *)

LEMMA CardLe ==
    ASSUME NEW S, IsFiniteSet(S), NEW T \in SUBSET S
    PROVE  /\ Cardinality(T) \in Nat /\ Cardinality(S) \in Nat
           /\ Cardinality(T) <= Cardinality(S)
BY FS_Subset, FS_CardinalityType

LEMMA CardAdd ==
    ASSUME NEW S, IsFiniteSet(S), NEW x
    PROVE  /\ IsFiniteSet(S \cup {x})
           /\ Cardinality(S \cup {x}) <= Cardinality(S) + 1
<1>1. Cardinality(S) \in Nat
  BY FS_CardinalityType
<1>2. QED BY <1>1, FS_AddElement

LEMMA PacedSubset ==
    ASSUME NEW log \in Log, IsFiniteSet(log), NEW part \in SUBSET log, NEW t \in Time,
           Paced(log, t)
    PROVE  Paced(part, t)
<1>1. ASSUME NEW span PROVE Cardinality(Within(part, t, span)) <= Cardinality(Within(log, t, span))
                            /\ Cardinality(Within(part, t, span)) \in Nat
                            /\ Cardinality(Within(log, t, span)) \in Nat
  <2>1. Within(part, t, span) \in SUBSET Within(log, t, span)
    BY DEF Within
  <2>2. IsFiniteSet(Within(log, t, span))
    BY FS_Subset DEF Within
  <2>3. QED BY <2>1, <2>2, CardLe
<1>2. \A at \in part : t - at >= Cooldown
  BY DEF Paced
<1>3. Cardinality(Within(part, t, Hour)) < MaxPerHour
  <2>1. Cardinality(Within(log, t, Hour)) < MaxPerHour
    BY DEF Paced
  <2>2. QED BY <1>1, <2>1, ConfigAssumption
<1>4. Cardinality(Within(part, t, Day)) < MaxPerDay
  <2>1. Cardinality(Within(log, t, Day)) < MaxPerDay
    BY DEF Paced
  <2>2. QED BY <1>1, <2>1, ConfigAssumption
<1>5. QED BY <1>2, <1>3, <1>4 DEF Paced

LEMMA CappedSubset ==
    ASSUME NEW log \in Log, IsFiniteSet(log), NEW part \in SUBSET log,
           NEW span \in Nat, NEW max \in Nat, Capped(log, span, max)
    PROVE  Capped(part, span, max)
<1> SUFFICES ASSUME NEW at \in part PROVE Cardinality(UpTo(part, at, span)) <= max
  BY DEF Capped
<1>1. UpTo(part, at, span) \in SUBSET UpTo(log, at, span)
  BY DEF UpTo
<1>2. IsFiniteSet(UpTo(log, at, span))
  BY FS_Subset DEF UpTo
<1>3. Cardinality(UpTo(log, at, span)) <= max
  BY DEF Capped
<1>4. QED BY <1>1, <1>2, <1>3, CardLe

LEMMA KeptSubset ==
    ASSUME NEW log \in Log, IsFiniteSet(log), NEW part \in SUBSET log, Kept(log)
    PROVE  Kept(part)
<1>1. Spaced(part)
  BY DEF Kept, Spaced
<1>2. Capped(part, Hour, MaxPerHour) /\ Capped(part, Day, MaxPerDay)
  BY CappedSubset, ConfigAssumption DEF Kept
<1>3. QED BY <1>1, <1>2 DEF Kept

LEMMA CappedAdd ==
    ASSUME NEW log \in Log, IsFiniteSet(log), NEW span \in Nat, NEW max \in Nat,
           NEW t \in Time, NEW at \in Time, t <= at,
           \A u \in log : u < at,
           Capped(log, span, max), Cardinality(Within(log, t, span)) < max
    PROVE  Capped(log \cup {at}, span, max)
<1> SUFFICES ASSUME NEW a \in log \cup {at}
             PROVE  Cardinality(UpTo(log \cup {at}, a, span)) <= max
  BY DEF Capped
<1>1. CASE a \in log
  <2>1. a < at /\ a \in Nat
    BY <1>1 DEF Log, Time
  <2>2. UpTo(log \cup {at}, a, span) = UpTo(log, a, span)
    BY <2>1 DEF UpTo, Time
  <2>3. QED BY <1>1, <2>2 DEF Capped
<1>2. CASE a = at
  <2> DEFINE before == UpTo(log, at, span)
  <2>1. UpTo(log \cup {at}, at, span) \in SUBSET (before \cup {at})
    BY DEF UpTo
  <2>2. before \in SUBSET Within(log, t, span)
    <3> SUFFICES ASSUME NEW u \in before PROVE u \in Within(log, t, span)
      OBVIOUS
    <3>1. u \in log /\ at - u < span
      BY DEF UpTo
    <3>2. u \in Nat
      BY <3>1 DEF Log, Time
    <3>3. t - u < span
      BY <3>1, <3>2 DEF Time
    <3>4. QED BY <3>1, <3>3 DEF Within
  <2>3. IsFiniteSet(Within(log, t, span)) /\ IsFiniteSet(before)
    BY FS_Subset DEF Within, UpTo
  <2>4. /\ Cardinality(before) \in Nat /\ Cardinality(Within(log, t, span)) \in Nat
        /\ Cardinality(before) <= Cardinality(Within(log, t, span))
    BY <2>2, <2>3, CardLe
  <2>5. IsFiniteSet(before \cup {at}) /\ Cardinality(before \cup {at}) <= Cardinality(before) + 1
    BY <2>3, CardAdd
  <2>6. /\ Cardinality(UpTo(log \cup {at}, at, span)) \in Nat
        /\ Cardinality(before \cup {at}) \in Nat
        /\ Cardinality(UpTo(log \cup {at}, at, span)) <= Cardinality(before \cup {at})
    BY <2>1, <2>5, CardLe
  <2>7. QED BY <1>2, <2>4, <2>5, <2>6
<1>3. QED BY <1>1, <1>2

\* The heart of the argument: guardrails checked at t license a slot at any
\* later moment, as long as the log has not grown since.
LEMMA KeptAdd ==
    ASSUME NEW log \in Log, IsFiniteSet(log), NEW t \in Time, NEW at \in Time, t <= at,
           Kept(log), Paced(log, t)
    PROVE  Kept(log \cup {at})
<1>1. \A u \in log : u \in Nat /\ t - u >= Cooldown
  BY DEF Paced, Log, Time
<1>2. \A u \in log : at - u >= Cooldown /\ u < at
  BY <1>1, ConfigAssumption DEF Time
<1>3. Spaced(log \cup {at})
  <2> SUFFICES ASSUME NEW a \in log \cup {at}, NEW b \in log \cup {at}, a < b
               PROVE  b - a >= Cooldown
    BY DEF Spaced
  <2>1. CASE a \in log /\ b \in log
    BY <2>1 DEF Kept, Spaced
  <2>2. CASE a \in log /\ b = at
    BY <1>2, <2>2
  <2>3. CASE a = at /\ b \in log
    BY <1>1, <1>2, <2>3 DEF Time
  <2>4. CASE a = at /\ b = at
    BY <2>4 DEF Time
  <2>5. QED BY <2>1, <2>2, <2>3, <2>4
<1>4. Capped(log \cup {at}, Hour, MaxPerHour)
  BY <1>2, CappedAdd, ConfigAssumption DEF Kept, Paced
<1>5. Capped(log \cup {at}, Day, MaxPerDay)
  BY <1>2, CappedAdd, ConfigAssumption DEF Kept, Paced
<1>6. QED BY <1>3, <1>4, <1>5 DEF Kept

LEMMA LogFinite ==
    ASSUME NEW log \in Log, NEW t \in Time, \A at \in log : at <= t
    PROVE  IsFiniteSet(log)
BY FS_BoundedSetOfNaturals DEF Log, Time

LEMMA KeptEmpty == Kept({}) /\ \A t : Paced({}, t)
<1>1. \A t, span : Within({}, t, span) = {}
  BY DEF Within
<1>2. \A t : Paced({}, t)
  BY <1>1, FS_EmptySet, ConfigAssumption DEF Paced
<1>3. QED BY <1>2 DEF Kept, Spaced, Capped

-----------------------------------------------------------------------------
(* Steps that leave the log and the snapshot alone, save, or record. *)

LEMMA CountingIn ==
    ASSUME NEW s \in Sessions, NEW log \in Log
    PROVE  Counting(log, s) \in SUBSET log /\ Counting(log, s) \in Log
BY DEF Counting, Log

LEMMA RecentIn ==
    ASSUME NEW log \in Log, NEW early \in Time, NEW late \in Time, early <= late
    PROVE  Recent(log, late) \in SUBSET Recent(log, early)
<1> SUFFICES ASSUME NEW u \in Recent(log, late) PROVE early - u < Day
  BY DEF Recent
<1>1. u \in Nat /\ late - u < Day
  BY DEF Recent, Log, Time
<1>2. QED BY <1>1, ConfigAssumption DEF Time

\* The logs and the snapshot stay, and a suspended tick stays where it was.
LEMMA FramePacing ==
    ASSUME TypeOK, PacingInv, UNCHANGED <<clock, phase, forgotten, sends, disk>>,
           hb'.now = hb.now,
           phase = "down" => hb'.pc = "idle",
           hb'.pc \in Awaits => hb.pc \in Awaits /\ hb'.session = hb.session
    PROVE  PacingInv'
BY DEF PacingInv, LogsKept, DiskKept, TickPaced, NoTickWhileDown, Counting

LEMMA SaveLogs ==
    ASSUME TypeOK, DiskKept, UNCHANGED <<clock, phase, forgotten>>,
           NEW logs \in Logs, NEW queues, LogsKept(logs), Save(logs, queues)
    PROVE  LogsKept(sends)' /\ DiskKept'
<1>0. ASSUME NEW s \in Sessions
      PROVE  /\ sends'[s] \in SUBSET logs[s]
             /\ disk'[s].sends \in SUBSET logs[s] \/ UNCHANGED disk
             /\ phase = "up" => Counting(Recent(disk'[s].sends, clock), s) \subseteq sends'[s]
  <2>1. logs[s] \in Log /\ clock \in Time
    BY DEF TypeOK, Logs
  <2>2. phase = "up" => Counting(Recent(disk[s].sends, clock), s) \subseteq logs[s]
    BY DEF LogsKept
  <2>3. CASE Persist /\ ~Stopped
    <3>1. sends'[s] = IF s \in live THEN Recent(logs[s], clock) ELSE logs[s]
      BY <2>3 DEF Save
    <3>2. CASE UNCHANGED disk
      BY <2>1, <2>2, <3>1, <3>2 DEF Recent, Counting
    <3>3. CASE disk' = Snapshot(logs, queues)
      <4>1. CASE s \in live
        BY <3>1, <3>3, <4>1 DEF Snapshot, Recent, Counting
      <4>2. CASE s \notin live
        BY <3>1, <3>3, <4>2 DEF Snapshot, Blank, Recent, Counting
      <4>3. QED BY <4>1, <4>2
    <3>4. QED BY <2>3, <3>2, <3>3 DEF Save, Write
  <2>4. CASE ~(Persist /\ ~Stopped)
    BY <2>2, <2>4 DEF Save
  <2>5. QED BY <2>3, <2>4
<1>1. ASSUME NEW s \in Sessions, NEW log, log \in SUBSET logs[s]
      PROVE  (\A at \in log : at <= clock) /\ Kept(Counting(log, s))
  <2>1. /\ logs[s] \in Log /\ clock \in Time /\ \A at \in logs[s] : at <= clock
        /\ Kept(Counting(logs[s], s)) /\ Counting(logs[s], s) \in Log
    BY CountingIn DEF TypeOK, Logs, LogsKept
  <2>2. IsFiniteSet(Counting(logs[s], s))
    BY <2>1, LogFinite DEF Counting
  <2>3. Counting(log, s) \in SUBSET Counting(logs[s], s)
    BY <1>1 DEF Counting
  <2>4. QED BY <1>1, <2>1, <2>2, <2>3, KeptSubset
<1>2. ASSUME NEW s \in Sessions
      PROVE  (\A at \in disk'[s].sends : at <= clock) /\ Kept(Counting(disk'[s].sends, s))
  BY <1>0, <1>1 DEF DiskKept
<1>3. ASSUME NEW s \in Sessions
      PROVE  (\A at \in sends'[s] : at <= clock) /\ Kept(Counting(sends'[s], s))
  BY <1>0, <1>1
<1>4. forgotten' = forgotten /\ clock' = clock /\ phase' = phase
  OBVIOUS
<1>5. \A log, s : Counting(log, s)' = Counting(log', s)
  BY <1>4 DEF Counting
<1>6. DiskKept'
  BY <1>2, <1>4 DEF DiskKept, Counting
<1>7. LogsKept(sends)'
  BY <1>0, <1>3, <1>4 DEF LogsKept, Counting, Recent
<1>8. QED BY <1>6, <1>7

LEMMA RecordLogs ==
    ASSUME TypeOK, DiskKept, UNCHANGED <<clock, phase, forgotten>>,
           NEW s \in Sessions, NEW logs \in Logs, NEW queues, LogsKept(logs),
           NEW t \in Time, NEW at \in Time, t <= at, at <= clock,
           Paced(Counting(logs[s], s), t), Record(s, at, logs, queues)
    PROVE  LogsKept(sends)' /\ DiskKept'
<1> DEFINE log == logs[s]
           new == Recent(log, at) \cup {at}
           newLogs == [logs EXCEPT ![s] = new]
<1>1. log \in Log /\ new \in Log /\ newLogs \in Logs /\ clock \in Time
      /\ Counting(log, s) \in Log /\ Counting(log, s) \in SUBSET log
  BY CountingIn DEF Logs, Log, Recent, TypeOK
<1>2. \A u \in log \cup {at} : u <= clock
  BY DEF LogsKept
<1>3. Kept(Counting(new, s))
  <2> DEFINE counted == Counting(log, s)
  <2>1. IsFiniteSet(counted) /\ IsFiniteSet(counted \cup {at})
    <3>1. IsFiniteSet(counted)
      BY <1>1, <1>2, LogFinite
    <3>2. QED BY <3>1, CardAdd
  <2>2. Kept(counted \cup {at})
    BY <1>1, <2>1, KeptAdd DEF LogsKept
  <2>3. Counting(new, s) \in SUBSET (counted \cup {at}) /\ counted \cup {at} \in Log
    BY <1>1 DEF Counting, Recent, Log
  <2>4. QED BY <2>1, <2>2, <2>3, KeptSubset
<1>4. \A u \in new : u <= clock
  BY <1>2 DEF Recent
<1>5. phase = "up" => Counting(Recent(disk[s].sends, clock), s) \subseteq new
  <2> SUFFICES ASSUME phase = "up", NEW u \in Counting(Recent(disk[s].sends, clock), s)
               PROVE  u \in Recent(log, at)
    OBVIOUS
  <2>1. u \in log /\ clock - u < Day
    BY DEF LogsKept, Recent, Counting
  <2>2. u \in Recent(log, clock)
    BY <2>1 DEF Recent
  <2>3. QED BY <1>1, <2>2, RecentIn
<1>6. LogsKept(newLogs)
  BY <1>3, <1>4, <1>5 DEF LogsKept, Logs
<1>7. Save(newLogs, queues)
  BY DEF Record
<1>8. QED BY <1>1, <1>6, <1>7, SaveLogs

LEMMA DonePacing ==
    ASSUME TypeOK, hb.now <= clock, UNCHANGED <<clock, phase, forgotten>>,
           phase # "down", TickDone, LogsKept(sends)', DiskKept'
    PROVE  PacingInv'
BY DEF TickDone, Looping, Idle, Awaits, PacingInv, TickPaced, NoTickWhileDown

LEMMA WaitPacing ==
    ASSUME TypeOK, hb.now <= clock, UNCHANGED <<clock, phase, forgotten, disk>>, phase # "down",
           NEW s \in Sessions, NEW logs \in Logs, NEW pc, NEW extras,
           hb' = Waiting(pc, s, extras), sends' = logs,
           LogsKept(logs), DiskKept, Paced(Counting(logs[s], s), hb.now),
           Paced(Counting(Recent(disk[s].sends, clock), s), hb.now)
    PROVE  PacingInv'
<1>1. LogsKept(sends)' /\ DiskKept'
  BY DEF LogsKept, DiskKept, Counting
<1>2. hb'.session = s /\ hb'.now = hb.now
  BY DEF Waiting, TypeOK, Heartbeats
<1>3. QED BY <1>1, <1>2 DEF PacingInv, TickPaced, NoTickWhileDown, Counting, Recent

LEMMA DecidedPacing ==
    ASSUME TypeOK, hb.now <= clock, UNCHANGED <<clock, phase, forgotten>>, phase # "down",
           NEW s \in Sessions, NEW score, NEW logs \in Logs,
           LogsKept(logs), DiskKept,
           Paced(Counting(logs[s], s), hb.now), Paced(Counting(Recent(disk[s].sends, clock), s), hb.now),
           Decided(s, score, logs)
    PROVE  PacingInv'
<1> DEFINE rescored == Rescored(Held(s), score, clock)
           promoted == score >= SendThreshold /\ rescored # {}
           stub == [at |-> hb.now, score |-> score]
           Leave(held) == /\ queue' = WithQueue(s, held)
                          /\ sends' = logs
                          /\ UNCHANGED <<disk, behind, history>>
           Outreach(extras) ==
               IF Mode = "delegate"
               THEN /\ queue' = WithQueue(s, extras)
                    /\ Delegate(s, logs, WithQueue(s, extras))
               ELSE /\ hb' = Waiting("generate", s, extras)
                    /\ Leave({})
<1>1. ASSUME NEW held, TickDone, Leave(held) PROVE PacingInv'
  <2>1. LogsKept(sends)' /\ DiskKept'
    BY <1>1 DEF LogsKept, DiskKept, Counting
  <2>2. QED BY <1>1, <2>1, DonePacing
<1>2. ASSUME NEW extras, Outreach(extras) PROVE PacingInv'
  <2>1. CASE Mode = "delegate" /\ Awaited
    <3>1. hb' = Waiting("deliver", s, {}) /\ sends' = logs /\ UNCHANGED disk
      BY <1>2, <2>1 DEF Delegate
    <3>2. QED BY <3>1, WaitPacing
  <2>2. CASE Mode = "delegate" /\ ~Awaited
    <3>1. Record(s, hb.now, logs, WithQueue(s, extras)) /\ TickDone
      BY <1>2, <2>2 DEF Delegate
    <3>2. hb.now \in Time /\ hb.now <= hb.now
      BY DEF TypeOK, Heartbeats, Time
    <3>3. LogsKept(sends)' /\ DiskKept'
      BY <3>1, <3>2, RecordLogs
    <3>4. QED BY <3>1, <3>3, DonePacing
  <2>3. CASE Mode # "delegate"
    <3>1. hb' = Waiting("generate", s, extras) /\ sends' = logs /\ UNCHANGED disk
      BY <1>2, <2>3
    <3>2. QED BY <3>1, WaitPacing
  <2>4. QED BY <2>1, <2>2, <2>3
<1>3. CASE promoted /\ \E first \in rescored : Outreach(rescored \ {first})
  BY <1>2, <1>3
<1>4. CASE TickDone /\ Leave(rescored)
  BY <1>1, <1>4
<1>5. CASE Outreach({})
  BY <1>2, <1>5
<1>6. CASE TickDone /\ \E held \in Enqueued(rescored, stub, clock) : Leave(held)
  BY <1>1, <1>6
<1>7. QED BY <1>3, <1>4, <1>5, <1>6 DEF Decided

-----------------------------------------------------------------------------
(* The pacing invariant is inductive. *)

LEMMA InitPacing == Init => PacingInv
<1> SUFFICES ASSUME Init PROVE PacingInv
  OBVIOUS
<1>1. \A s \in Sessions : /\ sends[s] = {} /\ disk[s].sends = {} /\ Kept({})
                           /\ Counting({}, s) = {}
  BY KeptEmpty DEF Init, Blank, Counting
<1>2. hb.pc = "idle" /\ hb.now = 0 /\ clock = 0 /\ phase = "down"
  BY DEF Init, Idle
<1>3. LogsKept(sends) /\ DiskKept
  BY <1>1, <1>2 DEF LogsKept, DiskKept
<1>4. QED BY <1>2, <1>3 DEF PacingInv, TickPaced, NoTickWhileDown, Awaits

\* The log a visit reads: pruned, and still more than a restore would bring.
LEMMA VisitPacing ==
    ASSUME TypeOK, PacingInv, NEW s \in Sessions, Visit(s)
    PROVE  LET logs == [sends EXCEPT ![s] = Recent(sends[s], hb.now)]
           IN  /\ logs \in Logs /\ LogsKept(logs) /\ phase = "up"
               /\ Counting(Recent(disk[s].sends, clock), s) \in SUBSET logs[s]
               /\ logs[s] \in Log /\ IsFiniteSet(logs[s])
<1> DEFINE new == Recent(sends[s], hb.now)
           logs == [sends EXCEPT ![s] = new]
<1>1. /\ sends[s] \in Log /\ new \in Log /\ logs \in Logs
      /\ hb.now \in Time /\ clock \in Time /\ hb.now <= clock
  BY DEF TypeOK, PacingInv, Heartbeats, Logs, Log, Recent
<1>2. phase = "up"
  BY DEF Visit, Stopped, PacingInv, NoTickWhileDown, TypeOK
<1>3. IsFiniteSet(sends[s]) /\ Kept(Counting(sends[s], s)) /\ \A at \in sends[s] : at <= clock
  BY <1>1, LogFinite DEF PacingInv, LogsKept
<1>4. Kept(Counting(new, s)) /\ IsFiniteSet(new)
  <2>1. new \in SUBSET sends[s] /\ Counting(new, s) \in SUBSET Counting(sends[s], s)
    BY DEF Recent, Counting
  <2>2. IsFiniteSet(Counting(sends[s], s)) /\ Counting(sends[s], s) \in Log
    BY <1>1, <1>3, CountingIn, FS_Subset
  <2>3. QED BY <1>1, <1>3, <2>1, <2>2, KeptSubset, FS_Subset
<1>5. Counting(Recent(disk[s].sends, clock), s) \in SUBSET new
  <2> SUFFICES ASSUME NEW u \in Counting(Recent(disk[s].sends, clock), s) PROVE u \in new
    OBVIOUS
  <2>1. u \in Recent(sends[s], clock)
    BY <1>2 DEF PacingInv, LogsKept, Recent, Counting
  <2>2. QED BY <1>1, <2>1, RecentIn
<1>6. LogsKept(logs)
  <2> SUFFICES ASSUME NEW r \in Sessions
               PROVE  /\ \A at \in logs[r] : at <= clock
                      /\ Kept(Counting(logs[r], r))
                      /\ Counting(Recent(disk[r].sends, clock), r) \subseteq logs[r]
    BY DEF LogsKept
  <2>1. CASE r = s
    BY <1>1, <1>3, <1>4, <1>5, <2>1 DEF Recent, Logs, TypeOK
  <2>2. CASE r # s
    BY <1>2, <2>2 DEF PacingInv, LogsKept, TypeOK
  <2>3. QED BY <2>1, <2>2
<1>7. logs[s] = new
  BY DEF TypeOK
<1>8. QED BY <1>1, <1>2, <1>4, <1>5, <1>6, <1>7

LEMMA StepPacing == TypeOK /\ PacingInv /\ [Next]_vars => PacingInv'
<1> SUFFICES ASSUME TypeOK, PacingInv, [Next]_vars PROVE PacingInv'
  OBVIOUS
<1> USE DEF memory, history
<1>0. /\ clock \in Time /\ hb.now \in Time /\ hb.now <= clock
      /\ sends \in Logs /\ LogsKept(sends) /\ DiskKept
      /\ \A s \in Sessions : sends[s] \in Log /\ disk[s].sends \in Log
  BY DEF TypeOK, PacingInv, Heartbeats, Logs
<1>fin. \A s \in Sessions : IsFiniteSet(sends[s]) /\ IsFiniteSet(disk[s].sends)
  BY <1>0, LogFinite DEF LogsKept, DiskKept
<1>wait. hb.pc \in Awaits =>
            /\ hb.session \in Sessions /\ phase # "down"
            /\ Paced(Counting(sends[hb.session], hb.session), hb.now)
            /\ Paced(Counting(Recent(disk[hb.session].sends, clock), hb.session), hb.now)
  BY DEF TypeOK, PacingInv, TickPaced, NoTickWhileDown, Awaits
<1>1. CASE StartHeartbeat
  BY <1>0, <1>1 DEF StartHeartbeat, Looping, Idle, Awaits, PacingInv, TickPaced, LogsKept,
                    DiskKept, NoTickWhileDown, Time, Counting
<1>2. ASSUME NEW s \in Sessions, VisitSilent(s) PROVE PacingInv'
  BY <1>2, FramePacing DEF VisitSilent, Visit, TickDone, Looping, Idle, Awaits,
                           PacingInv, NoTickWhileDown
<1>3. ASSUME NEW s \in Sessions, VisitVetoed(s) PROVE PacingInv'
  <2> DEFINE logs == [sends EXCEPT ![s] = Recent(sends[s], hb.now)]
  <2>1. LogsKept(logs) /\ phase = "up"
    BY <1>3, VisitPacing DEF VisitVetoed
  <2>2. LogsKept(sends)' /\ DiskKept'
    BY <1>0, <1>3, <2>1 DEF VisitVetoed, Visit, LogsKept, DiskKept, Counting
  <2>3. QED BY <1>0, <1>3, <2>1, <2>2, DonePacing DEF VisitVetoed, Visit
<1>4. ASSUME NEW s \in Sessions, VisitCleared(s) PROVE PacingInv'
  <2> DEFINE logs == [sends EXCEPT ![s] = Recent(sends[s], hb.now)]
  <2>1. /\ logs \in Logs /\ LogsKept(logs) /\ phase = "up"
        /\ Counting(Recent(disk[s].sends, clock), s) \in SUBSET logs[s]
        /\ logs[s] \in Log /\ IsFiniteSet(logs[s])
    BY <1>4, VisitPacing DEF VisitCleared
  <2>2. Paced(logs[s], hb.now)
    BY <1>4 DEF VisitCleared, Clear, TypeOK
  <2>3. /\ Paced(Counting(Recent(disk[s].sends, clock), s), hb.now)
        /\ Paced(Counting(logs[s], s), hb.now)
    BY <1>0, <2>1, <2>2, PacedSubset, CountingIn
  <2>4. CASE Assess
    <3>1. hb' = Waiting("assess", s, {}) /\ sends' = logs /\ UNCHANGED <<clock, phase, forgotten, disk>>
      BY <1>4, <2>4 DEF VisitCleared, Visit
    <3>2. QED BY <1>0, <2>1, <2>2, <2>3, <3>1, WaitPacing
  <2>5. CASE ~Assess
    <3>1. PICK score \in Scores : Decided(s, score, logs)
      BY <1>4, <2>5 DEF VisitCleared
    <3>2. UNCHANGED <<clock, phase, forgotten>>
      BY <1>4 DEF VisitCleared, Visit
    <3>3. QED BY <1>0, <2>1, <2>2, <2>3, <3>1, <3>2, DecidedPacing
  <2>6. QED BY <2>4, <2>5
<1>5. CASE Assessed
  <2>1. CASE Stopped
    BY <1>5, <2>1, FramePacing DEF Assessed, Stopped, TickDone, Looping, Idle, Awaits
  <2>2. CASE ~Stopped
    <3>1. PICK score \in Scores : Decided(hb.session, score, sends)
      BY <1>5, <2>2 DEF Assessed
    <3>2. hb.pc \in Awaits /\ UNCHANGED <<clock, phase, forgotten>>
      BY <1>5 DEF Assessed, Awaits
    <3>3. QED BY <1>0, <1>wait, <3>1, <3>2, DecidedPacing
  <2>3. QED BY <2>1, <2>2
<1>6. ASSUME NEW kind \in Results, Thought(kind) PROVE PacingInv'
  <2>1. hb.pc \in Awaits /\ phase # "down" /\ UNCHANGED <<clock, phase, forgotten, sends, disk>>
    BY <1>6 DEF Thought, Awaits
  <2>2. \/ TickDone
        \/ \E pc \in Awaits : hb' = Waiting(pc, hb.session, {})
    BY <1>6 DEF Thought, Speak, Awaits
  <2>3. hb'.now = hb.now /\ (hb'.pc \in Awaits => hb'.session = hb.session)
    BY <2>2 DEF TickDone, Looping, Idle, Waiting, Awaits, TypeOK, Heartbeats
  <2>4. QED BY <2>1, <2>3, FramePacing
<1>7. CASE DeliveryFulfilled
  <2>1. hb.pc \in Awaits /\ phase # "down" /\ UNCHANGED <<clock, phase, forgotten>>
    BY <1>7 DEF DeliveryFulfilled, Awaits
  <2>2. CASE TickDone /\ UNCHANGED <<sends, disk>>
    BY <2>1, <2>2, FramePacing DEF TickDone, Looping, Idle, Awaits
  <2>3. CASE Speak(hb.session) /\ UNCHANGED <<sends, disk>>
    <3>1. hb'.now = hb.now /\ hb'.session = hb.session
      BY <2>3 DEF Speak, Waiting, TypeOK, Heartbeats
    <3>2. QED BY <2>1, <2>3, <3>1, FramePacing
  <2>4. CASE Record(hb.session, hb.now, sends, queue) /\ TickDone
    <3>1. hb.now <= hb.now
      BY <1>0 DEF Time
    <3>2. LogsKept(sends)' /\ DiskKept'
      BY <1>0, <1>wait, <2>1, <2>4, <3>1, RecordLogs
    <3>3. QED BY <1>0, <2>1, <2>4, <3>2, DonePacing
  <2>5. QED BY <1>7, <2>2, <2>3, <2>4 DEF DeliveryFulfilled
<1>8. CASE DeliveryRejected
  BY <1>8, FramePacing DEF DeliveryRejected, TickDone, Looping, Idle, Awaits
<1>9. CASE RecordSent
  <2>1. hb.pc \in Awaits /\ phase # "down" /\ UNCHANGED <<clock, phase, forgotten>>
        /\ Record(hb.session, clock, sends, queue) /\ TickDone
    BY <1>9 DEF RecordSent, Awaits
  <2>2. clock <= clock
    BY <1>0 DEF Time
  <2>3. LogsKept(sends)' /\ DiskKept'
    BY <1>0, <1>wait, <2>1, <2>2, RecordLogs
  <2>4. QED BY <1>0, <2>1, <2>3, DonePacing
<1>10. CASE FinishHeartbeat
  <2>1. LogsKept(sends)' /\ DiskKept'
    <3>1. CASE ticks' = 0
      BY <1>0, <1>10, <3>1, SaveLogs DEF FinishHeartbeat
    <3>2. CASE ticks' # 0
      BY <1>0, <1>10, <3>2 DEF FinishHeartbeat, LogsKept, DiskKept, Counting
    <3>3. QED BY <3>1, <3>2
  <2>2. QED BY <1>0, <1>10, <2>1 DEF FinishHeartbeat, Idle, Awaits, PacingInv, TickPaced,
                                     NoTickWhileDown, Time
<1>11. CASE AbortHeartbeat
  BY <1>0, <1>11 DEF AbortHeartbeat, Idle, Awaits, PacingInv, TickPaced, NoTickWhileDown,
                     LogsKept, DiskKept, Time, Counting
<1>12. CASE Landed
  <2>1. hb'.pc = hb.pc /\ hb'.now = hb.now /\ hb'.session = hb.session
    BY <1>12 DEF Landed, TypeOK, Heartbeats
  <2>2. QED BY <1>12, <2>1, FramePacing DEF Landed, PacingInv, NoTickWhileDown
<1>13. ASSUME NEW s \in Sessions, NEW role \in {"user", "agent"}, Message(s, role)
       PROVE PacingInv'
  BY <1>13, FramePacing DEF Message
<1>14. CASE PluginInit
  <2>1. clock' = clock /\ phase' = "up" /\ disk' = disk /\ hb' = hb
    BY <1>14 DEF PluginInit
  <2>2. ASSUME NEW s \in Sessions
        PROVE  /\ sends'[s] \in SUBSET disk[s].sends
               /\ forgotten[s] \in SUBSET forgotten'[s]
               /\ Recent(disk[s].sends, clock) \ forgotten'[s] \subseteq sends'[s]
    <3>1. CASE Restore
      BY <3>1 DEF Restore, Recent
    <3>2. CASE StartFresh
      BY <3>2 DEF StartFresh, Recent
    <3>3. QED BY <1>14, <3>1, <3>2 DEF PluginInit
  <2>3. ASSUME NEW s \in Sessions
        PROVE  Kept(sends'[s] \ forgotten'[s]) /\ Kept(disk[s].sends \ forgotten'[s])
    <3> DEFINE counted == disk[s].sends \ forgotten[s]
    <3>1. Kept(counted) /\ counted \in Log /\ IsFiniteSet(counted)
      BY <1>0, <1>fin, FS_Subset DEF DiskKept, Counting, Log
    <3>2. /\ sends'[s] \ forgotten'[s] \in SUBSET counted
          /\ disk[s].sends \ forgotten'[s] \in SUBSET counted
      BY <2>2
    <3>3. QED BY <3>1, <3>2, KeptSubset
  <2>4. LogsKept(sends)' /\ DiskKept'
    BY <1>0, <2>1, <2>2, <2>3 DEF LogsKept, DiskKept, Counting
  <2>5. TickPaced'
    <3> SUFFICES ASSUME hb.pc \in Awaits
                 PROVE  /\ Paced(sends'[hb.session] \ forgotten'[hb.session], hb.now)
                        /\ Paced(Recent(disk[hb.session].sends, clock) \ forgotten'[hb.session],
                                 hb.now)
      BY <2>1 DEF TickPaced, Counting
    <3> DEFINE s == hb.session
               counted == Recent(disk[s].sends, clock) \ forgotten[s]
    <3>1. /\ s \in Sessions /\ Paced(counted, hb.now)
          /\ counted \in Log /\ IsFiniteSet(counted)
      BY <1>0, <1>fin, <1>wait, FS_Subset DEF Counting, Recent, Log
    <3>2. sends'[s] \subseteq Recent(disk[s].sends, clock)
      BY <1>14, <3>1 DEF PluginInit, Restore, StartFresh
    <3>3. /\ sends'[s] \ forgotten'[s] \in SUBSET counted
          /\ Recent(disk[s].sends, clock) \ forgotten'[s] \in SUBSET counted
      BY <2>2, <3>1, <3>2
    <3>4. QED BY <1>0, <3>1, <3>3, PacedSubset
  <2>6. QED BY <1>0, <2>1, <2>4, <2>5 DEF PacingInv, NoTickWhileDown
<1>15. CASE Teardown
  <2>1. hb'.pc = hb.pc /\ hb'.now = hb.now /\ hb'.session = hb.session
    BY <1>15 DEF Teardown, TypeOK, Heartbeats
  <2>2. UNCHANGED clock /\ phase' = "torn" /\ phase = "up"
    BY <1>15 DEF Teardown
  <2>3. ASSUME NEW s \in Sessions
        PROVE  /\ sends'[s] = {} /\ forgotten[s] \in SUBSET forgotten'[s]
               /\ disk'[s].sends \in SUBSET sends[s] \/ UNCHANGED disk
    BY <1>15 DEF Teardown, Write, Snapshot, Blank, Recent
  <2>4. LogsKept(sends)'
    BY <2>2, <2>3, KeptEmpty DEF LogsKept, Counting
  <2>5. ASSUME NEW s \in Sessions
        PROVE  (\A at \in disk'[s].sends : at <= clock) /\ Kept(disk'[s].sends \ forgotten'[s])
    <3>1. ASSUME NEW log \in Log, IsFiniteSet(log), Kept(Counting(log, s)),
                 disk'[s].sends \in SUBSET log
          PROVE  Kept(disk'[s].sends \ forgotten'[s])
      <4>1. disk'[s].sends \ forgotten'[s] \in SUBSET Counting(log, s)
        BY <2>3, <3>1 DEF Counting
      <4>2. Counting(log, s) \in Log /\ IsFiniteSet(Counting(log, s))
        BY <3>1, CountingIn, FS_Subset
      <4>3. QED BY <3>1, <4>1, <4>2, KeptSubset
    <3>2. QED BY <1>0, <1>fin, <2>3, <3>1 DEF LogsKept, DiskKept
  <2>6. DiskKept'
    BY <2>2, <2>5 DEF DiskKept, Counting
  <2>7. TickPaced'
    <3> SUFFICES ASSUME hb.pc \in Awaits
                 PROVE  /\ Paced(Counting({}, hb.session)', hb.now)
                        /\ Paced(Recent(disk'[hb.session].sends, clock) \ forgotten'[hb.session],
                                 hb.now)
      BY <1>wait, <2>1, <2>2, <2>3 DEF TickPaced, Counting
    <3> DEFINE s == hb.session
               recent == Recent(disk'[s].sends, clock) \ forgotten'[s]
    <3>1. Paced(Counting({}, s)', hb.now)
      BY KeptEmpty DEF Counting
    <3>2. /\ s \in Sessions /\ Counting(sends[s], s) \in Log
          /\ IsFiniteSet(Counting(sends[s], s))
          /\ Counting(Recent(disk[s].sends, clock), s) \in Log
          /\ IsFiniteSet(Counting(Recent(disk[s].sends, clock), s))
      BY <1>0, <1>fin, <1>wait, FS_Subset DEF Counting, Recent, Log
    <3>3. CASE disk'[s].sends \in SUBSET sends[s]
      <4>1. recent \in SUBSET Counting(sends[s], s)
        BY <2>3, <3>2, <3>3 DEF Counting, Recent
      <4>2. QED BY <1>0, <1>wait, <3>1, <3>2, <4>1, PacedSubset
    <3>4. CASE UNCHANGED disk
      <4>1. recent \in SUBSET Counting(Recent(disk[s].sends, clock), s)
        BY <2>3, <3>2, <3>4 DEF Counting
      <4>2. QED BY <1>0, <1>wait, <3>1, <3>2, <4>1, PacedSubset
    <3>5. QED BY <2>3, <3>2, <3>3, <3>4
  <2>8. QED BY <1>0, <2>1, <2>2, <2>4, <2>6, <2>7 DEF PacingInv, NoTickWhileDown
<1>16. CASE Crash
  <2>1. LogsKept(sends)'
    BY <1>16, KeptEmpty DEF Crash, LogsKept, Counting
  <2>2. DiskKept'
    BY <1>0, <1>16 DEF Crash, DiskKept, Counting
  <2>3. QED BY <1>0, <1>16, <2>1, <2>2 DEF Crash, Idle, Awaits, PacingInv, TickPaced,
                                           NoTickWhileDown, Time
<1>17. CASE ClockTick
  <2>1. clock' = clock + 1 /\ clock <= clock' /\ clock' \in Time
        /\ UNCHANGED <<phase, forgotten, sends, disk, hb>>
    BY <1>0, <1>17 DEF ClockTick, Time
  <2>2. ASSUME NEW s \in Sessions
        PROVE  /\ Counting(Recent(disk[s].sends, clock'), s)
                     \in SUBSET Counting(Recent(disk[s].sends, clock), s)
               /\ Counting(Recent(disk[s].sends, clock), s) \in Log
               /\ IsFiniteSet(Counting(Recent(disk[s].sends, clock), s))
    <3>1. Counting(Recent(disk[s].sends, clock), s) \in SUBSET disk[s].sends
      BY DEF Recent, Counting
    <3>2. Recent(disk[s].sends, clock') \in SUBSET Recent(disk[s].sends, clock)
      BY <1>0, <2>1, RecentIn
    <3>3. QED BY <1>0, <1>fin, <3>1, <3>2, FS_Subset DEF Log, Counting
  <2>3. \A s \in Sessions :
            /\ \A at \in sends[s] : at <= clock'
            /\ \A at \in disk[s].sends : at <= clock'
    BY <1>0, <2>1 DEF LogsKept, DiskKept, Log, Time
  <2>4. LogsKept(sends)' /\ DiskKept'
    BY <1>0, <2>1, <2>2, <2>3 DEF LogsKept, DiskKept, Counting
  <2>5. TickPaced'
    <3> SUFFICES ASSUME hb.pc \in Awaits
                 PROVE  /\ Paced(Counting(sends[hb.session], hb.session), hb.now)
                        /\ Paced(Counting(Recent(disk[hb.session].sends, clock'), hb.session),
                                 hb.now)
      BY <2>1 DEF TickPaced, Counting
    <3>1. QED BY <1>0, <1>wait, <2>2, PacedSubset
  <2>6. hb'.now <= clock'
    BY <1>0, <2>1 DEF Time
  <2>7. QED BY <2>1, <2>4, <2>5, <2>6 DEF PacingInv, NoTickWhileDown
<1>18. CASE UNCHANGED vars
  BY <1>18 DEF vars, PacingInv, LogsKept, DiskKept, TickPaced, NoTickWhileDown, Counting
<1>19. QED
  BY <1>1, <1>2, <1>3, <1>4, <1>5, <1>6, <1>7, <1>8, <1>9, <1>10, <1>11, <1>12,
     <1>13, <1>14, <1>15, <1>16, <1>17, <1>18 DEF Next, HeartbeatStep

LEMMA Pacing == Spec => []PacingInv
BY TypeCorrect, InitPacing, StepPacing, PTL DEF Spec

\* For every configuration, a cooldown longer than a day included, and whatever is
\* suspended, torn down, restored, unsaved, unread or lost in between: two sends that
\* count, those of the last day, are never closer than the cooldown.
THEOREM CooldownAlwaysKept == Spec => []CooldownKept
<1>1. PacingInv => CooldownKept
  BY DEF PacingInv, LogsKept, Kept, CooldownKept
<1>2. QED BY <1>1, Pacing, PTL

\* No hour ever holds more than maxPerHour counted sends to one session, and no
\* day more than maxPerDay.
THEOREM CapsAlwaysKept == Spec => []CapsKept
<1>1. PacingInv => CapsKept
  BY DEF PacingInv, LogsKept, Kept, CapsKept
<1>2. QED BY <1>1, Pacing, PTL

\* No process dies; and the plugin is torn down in delegate mode only, with
\* persistence.
OneProcess == "crash" \notin Events /\ ("teardown" \in Events => Persist /\ Mode = "delegate")

\* What counts is in the log of a plugin that is up, in the snapshot of one that
\* is torn down, or was lost with a failed write or read.  Sessions stay, so a
\* snapshot leaves out none that has a slot; and in delegate mode no slot is recorded
\* by a tick whose plugin is gone.  In self mode the plugin is initialised once.
Counted ==
    /\ phase = "up" => \A s \in Sessions :
            Recent(granted[s], clock) \subseteq sends[s] \cup forgotten[s]
    /\ phase = "torn" => \A s \in Sessions :
            Recent(granted[s], clock) \subseteq disk[s].sends \cup forgotten[s]
    /\ phase = "down" => \A s \in Sessions : granted[s] = {} /\ disk[s].sends = {}
Reachable ==
    /\ \A s \in Sessions : granted[s] # {} => s \in live
    /\ hb.pc \in Awaits => hb.session \in live
Delegating ==
    /\ phase = "torn" => "teardown" \in Events
    /\ Mode = "delegate" => hb.pc \notin {"generate", "sent"}
    /\ Mode = "self" => \A s \in Sessions : forgotten[s] = {}

SlotsInv == Counted /\ Reachable /\ Delegating

LEMMA InitSlots == Init => SlotsInv
BY DEF Init, SlotsInv, Counted, Reachable, Delegating, Idle, Awaits, Blank

-----------------------------------------------------------------------------
(* Steps that keep the slots, save, or record one. *)

\* What a heartbeat does to its own place.
Moves ==
    \/ TickDone
    \/ hb'.pc \in Awaits /\ hb'.session \in live /\ (Mode = "delegate" => hb'.pc \notin {"generate", "sent"})

LEMMA MovesSlots ==
    ASSUME Moves, UNCHANGED <<phase, forgotten, live>>, Delegating,
           \A s \in Sessions : granted'[s] # {} => s \in live
    PROVE  Reachable' /\ Delegating'
BY DEF Moves, Reachable, Delegating, TickDone, Looping, Idle, Awaits

\* A step that leaves the slots, and of the log no less than what counts.
LEMMA FrameSlots ==
    ASSUME TypeOK, SlotsInv, Moves, UNCHANGED <<clock, phase, forgotten, live, disk, granted>>,
           phase = "up" => \A s \in Sessions :
               Recent(granted[s], clock) \subseteq sends'[s] \cup forgotten[s]
    PROVE  SlotsInv'
<1>1. Reachable' /\ Delegating'
  BY MovesSlots DEF SlotsInv, Reachable
<1>2. QED BY <1>1 DEF SlotsInv, Counted

LEMMA SaveSlots ==
    ASSUME TypeOK, UNCHANGED clock, NEW logs \in Logs, NEW queues, Save(logs, queues),
           NEW s \in Sessions, NEW log, NEW lost, Recent(log, clock) \subseteq logs[s] \cup lost
    PROVE  Recent(log, clock) \subseteq sends'[s] \cup lost
BY DEF Save, Recent, Logs

LEMMA RecordSlots ==
    ASSUME TypeOK, SlotsInv, phase = "up", UNCHANGED <<clock, phase, forgotten, live>>, Moves,
           NEW s \in Sessions, s \in live, NEW at \in Time, at <= clock,
           NEW logs \in Logs, NEW queues, Record(s, at, logs, queues),
           \A r \in Sessions : Recent(granted[r], clock) \subseteq logs[r] \cup forgotten[r]
    PROVE  SlotsInv'
<1> DEFINE newLogs == [logs EXCEPT ![s] = Recent(@, at) \cup {at}]
<1>1. newLogs \in Logs /\ Save(newLogs, queues) /\ clock \in Time
  BY DEF Record, Logs, Log, Recent, TypeOK
<1>2. \A r \in Sessions : granted'[r] = granted[r] \cup (IF r = s THEN {at} ELSE {})
  BY DEF Record, TypeOK
<1>3. ASSUME NEW r \in Sessions PROVE Recent(granted'[r], clock) \subseteq newLogs[r] \cup forgotten[r]
  <2>1. CASE r # s
    BY <1>2, <2>1 DEF Logs
  <2>2. CASE r = s
    <3>1. Recent(granted[s], clock) \in SUBSET (Recent(logs[s], clock) \cup forgotten[s])
      BY DEF Recent
    <3>2. Recent(logs[s], clock) \in SUBSET Recent(logs[s], at)
      BY <1>1, RecentIn DEF Logs
    <3>3. QED BY <1>2, <2>2, <3>1, <3>2 DEF Recent, Logs
  <2>3. QED BY <2>1, <2>2
<1>4. \A r \in Sessions : Recent(granted'[r], clock) \subseteq sends'[r] \cup forgotten[r]
  BY <1>1, <1>3, SaveSlots
<1>5. Reachable' /\ Delegating'
  BY <1>2, MovesSlots DEF SlotsInv, Reachable
<1>6. QED BY <1>4, <1>5 DEF SlotsInv, Counted

\* The log a visit reads still holds what counts.
LEMMA VisitSlots ==
    ASSUME TypeOK, PacingInv, SlotsInv, NEW s \in Sessions, Visit(s)
    PROVE  LET logs == [sends EXCEPT ![s] = Recent(sends[s], hb.now)]
           IN  /\ logs \in Logs /\ phase = "up" /\ s \in live /\ hb.now \in Time
               /\ \A r \in Sessions : Recent(granted[r], clock) \subseteq logs[r] \cup forgotten[r]
<1> DEFINE logs == [sends EXCEPT ![s] = Recent(sends[s], hb.now)]
<1>1. /\ sends[s] \in Log /\ hb.now \in Time /\ clock \in Time /\ hb.now <= clock
      /\ logs \in Logs /\ s \in live
  BY DEF TypeOK, PacingInv, Heartbeats, Visit, Logs, Log, Recent
<1>2. phase = "up"
  BY DEF Visit, Stopped, PacingInv, NoTickWhileDown, TypeOK
<1>3. ASSUME NEW r \in Sessions PROVE Recent(granted[r], clock) \subseteq logs[r] \cup forgotten[r]
  <2>1. Recent(granted[r], clock) \in SUBSET (Recent(sends[r], clock) \cup forgotten[r])
    BY <1>2 DEF SlotsInv, Counted, Recent
  <2>2. CASE r = s
    <3>1. Recent(sends[s], clock) \in SUBSET Recent(sends[s], hb.now)
      BY <1>1, RecentIn
    <3>2. QED BY <2>1, <2>2, <3>1 DEF TypeOK
  <2>3. CASE r # s
    BY <2>1, <2>3 DEF Recent, TypeOK
  <2>4. QED BY <2>2, <2>3
<1>4. QED BY <1>1, <1>2, <1>3

\* A decision records at once, or moves on and leaves the slots.
LEMMA DecidedSlots ==
    ASSUME TypeOK, PacingInv, SlotsInv, phase = "up", UNCHANGED <<clock, phase, forgotten, live>>,
           NEW s \in Sessions, s \in live, NEW score, NEW logs \in Logs,
           \A r \in Sessions : Recent(granted[r], clock) \subseteq logs[r] \cup forgotten[r],
           Decided(s, score, logs)
    PROVE  SlotsInv' /\ (Mode = "self" => UNCHANGED granted)
<1> DEFINE rescored == Rescored(Held(s), score, clock)
           promoted == score >= SendThreshold /\ rescored # {}
           stub == [at |-> hb.now, score |-> score]
           Leave(held) == /\ queue' = WithQueue(s, held)
                          /\ sends' = logs
                          /\ UNCHANGED <<disk, behind, history>>
           Outreach(extras) ==
               IF Mode = "delegate"
               THEN /\ queue' = WithQueue(s, extras)
                    /\ Delegate(s, logs, WithQueue(s, extras))
               ELSE /\ hb' = Waiting("generate", s, extras)
                    /\ Leave({})
<1>1. ASSUME NEW held, TickDone, Leave(held) PROVE SlotsInv' /\ UNCHANGED granted
  BY <1>1, FrameSlots DEF Moves, history
<1>2. ASSUME NEW extras, Outreach(extras) PROVE SlotsInv' /\ (Mode = "self" => UNCHANGED granted)
  <2>1. CASE Mode = "delegate" /\ Awaited
    <3>1. hb' = Waiting("deliver", s, {}) /\ sends' = logs /\ UNCHANGED <<disk, granted>>
      BY <1>2, <2>1 DEF Delegate, history
    <3>2. Moves
      BY <3>1 DEF Moves, Waiting, Awaits, TypeOK, Heartbeats
    <3>3. QED BY <2>1, <3>1, <3>2, FrameSlots
  <2>2. CASE Mode = "delegate" /\ ~Awaited
    <3>1. Record(s, hb.now, logs, WithQueue(s, extras)) /\ Moves
      BY <1>2, <2>2 DEF Delegate, Moves
    <3>2. hb.now \in Time /\ hb.now <= clock
      BY DEF TypeOK, Heartbeats, PacingInv
    <3>3. QED BY <2>2, <3>1, <3>2, RecordSlots
  <2>3. CASE Mode # "delegate"
    <3>1. hb' = Waiting("generate", s, extras) /\ sends' = logs /\ UNCHANGED <<disk, granted>>
      BY <1>2, <2>3 DEF history
    <3>2. Moves
      BY <2>3, <3>1 DEF Moves, Waiting, Awaits, TypeOK, Heartbeats
    <3>3. QED BY <3>1, <3>2, FrameSlots
  <2>4. QED BY <2>1, <2>2, <2>3
<1>3. CASE promoted /\ \E first \in rescored : Outreach(rescored \ {first})
  BY <1>2, <1>3
<1>4. CASE TickDone /\ Leave(rescored)
  BY <1>1, <1>4
<1>5. CASE Outreach({})
  BY <1>2, <1>5
<1>6. CASE TickDone /\ \E held \in Enqueued(rescored, stub, clock) : Leave(held)
  BY <1>1, <1>6
<1>7. QED BY <1>3, <1>4, <1>5, <1>6 DEF Decided

-----------------------------------------------------------------------------
(* The invariant. *)

LEMMA StepSlots ==
    ASSUME OneProcess, TypeOK, PacingInv, SlotsInv, [Next]_vars
    PROVE  SlotsInv'
<1> USE DEF memory, history
<1>0. /\ clock \in Time /\ hb.now \in Time /\ hb.now <= clock
      /\ sends \in Logs /\ Counted /\ Reachable /\ Delegating
      /\ \A s \in Sessions : sends[s] \in Log /\ disk[s].sends \in Log /\ granted[s] \in Log
  BY DEF TypeOK, PacingInv, SlotsInv, Heartbeats, Logs
<1>1. CASE StartHeartbeat
  BY <1>0, <1>1 DEF StartHeartbeat, Looping, Idle, Awaits, SlotsInv, Counted, Reachable, Delegating
<1>2. ASSUME NEW s \in Sessions, VisitSilent(s) PROVE SlotsInv'
  BY <1>0, <1>2, FrameSlots DEF VisitSilent, Visit, Moves, Counted
<1>3. ASSUME NEW s \in Sessions, VisitVetoed(s) PROVE SlotsInv'
  BY <1>3, VisitSlots, FrameSlots DEF VisitVetoed, Visit, Moves
<1>4. ASSUME NEW s \in Sessions, VisitCleared(s) PROVE SlotsInv'
  <2> DEFINE logs == [sends EXCEPT ![s] = Recent(sends[s], hb.now)]
  <2>1. /\ logs \in Logs /\ phase = "up" /\ s \in live
        /\ \A r \in Sessions : Recent(granted[r], clock) \subseteq logs[r] \cup forgotten[r]
        /\ UNCHANGED <<clock, phase, forgotten, live>>
    BY <1>4, VisitSlots DEF VisitCleared, Visit
  <2>2. CASE Assess
    <3>1. hb' = Waiting("assess", s, {}) /\ sends' = logs /\ UNCHANGED <<disk, granted>>
      BY <1>4, <2>2 DEF VisitCleared
    <3>2. Moves
      BY <2>1, <3>1 DEF Moves, Waiting, Awaits, TypeOK, Heartbeats
    <3>3. QED BY <2>1, <3>1, <3>2, FrameSlots
  <2>3. CASE ~Assess
    <3>1. PICK score \in Scores : Decided(s, score, logs)
      BY <1>4, <2>3 DEF VisitCleared
    <3>2. QED BY <2>1, <3>1, DecidedSlots
  <2>4. QED BY <2>2, <2>3
<1>5. CASE Assessed
  <2>1. CASE Stopped
    BY <1>0, <1>5, <2>1, FrameSlots DEF Assessed, Moves, Counted
  <2>2. CASE ~Stopped
    <3>1. PICK score \in Scores : Decided(hb.session, score, sends)
      BY <1>5, <2>2 DEF Assessed
    <3>2. /\ hb.pc \in Awaits /\ hb.session \in Sessions /\ hb.session \in live
          /\ phase = "up" /\ UNCHANGED <<clock, phase, forgotten, live>>
      BY <1>0, <1>5, <2>2 DEF Assessed, Awaits, Stopped, TypeOK, Reachable
    <3>3. QED BY <1>0, <3>1, <3>2, DecidedSlots DEF Counted
  <2>3. QED BY <2>1, <2>2
<1>6. ASSUME NEW kind \in Results, Thought(kind) PROVE SlotsInv'
  <2>1. hb.pc = "generate" /\ hb.session \in live /\ Mode # "delegate"
        /\ UNCHANGED <<clock, phase, forgotten, live, sends, disk, granted>>
    BY <1>0, <1>6 DEF Thought, Reachable, Delegating, Awaits
  <2>2. \/ TickDone
        \/ \E pc \in Awaits : hb' = Waiting(pc, hb.session, {})
    BY <1>6 DEF Thought, Speak, Awaits
  <2>3. Moves
    BY <2>1, <2>2 DEF Moves, Waiting, Awaits, TypeOK, Heartbeats
  <2>4. QED BY <1>0, <2>1, <2>3, FrameSlots DEF Counted
<1>7. CASE DeliveryFulfilled
  <2>1. /\ hb.pc \in Awaits /\ hb.session \in live /\ hb.session \in Sessions
        /\ UNCHANGED <<clock, phase, forgotten, live>>
    BY <1>0, <1>7 DEF DeliveryFulfilled, Reachable, Awaits, TypeOK
  <2>2. CASE TickDone /\ UNCHANGED <<sends, disk, behind, granted>>
    BY <1>0, <2>1, <2>2, FrameSlots DEF Moves, Counted
  <2>3. CASE Mode = "self" /\ Speak(hb.session) /\ UNCHANGED <<sends, disk, behind, granted>>
    <3>1. Moves
      BY <2>1, <2>3 DEF Speak, Moves, Waiting, Awaits, TypeOK, Heartbeats
    <3>2. QED BY <1>0, <2>1, <2>3, <3>1, FrameSlots DEF Counted
  <2>4. CASE ~Stopped /\ Record(hb.session, hb.now, sends, queue) /\ TickDone
    <3>1. phase = "up" /\ Moves
      BY <1>7, <2>4 DEF DeliveryFulfilled, Stopped, TypeOK, Moves
    <3>2. QED BY <1>0, <2>1, <2>4, <3>1, RecordSlots DEF Counted
  <2>5. QED BY <1>7, <2>2, <2>3, <2>4 DEF DeliveryFulfilled
<1>8. CASE DeliveryRejected
  BY <1>0, <1>8, FrameSlots DEF DeliveryRejected, Moves, Counted
<1>9. CASE RecordSent
  <2>1. /\ hb.pc \in Awaits /\ hb.session \in live /\ hb.session \in Sessions
        /\ UNCHANGED <<clock, phase, forgotten, live>> /\ clock <= clock
        /\ Record(hb.session, clock, sends, queue) /\ Moves
    BY <1>0, <1>9 DEF RecordSent, Reachable, Awaits, TypeOK, Moves, Time
  <2>2. phase = "up"
    BY <1>0, <1>9 DEF RecordSent, Delegating, OneProcess, TypeOK
  <2>3. QED BY <1>0, <2>1, <2>2, RecordSlots DEF Counted
<1>10. CASE FinishHeartbeat
  <2>1. phase = "up" => \A s \in Sessions :
            Recent(granted[s], clock) \subseteq sends'[s] \cup forgotten[s]
    BY <1>0, <1>10, SaveSlots DEF FinishHeartbeat, Counted
  <2>2. phase = "torn" => UNCHANGED disk
    BY <1>10 DEF FinishHeartbeat, Save, Stopped
  <2>3. hb' = Idle /\ UNCHANGED <<clock, phase, forgotten, live, granted>>
    BY <1>10 DEF FinishHeartbeat
  <2>4. phase # "down"
    BY <1>10 DEF FinishHeartbeat, PacingInv, NoTickWhileDown
  <2>5. Counted'
    BY <1>0, <2>1, <2>2, <2>3, <2>4 DEF Counted
  <2>6. Reachable' /\ Delegating'
    BY <1>0, <2>3 DEF Reachable, Delegating, Idle, Awaits
  <2>7. QED BY <2>5, <2>6 DEF SlotsInv
<1>11. CASE AbortHeartbeat
  BY <1>0, <1>11 DEF AbortHeartbeat, Idle, Awaits, SlotsInv, Counted, Reachable, Delegating
<1>12. CASE Landed
  <2>1. hb'.pc = hb.pc /\ hb'.session = hb.session
    BY <1>12 DEF Landed, TypeOK, Heartbeats
  <2>2. QED BY <1>0, <1>12, <2>1 DEF Landed, SlotsInv, Counted, Reachable, Delegating
<1>13. ASSUME NEW s \in Sessions, NEW role \in {"user", "agent"}, Message(s, role)
       PROVE SlotsInv'
  BY <1>0, <1>13 DEF Message, GetOrCreate, SlotsInv, Counted, Reachable, Delegating
<1>14. CASE PluginInit
  <2>1. /\ phase \in {"down", "torn"} /\ phase' = "up"
        /\ UNCHANGED <<clock, live, hb, granted>>
    BY <1>14 DEF PluginInit, TypeOK
  <2>2. ASSUME NEW s \in Sessions
        PROVE  Recent(granted[s], clock) \subseteq sends'[s] \cup forgotten'[s]
    <3>1. Recent(granted[s], clock) \subseteq Recent(disk[s].sends, clock) \cup forgotten[s]
      BY <1>0, <2>1 DEF Counted, Recent
    <3>2. Recent(disk[s].sends, clock) \cup forgotten[s] \subseteq sends'[s] \cup forgotten'[s]
      BY <1>14 DEF PluginInit, Restore, StartFresh, Recent
    <3>3. QED BY <3>1, <3>2
  <2>3. Mode = "self" => \A s \in Sessions : forgotten'[s] = {}
    <3>1. Mode = "self" => phase = "down"
      BY <1>0, <2>1 DEF Delegating, OneProcess
    <3>2. QED BY <1>0, <1>14, <3>1 DEF PluginInit, Restore, StartFresh, Counted, Delegating
  <2>4. QED BY <1>0, <2>1, <2>2, <2>3 DEF SlotsInv, Counted, Reachable, Delegating
<1>15. CASE Teardown
  <2>1. /\ Persist /\ Mode = "delegate" /\ "teardown" \in Events /\ phase = "up" /\ phase' = "torn"
        /\ UNCHANGED <<clock, live, granted>>
        /\ hb'.pc = hb.pc /\ hb'.session = hb.session
    BY <1>15 DEF Teardown, OneProcess, TypeOK, Heartbeats
  <2>2. ASSUME NEW s \in Sessions
        PROVE  Recent(granted[s], clock) \subseteq disk'[s].sends \cup forgotten'[s]
    <3>1. /\ Recent(granted[s], clock) \subseteq Recent(sends[s], clock) \cup forgotten[s]
          /\ Recent(granted[s], clock) # {} => s \in live
      BY <1>0, <2>1 DEF Counted, Reachable, Recent
    <3>2. CASE UNCHANGED disk /\ behind'
      BY <1>15, <3>1, <3>2 DEF Teardown, Recent
    <3>3. CASE disk' = Snapshot(sends, queue)
      <4>1. s \in live => disk'[s].sends = Recent(sends[s], clock)
        BY <3>3 DEF Snapshot
      <4>2. forgotten[s] \subseteq forgotten'[s]
        BY <1>15 DEF Teardown
      <4>3. QED BY <3>1, <4>1, <4>2
    <3>4. QED BY <1>15, <2>1, <3>2, <3>3 DEF Teardown, Write
  <2>3. QED BY <1>0, <2>1, <2>2 DEF SlotsInv, Counted, Reachable, Delegating
<1>16. ~Crash
  BY DEF Crash, OneProcess
<1>17. CASE ClockTick
  <2>1. clock' \in Time /\ clock <= clock'
        /\ UNCHANGED <<phase, forgotten, live, sends, disk, hb, granted>>
    BY <1>0, <1>17 DEF ClockTick, Time
  <2>2. \A s \in Sessions : Recent(granted[s], clock') \in SUBSET Recent(granted[s], clock)
    BY <1>0, <2>1, RecentIn
  <2>3. QED BY <1>0, <2>1, <2>2 DEF SlotsInv, Counted, Reachable, Delegating
<1>18. CASE UNCHANGED vars
  BY <1>0, <1>18 DEF vars, SlotsInv, Counted, Reachable, Delegating
<1>19. QED
  BY <1>1, <1>2, <1>3, <1>4, <1>5, <1>6, <1>7, <1>8, <1>9, <1>10, <1>11, <1>12,
     <1>13, <1>14, <1>15, <1>16, <1>17, <1>18 DEF Next, HeartbeatStep

LEMMA SlotsAlways == OneProcess => (Spec => []SlotsInv)
<1> SUFFICES ASSUME OneProcess PROVE Spec => []SlotsInv
  OBVIOUS
<1>1. TypeOK /\ PacingInv /\ SlotsInv /\ [Next]_vars => SlotsInv'
  BY StepSlots
<1>2. QED BY <1>1, TypeCorrect, Pacing, InitSlots, PTL DEF Spec

\* In a process that is not killed, and through the re-initialisations of a
\* persistent plugin in delegate mode, a plugin that is up counts every slot of the
\* last day, but for those that an unreadable snapshot or a failed last write lost:
\* a write that fails while the plugin runs loses none.
THEOREM SlotsAlwaysSurvive == OneProcess => (Spec => []SlotsSurvive)
<1> SUFFICES ASSUME OneProcess PROVE Spec => []SlotsSurvive
  OBVIOUS
<1>1. SlotsInv => SlotsSurvive
  BY DEF SlotsInv, Counted, SlotsSurvive
<1>2. QED BY <1>1, SlotsAlways, PTL

-----------------------------------------------------------------------------
(* The refinement. *)

\* The guardrails that held of the log when the tick began hold of all the slots
\* there ever were when the slot is recorded.
LEMMA PacedEver ==
    ASSUME Mode = "self", TypeOK, PacingInv, SlotsInv, phase = "up", NEW s \in Sessions,
           Paced(Counting(sends[s], s), hb.now)
    PROVE  /\ \A at \in granted[s] : clock - at < Day => clock - at >= Cooldown
           /\ Cardinality(Slots!Within(s, Hour)) < MaxPerHour
           /\ Cardinality(Slots!Within(s, Day)) < MaxPerDay
<1>0. forgotten[s] = {} /\ Paced(sends[s], hb.now)
  BY DEF SlotsInv, Delegating, Counting
<1>1. /\ granted[s] \in Log /\ sends[s] \in Log /\ IsFiniteSet(sends[s])
      /\ clock \in Nat /\ hb.now \in Nat /\ hb.now <= clock
  BY LogFinite DEF TypeOK, PacingInv, LogsKept, Heartbeats, Time
<1>2. \A at \in granted[s] : at \in Nat /\ (clock - at < Day => at \in sends[s])
  BY <1>0, <1>1 DEF SlotsInv, Counted, Recent, Log, Time
<1>3. ASSUME NEW at \in granted[s], clock - at < Day PROVE clock - at >= Cooldown
  BY <1>0, <1>1, <1>2, <1>3, ConfigAssumption DEF Paced
<1>4. ASSUME NEW span \in Nat, span <= Day, NEW max \in Nat,
             Cardinality(Within(sends[s], hb.now, span)) < max
      PROVE  Cardinality(Slots!Within(s, span)) < max
  <2>1. ASSUME NEW at \in Slots!Within(s, span) PROVE at \in Within(sends[s], hb.now, span)
    <3>1. at \in granted[s] /\ clock - at < span /\ at \in Nat
      BY <1>2 DEF Slots!Within
    <3>2. clock - at < Day /\ hb.now - at < span
      BY <1>1, <1>4, <3>1, ConfigAssumption
    <3>3. QED BY <1>2, <3>1, <3>2 DEF Within
  <2>2. IsFiniteSet(Within(sends[s], hb.now, span))
    BY <1>1, FS_Subset DEF Within
  <2>3. /\ Cardinality(Slots!Within(s, span)) \in Nat
        /\ Cardinality(Within(sends[s], hb.now, span)) \in Nat
        /\ Cardinality(Slots!Within(s, span)) <= Cardinality(Within(sends[s], hb.now, span))
    BY <2>1, <2>2, CardLe
  <2>4. QED BY <1>4, <2>3
<1>5. QED BY <1>0, <1>3, <1>4, ConfigAssumption DEF Paced

LEMMA SameCardinality == \A S : Slots!Cardinality(S) = Cardinality(S)
BY DEF Cardinality, Slots!Cardinality

\* In self mode only the continuation of a send records, and does so as promised.
LEMMA StepReaches ==
    ASSUME OneProcess, Mode = "self", TypeOK, PacingInv, SlotsInv, [Next]_vars
    PROVE  [Slots!Next]_(Slots!vars)
<1> USE DEF memory, history, Slots!vars
<1>1. CASE RecordSent
  <2>1. /\ hb.session \in Sessions /\ phase = "up"
        /\ Paced(Counting(sends[hb.session], hb.session), hb.now)
    BY <1>1 DEF RecordSent, Awaits, TypeOK, PacingInv, TickPaced, SlotsInv, Delegating, OneProcess
  <2>2. granted' = [granted EXCEPT ![hb.session] = @ \cup {clock}] /\ clock' = clock
    BY <1>1 DEF RecordSent, Record
  <2>3. Slots!Reach(hb.session)
    BY <2>1, <2>2, PacedEver, SameCardinality DEF Slots!Reach, Slots!Within
  <2>4. QED BY <2>1, <2>3 DEF Slots!Next
<1>2. CASE ClockTick
  BY <1>2 DEF ClockTick, Slots!Next, Slots!Pass
<1>3. ASSUME NEW s \in Sessions, VisitCleared(s) PROVE UNCHANGED <<clock, granted>>
  <2> DEFINE logs == [sends EXCEPT ![s] = Recent(sends[s], hb.now)]
  <2>1. UNCHANGED clock
    BY <1>3 DEF VisitCleared, Visit
  <2>2. CASE Assess
    BY <1>3, <2>1, <2>2 DEF VisitCleared
  <2>3. CASE ~Assess
    <3>1. PICK score \in Scores : Decided(s, score, logs)
      BY <1>3, <2>3 DEF VisitCleared
    <3>2. QED BY <1>3, <2>1, <3>1, VisitSlots, DecidedSlots DEF VisitCleared, Visit
  <2>4. QED BY <2>2, <2>3
<1>4. CASE Assessed
  <2>1. CASE Stopped
    BY <1>4, <2>1 DEF Assessed
  <2>2. CASE ~Stopped
    <3>1. PICK score \in Scores : Decided(hb.session, score, sends)
      BY <1>4, <2>2 DEF Assessed
    <3>2. /\ hb.session \in Sessions /\ hb.session \in live /\ phase = "up" /\ sends \in Logs
          /\ UNCHANGED <<clock, phase, forgotten, live>>
      BY <1>4, <2>2 DEF Assessed, Awaits, Stopped, TypeOK, SlotsInv, Reachable, Logs
    <3>3. QED BY <3>1, <3>2, DecidedSlots DEF SlotsInv, Counted
  <2>3. QED BY <2>1, <2>2
<1>5. CASE DeliveryFulfilled
  BY <1>5 DEF DeliveryFulfilled
<1>6. CASE \/ StartHeartbeat \/ DeliveryRejected \/ FinishHeartbeat \/ AbortHeartbeat
           \/ Landed \/ PluginInit \/ Teardown \/ Crash \/ UNCHANGED vars
           \/ \E s \in Sessions : VisitSilent(s) \/ VisitVetoed(s)
           \/ \E kind \in Results : Thought(kind)
           \/ \E s \in Sessions, role \in {"user", "agent"} : Message(s, role)
  BY <1>6 DEF StartHeartbeat, DeliveryRejected, FinishHeartbeat, AbortHeartbeat, Landed, PluginInit,
              Teardown, Crash, vars, VisitSilent, VisitVetoed, Visit, Thought, Message
<1>7. QED BY <1>1, <1>2, <1>3, <1>4, <1>5, <1>6 DEF Next, HeartbeatStep

\* In self mode, in one lifecycle, whatever the transport reports: the slots are
\* those of module Outreach, for any sessions, windows, caps and cooldown.
THEOREM SlotsRefine == OneProcess /\ Mode = "self" => (Spec => SlotsPaced)
<1> SUFFICES ASSUME OneProcess, Mode = "self" PROVE Spec => SlotsPaced
  OBVIOUS
<1>1. Init => Slots!Init
  BY DEF Init, Slots!Init
<1>2. TypeOK /\ PacingInv /\ SlotsInv /\ [Next]_vars => [Slots!Next]_(Slots!vars)
  BY StepReaches
<1>3. QED BY <1>1, <1>2, TypeCorrect, Pacing, SlotsAlways, PTL DEF Spec, SlotsPaced, Slots!Spec

-----------------------------------------------------------------------------
(* What the users receive, in self mode and one lifecycle. *)

\* No delivery that is reported as failed has landed; false answers may happen, and
\* failures of the storage.
OneLife == Mode = "self" /\ Events \subseteq {"false_ok", "unsaved", "unread"}

LEMMA OneLifeIsOne == OneLife => OneProcess /\ Mode = "self"
BY DEF OneLife, OneProcess

Arrived(s, t) == {d \in delivered[s] : d.at >= t}
GrantedSince(s, t) == {at \in granted[s] : at >= t}

\* The outreach of the tick in flight has landed, or has been sent: its slot is due.
Due(s) == hb.session = s /\ (hb.pc = "sent" \/ (hb.pc = "deliver" /\ hb.landed))
Owed(s) == IF Due(s) THEN 1 ELSE 0

\* Since any time, no session has received more than it was granted slots, but for
\* the one that is due.
Dated ==
    \A s \in Sessions : /\ IsFiniteSet(delivered[s]) /\ IsFiniteSet(granted[s])
                        /\ \A d \in delivered[s] : d.at <= clock
                        /\ \A at \in granted[s] : at <= clock
Balanced ==
    \A s \in Sessions, t \in Nat :
        Cardinality(Arrived(s, t)) <= Cardinality(GrantedSince(s, t)) + Owed(s)
Ledger == Dated /\ Balanced

LEMMA SinceFinite ==
    ASSUME Dated, NEW s \in Sessions, NEW t
    PROVE  /\ IsFiniteSet(Arrived(s, t)) /\ IsFiniteSet(GrantedSince(s, t))
           /\ Cardinality(Arrived(s, t)) \in Nat /\ Cardinality(GrantedSince(s, t)) \in Nat
<1>1. IsFiniteSet(Arrived(s, t)) /\ IsFiniteSet(GrantedSince(s, t))
  BY FS_Subset DEF Dated, Arrived, GrantedSince
<1>2. QED BY <1>1, FS_CardinalityType

\* A step that delivers nothing and records nothing, and settles no debt.
LEMMA FrameLedger ==
    ASSUME TypeOK, Ledger, UNCHANGED <<granted, delivered>>,
           clock' \in Nat, clock <= clock', \A s \in Sessions : Due(s) => Due(s)'
    PROVE  Ledger'
<1>1. Dated'
  BY DEF TypeOK, Time, Log, Ledger, Dated
<1>2. ASSUME NEW s \in Sessions, NEW t \in Nat
      PROVE  Cardinality(Arrived(s, t)') <= Cardinality(GrantedSince(s, t)') + Owed(s)'
  <2>1. Arrived(s, t)' = Arrived(s, t) /\ GrantedSince(s, t)' = GrantedSince(s, t)
    BY DEF Arrived, GrantedSince
  <2>2. Cardinality(Arrived(s, t)) \in Nat /\ Cardinality(GrantedSince(s, t)) \in Nat
    BY SinceFinite DEF Ledger
  <2>3. Owed(s) <= Owed(s)' /\ Owed(s) \in Nat /\ Owed(s)' \in Nat
    BY DEF Owed
  <2>4. Cardinality(Arrived(s, t)) <= Cardinality(GrantedSince(s, t)) + Owed(s)
    BY DEF Ledger, Balanced
  <2>5. QED BY <2>1, <2>2, <2>3, <2>4
<1>3. QED BY <1>1, <1>2 DEF Ledger, Balanced

\* A delivery makes a slot due.
LEMMA DeliverLedger ==
    ASSUME TypeOK, Ledger, UNCHANGED <<clock, granted>>,
           NEW s \in Sessions, Deliver(s), ~Due(s), Due(s)',
           \A r \in Sessions \ {s} : ~Due(r)
    PROVE  Ledger'
<1> DEFINE d == [tick |-> hb.now, at |-> clock]
<1>1. \A r \in Sessions : delivered'[r] = IF r = s THEN delivered[r] \cup {d} ELSE delivered[r]
  BY DEF Deliver, TypeOK
<1>2. Dated'
  <2>1. IsFiniteSet(delivered[s] \cup {d})
    BY FS_AddElement DEF Ledger, Dated
  <2>2. d.at = clock /\ clock <= clock
    BY DEF TypeOK, Time
  <2>3. QED BY <1>1, <2>1, <2>2 DEF Ledger, Dated
<1>3. ASSUME NEW r \in Sessions, NEW t \in Nat
      PROVE  Cardinality(Arrived(r, t)') <= Cardinality(GrantedSince(r, t)') + Owed(r)'
  <2>1. GrantedSince(r, t)' = GrantedSince(r, t)
    BY DEF GrantedSince
  <2>2. /\ Cardinality(Arrived(r, t)) \in Nat /\ Cardinality(GrantedSince(r, t)) \in Nat
        /\ Cardinality(Arrived(r, t)) <= Cardinality(GrantedSince(r, t)) + Owed(r)
        /\ IsFiniteSet(Arrived(r, t))
    BY SinceFinite DEF Ledger, Balanced
  <2>3. CASE r # s
    <3>1. Arrived(r, t)' = Arrived(r, t)
      BY <1>1, <2>3 DEF Arrived
    <3>2. Owed(r) = 0 /\ Owed(r)' \in Nat
      BY <2>3 DEF Owed
    <3>3. QED BY <2>1, <2>2, <3>1, <3>2
  <2>4. CASE r = s
    <3>1. Arrived(r, t)' \in SUBSET (Arrived(r, t) \cup {d})
      BY <1>1, <2>4 DEF Arrived
    <3>2. /\ Cardinality(Arrived(r, t)') \in Nat /\ Cardinality(Arrived(r, t) \cup {d}) \in Nat
          /\ Cardinality(Arrived(r, t)') <= Cardinality(Arrived(r, t) \cup {d})
          /\ Cardinality(Arrived(r, t) \cup {d}) <= Cardinality(Arrived(r, t)) + 1
      BY <2>2, <3>1, CardAdd, CardLe
    <3>3. Owed(r) = 0 /\ Owed(r)' = 1
      BY <2>4 DEF Owed
    <3>4. QED BY <2>1, <2>2, <3>2, <3>3
  <2>5. QED BY <2>3, <2>4
<1>4. QED BY <1>2, <1>3 DEF Ledger, Balanced

\* Recording a slot at a time of its own settles the debt.
LEMMA RecordLedger ==
    ASSUME TypeOK, Ledger, UNCHANGED <<clock, delivered>>,
           NEW s \in Sessions, clock \notin granted[s],
           granted' = [granted EXCEPT ![s] = @ \cup {clock}],
           \A r \in Sessions \ {s} : ~Due(r)
    PROVE  Ledger'
<1>1. \A r \in Sessions : granted'[r] = IF r = s THEN granted[r] \cup {clock} ELSE granted[r]
  BY DEF TypeOK
<1>2. Dated'
  BY <1>1, FS_AddElement DEF TypeOK, Time, Ledger, Dated
<1>3. ASSUME NEW r \in Sessions, NEW t \in Nat
      PROVE  Cardinality(Arrived(r, t)') <= Cardinality(GrantedSince(r, t)') + Owed(r)'
  <2>1. Arrived(r, t)' = Arrived(r, t)
    BY DEF Arrived
  <2>2. /\ Cardinality(Arrived(r, t)) \in Nat /\ Cardinality(GrantedSince(r, t)) \in Nat
        /\ Cardinality(Arrived(r, t)) <= Cardinality(GrantedSince(r, t)) + Owed(r)
        /\ IsFiniteSet(GrantedSince(r, t)) /\ Owed(r)' \in {0, 1} /\ Owed(r) \in {0, 1}
    BY SinceFinite DEF Ledger, Balanced, Owed
  <2>3. CASE r # s
    <3>1. GrantedSince(r, t)' = GrantedSince(r, t)
      BY <1>1, <2>3 DEF GrantedSince
    <3>2. Owed(r) = 0
      BY <2>3 DEF Owed
    <3>3. QED BY <2>1, <2>2, <3>1, <3>2
  <2>4. CASE r = s /\ t <= clock
    <3>1. GrantedSince(r, t)' = GrantedSince(r, t) \cup {clock} /\ clock \notin GrantedSince(r, t)
      BY <1>1, <2>4 DEF GrantedSince
    <3>2. Cardinality(GrantedSince(r, t) \cup {clock}) = Cardinality(GrantedSince(r, t)) + 1
      BY <2>2, <3>1, FS_AddElement
    <3>3. QED BY <2>1, <2>2, <3>1, <3>2
  <2>5. CASE r = s /\ ~(t <= clock)
    <3>1. Arrived(r, t) = {}
      BY <2>5 DEF Ledger, Dated, Arrived, TypeOK, Time
    <3>2. Cardinality(GrantedSince(r, t)') \in Nat
      <4>1. GrantedSince(r, t)' \in SUBSET granted'[r]
        BY DEF GrantedSince
      <4>2. QED BY <1>2, <4>1, FS_Subset, FS_CardinalityType DEF Dated
    <3>3. QED BY <2>1, <2>2, <3>1, <3>2, FS_EmptySet
  <2>6. QED BY <2>3, <2>4, <2>5
<1>4. QED BY <1>2, <1>3 DEF Ledger, Balanced

\* In self mode a decision neither records nor delivers.
LEMMA DecidedKeeps ==
    ASSUME Mode = "self", NEW s, NEW score, NEW logs, Decided(s, score, logs)
    PROVE  UNCHANGED <<granted, delivered>>
BY DEF Decided, history

\* What a step does to the ledger: nothing, one delivery of the tick in flight, or
\* the slot it owes.
Quiet ==
    /\ UNCHANGED <<granted, delivered>>
    /\ UNCHANGED clock \/ clock' = clock + 1
    /\ \A s \in Sessions : Due(s) => Due(s)'
Ticking(s) == s = hb.session /\ hb.pc \in Awaits /\ phase = "up"
Delivers(s) ==
    /\ Deliver(s) /\ UNCHANGED <<clock, granted>>
    /\ ~Due(s) /\ Due(s)'
Settles(s) ==
    /\ granted' = [granted EXCEPT ![s] = @ \cup {clock}]
    /\ UNCHANGED <<clock, delivered>>

LEMMA LedgerSteps ==
    ASSUME OneLife, TypeOK, PacingInv, SlotsInv, [Next]_vars
    PROVE  \/ Quiet
           \/ \E s \in Sessions : Ticking(s) /\ (Delivers(s) \/ Settles(s))
<1> USE DEF memory, history
<1>0. /\ Mode = "self" /\ phase # "torn" /\ ~Stopped /\ (hb.pc \in Awaits => phase = "up")
  BY DEF OneLife, SlotsInv, Delegating, Stopped, TypeOK, PacingInv, NoTickWhileDown, Awaits
<1>frame. ASSUME UNCHANGED <<clock, granted, delivered>>,
                 \/ hb.pc \notin {"deliver", "sent"}
                 \/ hb.pc = "deliver" /\ ~hb.landed
                 \/ hb'.pc = hb.pc /\ hb'.session = hb.session /\ hb'.landed = hb.landed
          PROVE  Quiet
  BY <1>frame DEF Quiet, Due
<1>1. CASE \/ StartHeartbeat \/ FinishHeartbeat \/ AbortHeartbeat
           \/ \E s \in Sessions : VisitSilent(s) \/ VisitVetoed(s)
  BY <1>1, <1>frame DEF StartHeartbeat, FinishHeartbeat, AbortHeartbeat, VisitSilent, VisitVetoed, Visit
<1>2. ASSUME NEW s \in Sessions, VisitCleared(s) PROVE Quiet
  <2> DEFINE logs == [sends EXCEPT ![s] = Recent(sends[s], hb.now)]
  <2>1. UNCHANGED clock /\ hb.pc = "loop"
    BY <1>2 DEF VisitCleared, Visit
  <2>2. UNCHANGED <<granted, delivered>>
    <3>1. CASE Assess
      BY <1>2, <3>1 DEF VisitCleared
    <3>2. CASE ~Assess
      BY <1>0, <1>2, <3>2, DecidedKeeps DEF VisitCleared
    <3>3. QED BY <3>1, <3>2
  <2>3. QED BY <1>frame, <2>1, <2>2
<1>3. CASE Assessed
  BY <1>0, <1>3, <1>frame, DecidedKeeps DEF Assessed
<1>4. ASSUME NEW kind \in Results, Thought(kind)
      PROVE  Quiet \/ \E s \in Sessions : Ticking(s) /\ Delivers(s)
  <2>1. hb.pc = "generate" /\ UNCHANGED <<clock, granted>>
    BY <1>4 DEF Thought
  <2>2. CASE UNCHANGED delivered
    BY <1>frame, <2>1, <2>2
  <2>3. CASE Speak(hb.session) /\ Deliver(hb.session)
    <3>1. PICK s \in Sessions : Ticking(s)
      BY <1>0, <2>1 DEF Ticking, Awaits, TypeOK
    <3>2. hb'.pc = "sent" /\ hb'.session = s
      BY <2>3, <3>1 DEF Speak, Waiting, TypeOK, Heartbeats, Ticking
    <3>3. Delivers(s)
      BY <2>1, <2>3, <3>1, <3>2 DEF Delivers, Due, Ticking
    <3>4. QED BY <3>1, <3>3
  <2>4. QED BY <1>0, <1>4, <2>2, <2>3 DEF Thought
<1>5. CASE DeliveryFulfilled
  <2>1. hb.pc = "deliver" /\ Speak(hb.session) /\ UNCHANGED <<clock, granted, delivered>>
    BY <1>0, <1>5 DEF DeliveryFulfilled
  <2>2. hb'.pc = "sent" /\ hb'.session = hb.session
    BY <2>1 DEF Speak, Waiting, TypeOK, Heartbeats
  <2>3. QED BY <2>1, <2>2 DEF Quiet, Due
<1>6. CASE DeliveryRejected
  BY <1>6, <1>frame DEF DeliveryRejected, OneLife
<1>7. CASE RecordSent
  <2>1. PICK s \in Sessions : Ticking(s)
    BY <1>0, <1>7 DEF RecordSent, Ticking, Awaits, TypeOK
  <2>2. Settles(s)
    BY <1>7, <2>1 DEF RecordSent, Record, Settles, Ticking
  <2>3. QED BY <2>1, <2>2
<1>8. CASE Landed
  <2>1. PICK s \in Sessions : Ticking(s)
    BY <1>0, <1>8 DEF Landed, Ticking, Awaits, TypeOK
  <2>2. hb'.pc = "deliver" /\ hb'.session = s /\ hb'.landed
    BY <1>8, <2>1 DEF Landed, TypeOK, Heartbeats, Ticking
  <2>3. Delivers(s)
    BY <1>8, <2>1, <2>2 DEF Landed, Delivers, Due, Ticking
  <2>4. QED BY <2>1, <2>3
<1>9. CASE \/ PluginInit \/ UNCHANGED vars
           \/ \E s \in Sessions, role \in {"user", "agent"} : Message(s, role)
  BY <1>9, <1>frame DEF PluginInit, vars, Message
<1>10. CASE ClockTick
  BY <1>10 DEF ClockTick, Quiet, Due
<1>11. ~Teardown /\ ~Crash
  BY DEF Teardown, Crash, OneLife
<1>12. QED
  BY <1>1, <1>2, <1>3, <1>4, <1>5, <1>6, <1>7, <1>8, <1>9, <1>10, <1>11 DEF Next, HeartbeatStep

LEMMA StepLedger ==
    ASSUME OneLife, TypeOK, PacingInv, SlotsInv, Ledger, [Next]_vars
    PROVE  Ledger'
<1>1. clock \in Nat
  BY DEF TypeOK, Time
<1>2. CASE Quiet
  BY <1>1, <1>2, FrameLedger DEF Quiet
<1>3. ASSUME NEW s \in Sessions, Ticking(s), Delivers(s) PROVE Ledger'
  <2>1. \A r \in Sessions \ {s} : ~Due(r)
    BY <1>3 DEF Due, Ticking
  <2>2. QED BY <1>3, <2>1, DeliverLedger DEF Delivers
<1>4. ASSUME NEW s \in Sessions, Ticking(s), Settles(s) PROVE Ledger'
  <2>1. Paced(Counting(sends[s], s), hb.now) /\ phase = "up" /\ Mode = "self"
    BY <1>4 DEF PacingInv, TickPaced, Ticking, OneLife
  <2>2. clock \notin granted[s]
    BY <1>1, <2>1, PacedEver, ConfigAssumption
  <2>3. \A r \in Sessions \ {s} : ~Due(r)
    BY <1>4 DEF Due, Ticking
  <2>4. QED BY <1>4, <2>2, <2>3, RecordLedger DEF Settles
<1>5. QED BY <1>2, <1>3, <1>4, LedgerSteps

LEMMA LedgerAlways == OneLife => (Spec => []Ledger)
<1> SUFFICES ASSUME OneLife PROVE Spec => []Ledger
  OBVIOUS
<1>1. Init => Ledger
  <2> SUFFICES ASSUME Init PROVE Ledger
    OBVIOUS
  <2>1. \A s \in Sessions : delivered[s] = {} /\ granted[s] = {}
    BY DEF Init
  <2>2. \A s \in Sessions, t \in Nat :
            Arrived(s, t) = {} /\ GrantedSince(s, t) = {} /\ Owed(s) \in {0, 1}
    BY <2>1 DEF Arrived, GrantedSince, Owed
  <2>3. Dated
    BY <2>1, FS_EmptySet DEF Dated
  <2>4. Balanced
    BY <2>2, FS_EmptySet DEF Balanced
  <2>5. QED BY <2>3, <2>4 DEF Ledger
<1>2. TypeOK /\ PacingInv /\ SlotsInv /\ Ledger /\ [Next]_vars => Ledger'
  BY StepLedger
<1>3. QED BY <1>1, <1>2, OneLifeIsOne, TypeCorrect, Pacing, SlotsAlways, PTL DEF Spec

\* In self mode and one lifecycle, whatever the transport claims to have delivered:
\* no session has received more than it has slots, unless its tick is in flight.
THEOREM DeliveriesAlwaysCounted == OneLife => (Spec => []DeliveriesCounted)
<1> SUFFICES ASSUME OneLife PROVE Spec => []DeliveriesCounted
  OBVIOUS
<1>1. ASSUME TypeOK, Ledger PROVE DeliveriesCounted
  <2> SUFFICES ASSUME NEW s \in Sessions, hb.session # s
               PROVE  Cardinality(delivered[s]) <= Cardinality(granted[s])
    BY DEF DeliveriesCounted
  <2>1. Arrived(s, 0) = delivered[s] /\ GrantedSince(s, 0) = granted[s]
    BY <1>1 DEF Arrived, GrantedSince, TypeOK, Log, Time
  <2>2. Cardinality(GrantedSince(s, 0)) \in Nat
    BY <1>1, SinceFinite DEF Ledger
  <2>3. Owed(s) = 0
    BY DEF Owed, Due
  <2>4. Cardinality(Arrived(s, 0)) <= Cardinality(GrantedSince(s, 0)) + Owed(s)
    BY <1>1 DEF Ledger, Balanced
  <2>5. QED BY <2>1, <2>2, <2>3, <2>4
<1>2. TypeOK /\ Ledger => DeliveriesCounted
  BY <1>1
<1>3. QED BY <1>2, TypeCorrect, LedgerAlways, PTL

-----------------------------------------------------------------------------
(* The second refinement. *)

LEMMA SameReceiptCardinality == \A S : Receipts!Cardinality(S) = Cardinality(S)
BY DEF Cardinality, Receipts!Cardinality

\* The times of some deliveries are no more than the deliveries.
LEMMA TimesOf ==
    ASSUME NEW D, IsFiniteSet(D)
    PROVE  /\ IsFiniteSet({d.at : d \in D})
           /\ Cardinality({d.at : d \in D}) <= Cardinality(D)
<1> DEFINE f == [d \in D |-> d.at]
           T == {d.at : d \in D}
<1>1. f \in Surjection(D, T)
  BY DEF Surjection
<1>2. QED BY <1>1, FS_Surjection

\* What the guardrails found of the slots holds of what was received, if no slot
\* is due.
LEMMA PacedReceipts ==
    ASSUME Mode = "self", TypeOK, PacingInv, SlotsInv, Ledger, phase = "up",
           NEW s \in Sessions, Paced(Counting(sends[s], s), hb.now), ~Due(s)
    PROVE  /\ \A d \in delivered[s] : clock - d.at < Day => clock - d.at >= Cooldown
           /\ Cardinality(Receipts!Within(s, Hour)) < MaxPerHour
           /\ Cardinality(Receipts!Within(s, Day)) < MaxPerDay
<1>1. /\ clock \in Nat /\ \A d \in delivered[s] : d.at \in Nat
      /\ \A at \in granted[s] : at \in Nat
  BY DEF TypeOK, Log, Time
<1>2. ASSUME NEW t \in Nat
      PROVE  /\ Cardinality(Arrived(s, t)) <= Cardinality(GrantedSince(s, t))
             /\ IsFiniteSet(Arrived(s, t)) /\ IsFiniteSet(GrantedSince(s, t))
             /\ Cardinality(Arrived(s, t)) \in Nat /\ Cardinality(GrantedSince(s, t)) \in Nat
  BY SinceFinite DEF Ledger, Balanced, Owed
<1>3. ASSUME NEW d \in delivered[s], clock - d.at < Day PROVE clock - d.at >= Cooldown
  <2>1. d \in Arrived(s, d.at) /\ d.at \in Nat
    BY <1>1 DEF Arrived
  <2>2. GrantedSince(s, d.at) # {}
    BY <1>2, <2>1, FS_EmptySet
  <2>3. PICK at \in granted[s] : at >= d.at
    BY <2>2 DEF GrantedSince
  <2>4. clock - at >= Cooldown
    BY <1>1, <1>3, <2>1, <2>3, PacedEver, ConfigAssumption
  <2>5. QED BY <1>1, <2>1, <2>3, <2>4, ConfigAssumption
<1>4. ASSUME NEW span \in Nat, NEW max \in Nat, Cardinality(Slots!Within(s, span)) < max
      PROVE  Cardinality(Receipts!Within(s, span)) < max
  <2>1. PICK t \in Nat : \A u \in Nat : u >= t <=> clock - u < span
    <3> DEFINE start == IF clock >= span THEN clock - span + 1 ELSE 0
    <3>1. start \in Nat /\ \A u \in Nat : u >= start <=> clock - u < span
      BY <1>1
    <3>2. QED BY <3>1
  <2>2. Slots!Within(s, span) = GrantedSince(s, t)
    BY <1>1, <2>1 DEF Slots!Within, GrantedSince
  <2>3. Receipts!Within(s, span) = {d.at : d \in Arrived(s, t)}
    BY <1>1, <2>1 DEF Receipts!Within, Arrived
  <2>4. /\ Cardinality(Receipts!Within(s, span)) <= Cardinality(Arrived(s, t))
        /\ Cardinality(Receipts!Within(s, span)) \in Nat
    BY <1>2, <2>3, TimesOf, FS_CardinalityType
  <2>5. QED BY <1>2, <1>4, <2>2, <2>4
<1>5. QED BY <1>3, <1>4, PacedEver, ConfigAssumption

LEMMA StepReceives ==
    ASSUME OneLife, TypeOK, PacingInv, SlotsInv, Ledger, [Next]_vars
    PROVE  [Receipts!Next]_(Receipts!vars)
<1> DEFINE reached == [s \in Sessions |-> {d.at : d \in delivered[s]}]
<1>1. CASE Quiet
  BY <1>1 DEF Quiet, Receipts!vars, Receipts!Next, Receipts!Pass
<1>2. ASSUME NEW s \in Sessions, Settles(s) PROVE UNCHANGED Receipts!vars
  BY <1>2 DEF Settles, Receipts!vars
<1>3. ASSUME NEW s \in Sessions, Ticking(s), Delivers(s) PROVE Receipts!Next
  <2>1. Paced(Counting(sends[s], s), hb.now) /\ phase = "up" /\ Mode = "self"
    BY <1>3 DEF PacingInv, TickPaced, Ticking, OneLife
  <2>2. reached' = [reached EXCEPT ![s] = @ \cup {clock}] /\ clock' = clock
    <3>1. \A r \in Sessions : delivered'[r] = IF r = s
                                  THEN delivered[r] \cup {[tick |-> hb.now, at |-> clock]}
                                  ELSE delivered[r]
      BY <1>3 DEF Delivers, Deliver, TypeOK
    <3>2. ASSUME NEW r \in Sessions
          PROVE  {d.at : d \in delivered'[r]} = IF r = s
                                  THEN {d.at : d \in delivered[r]} \cup {clock}
                                  ELSE {d.at : d \in delivered[r]}
      <4>1. CASE r = s
        <5>1. delivered'[r] = delivered[r] \cup {[tick |-> hb.now, at |-> clock]}
          BY <3>1, <4>1
        <5>2. [tick |-> hb.now, at |-> clock].at = clock
          OBVIOUS
        <5>3. {d.at : d \in delivered[r] \cup {[tick |-> hb.now, at |-> clock]}}
                = {d.at : d \in delivered[r]} \cup {clock}
          BY <5>2
        <5>4. QED BY <4>1, <5>1, <5>3
      <4>2. CASE r # s
        BY <3>1, <4>2
      <4>3. QED BY <4>1, <4>2
    <3>3. QED BY <1>3, <3>2 DEF Delivers
  <2>3. Receipts!Reach(s)
    BY <1>3, <2>1, <2>2, PacedReceipts, SameReceiptCardinality
       DEF Delivers, Receipts!Reach, Receipts!Within
  <2>4. QED BY <2>3 DEF Receipts!Next
<1>4. QED BY <1>1, <1>2, <1>3, LedgerSteps

\* In self mode and one lifecycle, what the users receive is paced as module
\* Outreach promises, although each receipt comes before the slot that counts it.
THEOREM ReceiptsRefine == OneLife => (Spec => ReceiptsPaced)
<1> SUFFICES ASSUME OneLife PROVE Spec => ReceiptsPaced
  OBVIOUS
<1>1. Init => Receipts!Init
  BY DEF Init, Receipts!Init
<1>2. TypeOK /\ PacingInv /\ SlotsInv /\ Ledger /\ [Next]_vars => [Receipts!Next]_(Receipts!vars)
  BY StepReceives
<1>3. QED BY <1>1, <1>2, OneLifeIsOne, TypeCorrect, Pacing, SlotsAlways, LedgerAlways, PTL
          DEF Spec, ReceiptsPaced, Receipts!Spec
=============================================================================
