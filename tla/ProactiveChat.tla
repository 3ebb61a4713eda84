---------------------------- MODULE ProactiveChat ----------------------------
(***************************************************************************)
(* The proactive-chat plugin: one heartbeat at a time walks the known      *)
(* sessions, vets each against the guardrails, decides, and reaches out.   *)
(* Every `await` of the heartbeat is a point where user messages, teardown,*)
(* re-initialisation, a crash and the clock interleave, so each one is a   *)
(* value of hb.pc and each stretch of code between two awaits is one       *)
(* action.  The score is left open (any value of Scores): it stands for    *)
(* the emotion state, the time of day and the LLM assessment.              *)
(***************************************************************************)
EXTENDS Integers, FiniteSets

CONSTANTS
    Sessions,       \* session ids
    Mode,           \* config.delivery.mode: "self" or "delegate"
    Awaited,        \* a deliveryHandler was passed to the plugin
    Assess,         \* config.emotion.useLlmAssessment
    Persist,        \* config.persistence.enabled
    Events,         \* what the environment may do, a subset of EventKinds
    NoSendAfter,    \* decision.noSendAfterActivityMinutes
    Cooldown,       \* decision.cooldownMinutes
    Hour, Day,      \* ONE_HOUR_MS and ONE_DAY_MS, in the model's time unit
    MaxPerHour, MaxPerDay,
    QuietStart, QuietEnd,         \* decision.quietHours, as times of day
    MaxAge, MaxSize,              \* delayedQueue.maxAgeHours and maxSize
    SaveInterval,                 \* persistence.saveIntervalTicks
    Scores, HoldThreshold, SendThreshold,
    MaxTime                       \* bound: the clock stops here

EventKinds == {"teardown",  \* the plugin is torn down
               "crash",     \* the process dies
               "late",      \* a delivery is reported as failed, but has landed
               "false_ok",  \* a delivery is reported as done, but has not landed
               "unsaved",   \* a write of the snapshot fails
               "unread"}    \* a read of the snapshot fails

NoSession == "none"

ASSUME ConfigAssumption ==
    /\ NoSession \notin Sessions
    /\ Mode \in {"self", "delegate"}
    /\ {Awaited, Assess, Persist} \subseteq BOOLEAN
    /\ Events \subseteq EventKinds
    /\ {NoSendAfter, QuietStart, QuietEnd, MaxAge, MaxTime} \subseteq Nat
    /\ {Cooldown, Hour, MaxPerHour, MaxPerDay, MaxSize, SaveInterval} \subseteq Nat \ {0}
    /\ Day \in Nat /\ Hour <= Day
    /\ Scores \subseteq Nat
    /\ {HoldThreshold, SendThreshold} \subseteq Nat

VARIABLES
    clock,          \* Date.now()
    phase,          \* "down": no process; "up": initialised; "torn": after teardown
    live,           \* sessions the SessionManager knows
    talked,         \* sessions with a message of role user
    lastActivity,   \* session.lastActivityAt
    sends,          \* the SendLog's timestamps
    queue,          \* the DelayedQueue's held stubs
    ticks,          \* #heartbeatTicks modulo SaveInterval
    disk,           \* the snapshot file
    hb,             \* the heartbeat in flight, see Idle
    todo,           \* sessions this heartbeat has still to visit
    granted,        \* history: every timestamp ever recorded as a send
    delivered,      \* history: every outreach the user received
    behind,         \* history: the last write of this lifecycle failed
    forgotten       \* history: timestamps that a failed write or read has lost

memory == <<ticks, live, talked, lastActivity>>
history == <<granted, delivered>>
vars == <<clock, phase, live, talked, lastActivity, sends, queue, ticks, disk,
          hb, todo, granted, delivered, behind, forgotten>>

Time == Nat
Stub == [at : Time, score : Scores]
Blank == [sends |-> {}, queue |-> {}]

\* hb.old: a teardown hit while this session's tick was suspended, so the tick
\* works on the emotion store and queue of a finished lifecycle.
\* hb.landed: the transport has handed the current outreach to the user.
Awaits == {"assess", "generate", "deliver", "sent"}
Heartbeats == [pc : {"idle", "loop"} \cup Awaits, session : Sessions \cup {NoSession},
               now : Time, extras : SUBSET Stub, old : BOOLEAN, landed : BOOLEAN]
Idle == [pc |-> "idle", session |-> NoSession, now |-> 0, extras |-> {},
         old |-> FALSE, landed |-> FALSE]
Looping(t) == [Idle EXCEPT !.pc = "loop", !.now = t]
Waiting(pc, s, extras) ==
    [hb EXCEPT !.pc = pc, !.session = s, !.extras = extras, !.landed = FALSE]

\* #stopped.  Mutant: teardown forgets to set it.
NeverStopped == FALSE
Stopped == phase = "torn"

-----------------------------------------------------------------------------
(* Guardrails. *)

InQuietHours(t) ==
    LET minute == t % Day IN
    IF QuietStart = QuietEnd THEN FALSE
    ELSE IF QuietStart < QuietEnd THEN minute >= QuietStart /\ minute < QuietEnd
    ELSE minute >= QuietStart \/ minute < QuietEnd

\* Mutant of Recent: a log forgets what is older than an hour.
RecentHour(log, t) == {at \in log : t - at < Hour}
Recent(log, t) == {at \in log : t - at < Day}
Within(log, t, span) == {at \in log : t - at < span}

\* Mutants of Paced: no cooldown, and a cap off by one.
PacedNoCooldown(log, t) ==
    /\ Cardinality(Within(log, t, Hour)) < MaxPerHour
    /\ Cardinality(Within(log, t, Day)) < MaxPerDay
PacedDailyOffByOne(log, t) ==
    /\ \A at \in log : t - at >= Cooldown
    /\ Cardinality(Within(log, t, Hour)) < MaxPerHour
    /\ Cardinality(Within(log, t, Day)) <= MaxPerDay

\* The log only grows with a clock that does not run backwards, so the last
\* entry is the latest: the cooldown holds for it iff it holds for all.
Paced(log, t) ==
    /\ \A at \in log : t - at >= Cooldown
    /\ Cardinality(Within(log, t, Hour)) < MaxPerHour
    /\ Cardinality(Within(log, t, Day)) < MaxPerDay

Clear(s, t, log) ==
    /\ ~InQuietHours(t)
    /\ t - lastActivity[s] >= NoSendAfter
    /\ Paced(log, t)

-----------------------------------------------------------------------------
(* The HOLD queue of one session, as a set of stubs. *)

Fresh(held, t) == {stub \in held : t - stub.at <= MaxAge}
Lowest(held) == {stub \in held : \A other \in held : stub.score <= other.score}

\* The set of queues an enqueue may leave (ties for eviction are left open).
Enqueued(held, stub, t) ==
    LET fresh == Fresh(held, t) IN
    IF Cardinality(fresh) < MaxSize THEN {fresh \cup {stub}}
    ELSE {IF low.score >= stub.score THEN fresh ELSE (fresh \ {low}) \cup {stub} :
            low \in Lowest(fresh)}

Rescored(held, score, t) == {[stub EXCEPT !.score = score] : stub \in Fresh(held, t)}

\* The best MaxSize of the stubs that have not expired.
Trimmed(held, t) ==
    LET fresh == Fresh(held, t) IN
    {kept \in SUBSET fresh :
        /\ Cardinality(kept) = IF Cardinality(fresh) < MaxSize THEN Cardinality(fresh)
                                                               ELSE MaxSize
        /\ \A in \in kept, out \in fresh \ kept : in.score >= out.score}

\* The queue a suspended tick sees: empty once its lifecycle was torn down.
Held(s) == IF hb.old THEN {} ELSE queue[s]
WithQueue(s, held) == IF hb.old THEN queue ELSE [queue EXCEPT ![s] = held]

-----------------------------------------------------------------------------
(* The snapshot. *)

\* Mutant of Snapshot: the timestamps are left out.
SnapshotWithoutSends(logs, queues) ==
    [s \in Sessions |-> IF s \in live THEN [sends |-> {}, queue |-> queues[s]] ELSE Blank]

\* Only live sessions are kept: others are pruned from the file.
Snapshot(logs, queues) ==
    [s \in Sessions |-> IF s \in live
                        THEN [sends |-> Recent(logs[s], clock), queue |-> queues[s]]
                        ELSE Blank]

\* storage.write: a write that fails is logged, and the caller goes on.
Write(snapshot) ==
    \/ disk' = snapshot /\ behind' = FALSE
    \/ "unsaved" \in Events /\ UNCHANGED disk /\ behind' = TRUE

\* #save with the given contents.  Reading the log to save it prunes it.
Save(logs, queues) ==
    IF Persist /\ ~Stopped
    THEN /\ sends' = [s \in Sessions |-> IF s \in live THEN Recent(logs[s], clock)
                                                       ELSE logs[s]]
         /\ Write(Snapshot(logs, queues))
    ELSE sends' = logs /\ UNCHANGED <<disk, behind>>

\* Mutant of Record: nothing is persisted after a send.
RecordInMemory(s, at, logs, queues) ==
    /\ sends' = [logs EXCEPT ![s] = Recent(@, at) \cup {at}]
    /\ granted' = [granted EXCEPT ![s] = @ \cup {at}]
    /\ UNCHANGED <<disk, behind>>

\* sends.record(s, at) on these logs, then persist: recorded whether or not saved.
Record(s, at, logs, queues) ==
    /\ Save([logs EXCEPT ![s] = Recent(@, at) \cup {at}], queues)
    /\ granted' = [granted EXCEPT ![s] = @ \cup {at}]

Deliver(s) ==
    delivered' = [delivered EXCEPT ![s] = @ \cup {[tick |-> hb.now, at |-> clock]}]

-----------------------------------------------------------------------------
(* The tick of one session. *)

TickDone == hb' = Looping(hb.now)

\* #delegate, from its start to its first await.
Delegate(s, logs, queues) ==
    IF Awaited
    THEN /\ hb' = Waiting("deliver", s, {})
         /\ sends' = logs
         /\ UNCHANGED <<disk, behind, history>>
    ELSE /\ Deliver(s)                       \* proactive:delegate on the bus
         /\ Record(s, hb.now, logs, queues)
         /\ TickDone

\* The band of the score; the guardrails decide() checks again are those checked
\* before, on the same inputs.
Outcome(score) ==
    CASE score >= SendThreshold -> "generate"
      [] score < SendThreshold /\ score >= HoldThreshold -> "hold"
      [] OTHER -> "skip"

\* The tick's check that no stub waits.  Mutant: the check is missing.
NeverHeld(s) == TRUE
NothingHeld(s) == Fresh(Held(s), clock) = {}

\* The tick of s from decide() on, when the score of s is `score`: promotion of
\* a held stub, or waiting for it, or else the band of the score.
Decided(s, score, logs) ==
    LET rescored == Rescored(Held(s), score, clock)
        promoted == score >= SendThreshold /\ rescored # {}
        stub == [at |-> hb.now, score |-> score]
        Leave(held) == /\ queue' = WithQueue(s, held)
                       /\ sends' = logs
                       /\ UNCHANGED <<disk, behind, history>>
        Outreach(extras) ==
            IF Mode = "delegate"
            THEN /\ queue' = WithQueue(s, extras)
                 /\ Delegate(s, logs, WithQueue(s, extras))
            ELSE /\ hb' = Waiting("generate", s, extras)
                 /\ Leave({})
    IN
    \/ /\ promoted
       /\ \E first \in rescored : Outreach(rescored \ {first})
    \/ /\ ~promoted /\ ~NothingHeld(s)
       /\ TickDone /\ Leave(rescored)
    \/ /\ ~promoted /\ NothingHeld(s)
       /\ \/ Outcome(score) = "generate" /\ Outreach({})
          \/ /\ Outcome(score) = "hold"
             /\ TickDone
             /\ \E held \in Enqueued(rescored, stub, clock) : Leave(held)
          \/ /\ Outcome(score) = "skip"
             /\ TickDone /\ Leave(rescored)

\* Mutant of Speak: the send is not followed by the recording of its slot.
SpeakUnrecorded(s) ==
    /\ lastActivity' = [lastActivity EXCEPT ![s] = clock]
    /\ TickDone

\* ctx.send: the agent's message is appended and goes out.
Speak(s) ==
    /\ lastActivity' = [lastActivity EXCEPT ![s] = clock]
    /\ hb' = Waiting("sent", s, {})

-----------------------------------------------------------------------------
(* The heartbeat. *)

StartHeartbeat ==
    /\ phase = "up" /\ hb.pc = "idle"
    /\ hb' = Looping(clock)
    /\ todo' = live
    /\ UNCHANGED <<clock, phase, forgotten, memory, sends, queue, disk, behind, history>>

\* The loop takes the next session (in some order) and ticks it.
Visit(s) ==
    /\ hb.pc = "loop" /\ s \in todo /\ ~Stopped
    /\ todo' = todo \ {s}
    /\ UNCHANGED <<clock, phase, forgotten, memory>>

\* No user message yet: not a candidate, and nothing is read or pruned.
VisitSilent(s) ==
    /\ Visit(s)
    /\ s \notin talked
    /\ TickDone
    /\ UNCHANGED <<sends, queue, disk, behind, history>>

VisitVetoed(s) ==
    LET log == Recent(sends[s], hb.now) IN
    /\ Visit(s)
    /\ s \in talked /\ ~Clear(s, hb.now, log)
    /\ sends' = [sends EXCEPT ![s] = log]
    /\ TickDone
    /\ UNCHANGED <<queue, disk, behind, history>>

VisitCleared(s) ==
    LET log == Recent(sends[s], hb.now) IN
    /\ Visit(s)
    /\ s \in talked /\ Clear(s, hb.now, log)
    /\ IF Assess
       THEN /\ hb' = Waiting("assess", s, {})
            /\ sends' = [sends EXCEPT ![s] = log]
            /\ UNCHANGED <<queue, disk, behind, history>>
       ELSE \E score \in Scores : Decided(s, score, [sends EXCEPT ![s] = log])

\* The LLM's assessment arrives, or its request fails.
Assessed ==
    /\ hb.pc = "assess" /\ phase # "down"
    /\ IF Stopped
       THEN TickDone /\ UNCHANGED <<sends, queue, disk, behind, history>>
       ELSE \E score \in Scores : Decided(hb.session, score, sends)
    /\ UNCHANGED <<clock, phase, forgotten, memory, todo>>

\* What generateThought may return: "skipped" stands for SKIP, an empty answer
\* and a failed request.
Results == {"thought", "skipped"}

\* The thought engine answers.
Thought(kind) ==
    LET s == hb.session IN
    /\ hb.pc = "generate" /\ phase # "down"
    /\ IF Stopped
       THEN TickDone /\ UNCHANGED <<queue, lastActivity, delivered>>
       ELSE /\ queue' = WithQueue(s, Fresh(Held(s), clock) \cup hb.extras)
            /\ CASE kind = "skipped" -> TickDone /\ UNCHANGED <<lastActivity, delivered>>
                 [] kind = "thought" /\ Awaited -> /\ hb' = Waiting("deliver", s, {})
                                               /\ UNCHANGED <<lastActivity, delivered>>
                 [] OTHER -> Speak(s) /\ Deliver(s)
    /\ UNCHANGED <<clock, phase, forgotten, live, talked, sends, ticks, disk, behind, todo, granted>>

\* The transport hands the outreach to the user while its promise is pending.
Landed ==
    /\ hb.pc = "deliver" /\ ~hb.landed
    /\ hb' = [hb EXCEPT !.landed = TRUE]
    /\ Deliver(hb.session)
    /\ UNCHANGED <<clock, phase, forgotten, memory, sends, queue, disk, behind, todo, granted>>

DeliveryFulfilled ==
    LET s == hb.session IN
    /\ hb.pc = "deliver" /\ phase # "down"
    /\ hb.landed \/ "false_ok" \in Events
    /\ CASE Stopped -> TickDone /\ UNCHANGED <<lastActivity, sends, disk, behind, granted>>
         [] ~Stopped /\ Mode = "self" -> Speak(s) /\ UNCHANGED <<sends, disk, behind, granted>>
         [] OTHER -> /\ Record(s, hb.now, sends, queue)
                     /\ TickDone
                     /\ UNCHANGED lastActivity
    /\ UNCHANGED <<clock, phase, forgotten, live, talked, queue, ticks, todo, delivered>>

\* Mutant of DeliveryRejected: the slot is consumed all the same.
RejectedButRecorded ==
    /\ hb.pc = "deliver" /\ phase # "down" /\ ~hb.landed
    /\ Record(hb.session, hb.now, sends, queue)
    /\ TickDone
    /\ UNCHANGED <<clock, phase, forgotten, memory, queue, todo, delivered>>

DeliveryRejected ==
    /\ hb.pc = "deliver" /\ phase # "down"
    /\ ~hb.landed \/ "late" \in Events
    /\ TickDone
    /\ UNCHANGED <<clock, phase, forgotten, memory, sends, queue, disk, behind, todo, history>>

\* The continuation of `await send(...)`: stamped with the clock, not hb.now,
\* and run even when the plugin was torn down meanwhile.
RecordSent ==
    /\ hb.pc = "sent" /\ phase # "down"
    /\ Record(hb.session, clock, sends, queue)
    /\ TickDone
    /\ UNCHANGED <<clock, phase, forgotten, memory, queue, todo, delivered>>

FinishHeartbeat ==
    /\ hb.pc = "loop" /\ todo = {}
    /\ ticks' = (ticks + 1) % SaveInterval
    /\ IF ticks' = 0 THEN Save(sends, queue) ELSE UNCHANGED <<sends, disk, behind>>
    /\ hb' = Idle
    /\ UNCHANGED <<clock, phase, forgotten, live, talked, lastActivity, queue, todo, history>>

\* Mutant of AbortHeartbeat: the flag is only cleared by a heartbeat that finishes.
AbortWithoutFinally ==
    /\ hb.pc = "loop" /\ todo # {} /\ Stopped
    /\ UNCHANGED vars
AbortHeartbeat ==
    /\ hb.pc = "loop" /\ todo # {} /\ Stopped
    /\ hb' = Idle /\ todo' = {}
    /\ UNCHANGED <<clock, phase, forgotten, memory, sends, queue, disk, behind, history>>

-----------------------------------------------------------------------------
(* The environment: messages, the lifecycle, crashes and the clock. *)

\* Mutant of GetOrCreate: the session of an event is not created.
GetOnly(s) == live' = live
GetOrCreate(s) == live' = live \cup {s}

Message(s, role) ==
    /\ phase # "down"
    /\ GetOrCreate(s)
    /\ talked' = IF role = "user" THEN talked \cup {s} ELSE talked
    /\ lastActivity' = [lastActivity EXCEPT ![s] = clock]
    /\ UNCHANGED <<clock, phase, forgotten, sends, queue, ticks, disk, behind, hb, todo, history>>

\* #restore: the emotion state it evolves is left out with the score.
Restore ==
    /\ UNCHANGED forgotten
    /\ sends' = [s \in Sessions |-> Recent(disk[s].sends, clock)]
    /\ queue' \in [Sessions -> SUBSET UNION {disk[s].queue : s \in Sessions}]
    /\ \A s \in Sessions : queue'[s] \in Trimmed(disk[s].queue, clock)

\* #restore of a snapshot that cannot be read: a warning, and no state.
StartFresh ==
    /\ "unread" \in Events /\ Persist
    /\ sends' = [s \in Sessions |-> {}]
    /\ queue' = [s \in Sessions |-> {}]
    /\ forgotten' = [s \in Sessions |-> forgotten[s] \cup disk[s].sends]

\* init, the first of a process or a later one.  With persistence disabled the
\* snapshot stays blank, so restoring it only clears the log.
PluginInit ==
    /\ phase # "up"
    /\ phase' = "up" /\ ticks' = 0 /\ behind' = FALSE
    /\ Restore \/ StartFresh
    /\ UNCHANGED <<clock, live, talked, lastActivity, disk, hb, todo, history>>

Teardown ==
    /\ "teardown" \in Events
    /\ phase = "up"
    /\ phase' = "torn"
    /\ IF Persist THEN Write(Snapshot(sends, queue)) ELSE UNCHANGED <<disk, behind>>
    /\ forgotten' = [s \in Sessions |->
                        forgotten[s] \cup IF behind' THEN sends[s] \ disk[s].sends ELSE {}]
    /\ sends' = [s \in Sessions |-> {}]
    /\ queue' = [s \in Sessions |-> {}]
    /\ hb' = IF hb.pc \in Awaits THEN [hb EXCEPT !.old = TRUE] ELSE hb
    /\ UNCHANGED <<clock, memory, todo, history>>

\* The process dies, in whatever it was doing; only the snapshot survives.
Crash ==
    /\ "crash" \in Events
    /\ phase # "down"
    /\ phase' = "down"
    /\ live' = {} /\ talked' = {} /\ ticks' = 0
    /\ lastActivity' = [s \in Sessions |-> 0]
    /\ sends' = [s \in Sessions |-> {}]
    /\ queue' = [s \in Sessions |-> {}]
    /\ hb' = Idle /\ todo' = {} /\ behind' = FALSE
    /\ UNCHANGED <<clock, disk, forgotten, history>>

ClockTick ==
    /\ clock < MaxTime
    /\ clock' = clock + 1
    /\ UNCHANGED <<phase, forgotten, memory, sends, queue, disk, behind, hb, todo, history>>

Init ==
    /\ clock = 0 /\ phase = "down"
    /\ live = {} /\ talked = {}
    /\ lastActivity = [s \in Sessions |-> 0]
    /\ sends = [s \in Sessions |-> {}]
    /\ queue = [s \in Sessions |-> {}]
    /\ ticks = 0
    /\ disk = [s \in Sessions |-> Blank]
    /\ hb = Idle /\ todo = {}
    /\ granted = [s \in Sessions |-> {}]
    /\ delivered = [s \in Sessions |-> {}]
    /\ behind = FALSE
    /\ forgotten = [s \in Sessions |-> {}]

\* What the heartbeat and the services it awaits do.
HeartbeatStep ==
    \/ \E s \in Sessions : VisitSilent(s) \/ VisitVetoed(s) \/ VisitCleared(s)
    \/ Assessed
    \/ \E kind \in Results : Thought(kind)
    \/ DeliveryFulfilled
    \/ DeliveryRejected
    \/ RecordSent
    \/ FinishHeartbeat
    \/ AbortHeartbeat

Next ==
    \/ StartHeartbeat
    \/ HeartbeatStep
    \/ Landed
    \/ \E s \in Sessions, role \in {"user", "agent"} : Message(s, role)
    \/ PluginInit
    \/ Teardown
    \/ Crash
    \/ ClockTick

Spec == Init /\ [][Next]_vars

\* A heartbeat that can go on does: its own code runs to the next await, and
\* what it awaits answers or times out (the LLM request after requestTimeoutMs,
\* the callback after CALLBACK_TIMEOUT_MS).  No timer or trigger is assumed.
FairSpec == Spec /\ WF_vars(HeartbeatStep)

-----------------------------------------------------------------------------
(* Properties. *)

Log == SUBSET Time

\* Every variable keeps its type.
TypeOK ==
    /\ clock \in Time /\ phase \in {"down", "up", "torn"}
    /\ live \subseteq Sessions /\ talked \subseteq live
    /\ lastActivity \in [Sessions -> Time]
    /\ sends \in [Sessions -> Log]
    /\ queue \in [Sessions -> SUBSET Stub]
    /\ ticks \in Nat
    /\ disk \in [Sessions -> [sends : Log, queue : SUBSET Stub]]
    /\ hb \in Heartbeats
    /\ hb.pc \in Awaits <=> hb.session \in Sessions
    /\ todo \subseteq live
    /\ granted \in [Sessions -> Log]
    /\ delivered \in [Sessions -> SUBSET [tick : Time, at : Time]]
    /\ behind \in BOOLEAN
    /\ forgotten \in [Sessions -> Log]

Spaced(log) == \A a, b \in log : a < b => b - a >= Cooldown
UpTo(log, at, span) == {u \in log : u <= at /\ at - u < span}
Capped(log, span, max) == \A at \in log : Cardinality(UpTo(log, at, span)) <= max

\* Two sends that count are never closer than the cooldown, no window of an hour
\* holds more than maxPerHour of them and none of a day more than maxPerDay:
\* whatever suspended tick, teardown, restore, crash or failed write came between
\* the guardrail check and the recording of the slot.  What counts is what the log
\* holds, no older than a day; a send that a failed write or read had lost by the
\* time of a check, and that a later read brought back, could not be checked.
Counting(log, s) == log \ forgotten[s]
CooldownKept == \A s \in Sessions : Spaced(Counting(sends[s], s))
CapsKept ==
    \A s \in Sessions : /\ Capped(Counting(sends[s], s), Hour, MaxPerHour)
                        /\ Capped(Counting(sends[s], s), Day, MaxPerDay)

\* Why: the guardrails a suspended tick passed still hold of its session's log,
\* and of the part of the snapshot a re-initialisation would bring back; a
\* running plugin counts whatever the snapshot still counts.
Kept(log) == Spaced(log) /\ Capped(log, Hour, MaxPerHour) /\ Capped(log, Day, MaxPerDay)
LogsKept(logs) ==
    \A s \in Sessions :
        /\ \A at \in logs[s] : at <= clock
        /\ Kept(Counting(logs[s], s))
        /\ phase = "up" => Counting(Recent(disk[s].sends, clock), s) \subseteq logs[s]
DiskKept ==
    \A s \in Sessions :
        /\ \A at \in disk[s].sends : at <= clock
        /\ Kept(Counting(disk[s].sends, s))
TickPaced ==
    hb.pc \in Awaits =>
        /\ Paced(Counting(sends[hb.session], hb.session), hb.now)
        /\ Paced(Counting(Recent(disk[hb.session].sends, clock), hb.session), hb.now)
NoTickWhileDown == phase = "down" => hb.pc = "idle"
PacingInv ==
    LogsKept(sends) /\ DiskKept /\ hb.now <= clock /\ NoTickWhileDown /\ TickPaced

\* A session never holds two stubs, in memory or in the snapshot: a tick only
\* holds when nothing is held.  So eviction and maxSize never come into play and
\* a promotion never has extras to put back.
OneStubHeld ==
    \A s \in Sessions : /\ (\A p, q \in queue[s] : p = q)
                         /\ (\A p, q \in disk[s].queue : p = q)

\* No slot is consumed by an outreach the transport rejected: a tick that records
\* one has reached its user, unless the transport reports so falsely.
SlotsAreDeliveries ==
    [][\A s \in Sessions :
        granted'[s] # granted[s] => \E d \in delivered'[s] : d.tick = hb.now /\ d.at <= clock]_vars

\* A slot is on disk, with all the others that still count, as soon as it is
\* recorded, so that a crash at the next instant does not lift the cooldown; or if
\* that write fails, then with the next one of this lifecycle that does not.
RecordedIsDurable ==
    [][Persist /\ phase = "up" /\ phase' = "up" /\ ~behind' =>
        \A s \in Sessions :
            granted'[s] # granted[s] \/ (behind /\ s \in live) => sends'[s] = disk'[s].sends]_vars

\* An in-flight heartbeat begins no delivery while the plugin is torn down.
NoOutreachWhileTorn ==
    [][phase = "torn" /\ hb'.pc \in {"generate", "deliver", "sent"} => hb'.pc = hb.pc]_vars

\* The reentrancy guard is always released: a heartbeat in flight ends, whatever
\* the LLM and the transport answer and whenever the plugin is torn down.  Were
\* it not, every later tick and /trigger would be dropped for good.
HeartbeatEnds == hb.pc # "idle" ~> hb.pc = "idle"

\* Every slot recorded within the last day is still counted by a running plugin,
\* but for those lost by a snapshot that could not be read when it was initialised,
\* or by a last write, at teardown, that failed.  Any other failed write costs none.
SlotsSurvive ==
    phase = "up" => \A s \in Sessions :
        Recent(granted[s], clock) \subseteq sends[s] \cup forgotten[s]

\* What reached the user a while ago has its slot: once the tick that sent it is
\* over, no outreach is missing from the count.
DeliveriesCounted ==
    phase = "up" => \A s \in Sessions :
        hb.session = s \/ Cardinality(delivered[s]) <= Cardinality(granted[s])

\* The plugin implements the promise of its guardrails, module Outreach, in two
\* ways: for the slots it records, although it forgets those older than a day and
\* checks a log that is stale by as long as the thought and the delivery take; and
\* for what its users receive, although that comes before the slot of its own.
\* Both are for self mode in one lifecycle: delegate mode stamps a slot with the
\* time its heartbeat started.
Slots == INSTANCE Outreach WITH now <- clock, reached <- granted
SlotsPaced == Slots!Spec

Receipts == INSTANCE Outreach WITH
    now <- clock, reached <- [s \in Sessions |-> {d.at : d \in delivered[s]}]
ReceiptsPaced == Receipts!Spec
=============================================================================
