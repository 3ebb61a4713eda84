------------------------------- MODULE Emotion -------------------------------
(***************************************************************************)
(* The emotion of one session and the wall-clock time it accounts for.     *)
(* The store evolves it lazily, to whichever time its reader asks for: the *)
(* start of the heartbeat (read before the awaits of the sessions visited  *)
(* earlier), the present (a user message, a snapshot), or the time of a    *)
(* restart.  Of the three components only socialNeed is kept: it grows     *)
(* linearly and saturates, and the other two evolve over the same spans.   *)
(* Persistence is enabled; guardrails and scores are choices.              *)
(***************************************************************************)
EXTENDS Integers

CONSTANTS
    Full,           \* 1.0, in the model's unit of need
    Growth,         \* socialNeedGrowthPerHour, per tick of the clock
    Initial,        \* DEFAULT_EMOTION_STATE.socialNeed
    Reset,          \* interactionSocialNeedReset
    Assessments,    \* the needs an LLM assessment may state
    MaxTime         \* bound: the clock stops here

Need == 0..Full

ASSUME EmotionAssumption ==
    /\ {Full, Growth, MaxTime} \subseteq Nat
    /\ {Initial, Reset} \subseteq Need /\ Assessments \subseteq Need

VARIABLES
    clock,      \* Date.now()
    phase,      \* "down": no process; "up": initialised; "torn": after teardown
    session,    \* "none", or what the SessionManager has: "silent", without a
                \*     message of the user, or "talked"
    entry,      \* the EmotionStore's entry of the session
    file,       \* the entry of the session in the snapshot, at its savedAt
    hb,         \* the heartbeat in flight
    due,        \* history: the need by the wall clock alone
    fileDue,    \* history: likewise, had the session gone on from the snapshot
    lag         \* history: time spent between a heartbeat's start and the end
                \*     of its last read of the session

vars == <<clock, phase, session, entry, file, hb, due, fileDue, lag>>

NoEntry == [known |-> FALSE, need |-> 0, at |-> 0]
Entry(need, at) == [known |-> TRUE, need |-> need, at |-> at]

\* hb.need: the `emotion` its tick holds while it awaits the assessment.
\* hb.old: the plugin was torn down meanwhile, with the tick's store.
Idle == [pc |-> "idle", now |-> 0, need |-> 0, old |-> FALSE]
Goto(pc) == hb' = [hb EXCEPT !.pc = pc]

-----------------------------------------------------------------------------
(* The dynamics and the store. *)

AtMost(a, b) == IF a < b THEN a ELSE b

Evolve(need, elapsed) == AtMost(Full, need + Growth * (IF elapsed > 0 THEN elapsed ELSE 0))
Coupled(need) == AtMost(need, Reset)

\* evolved*0.4 + llm*0.6, rounded down to a unit.
Merged(need, assessed) == (2 * need + 3 * assessed) \div 5

\* store.get: a reader that asks for an earlier time moves the entry back to it.
Got(t) == IF entry.known THEN Entry(Evolve(entry.need, t - entry.at), t) ELSE Entry(Initial, t)
DueNow == IF entry.known THEN due ELSE Initial

-----------------------------------------------------------------------------
(* The snapshot. *)

\* Mutant of Kept: the entry is peeked at, not evolved to savedAt.
KeptAsIs == [entry EXCEPT !.at = clock]
Kept == Got(clock)

\* #save.  A session the SessionManager does not know is left out.
Save ==
    LET kept == session # "none" /\ entry.known IN
    /\ entry' = IF kept THEN Got(clock) ELSE entry
    /\ file' = IF kept THEN Kept ELSE NoEntry
    /\ fileDue' = IF kept THEN due ELSE 0
    /\ UNCHANGED due

\* #restore evolves what was saved over the time since savedAt.
Restored == IF file.known THEN Entry(Evolve(file.need, clock - file.at), clock) ELSE NoEntry

-----------------------------------------------------------------------------
(* The heartbeat. *)

StartHeartbeat ==
    /\ phase = "up" /\ hb.pc = "idle"
    /\ hb' = [Idle EXCEPT !.pc = IF session = "none" THEN "after" ELSE "before", !.now = clock]
    /\ UNCHANGED <<clock, phase, session, entry, file, due, fileDue, lag>>

\* The tick of the session, to its first await or its end.
Visit ==
    /\ hb.pc = "before" /\ phase = "up"
    /\ IF session = "talked"
       THEN /\ entry' = Got(hb.now)
            /\ due' = DueNow
            /\ \/ Goto("after")                     \* vetoed, or not assessing
               \/ hb' = [hb EXCEPT !.pc = "assess", !.need = entry'.need]
       ELSE Goto("after") /\ UNCHANGED <<entry, due>>
    /\ UNCHANGED <<clock, phase, session, file, fileDue, lag>>

\* What an assessment is merged with.  Mutant: the emotion read before the await.
BasisBefore == hb.need
Basis == Got(hb.now).need

\* The assessment arrives.  A tick whose lifecycle is over works on its store.
Assessed(assessed) ==
    /\ hb.pc = "assess" /\ phase # "down"
    /\ Goto("after")
    /\ IF phase = "up" /\ ~hb.old
       THEN /\ entry' = Entry(Merged(Basis, assessed), clock)
            /\ due' = Merged(DueNow, assessed)
       ELSE UNCHANGED <<entry, due>>
    /\ UNCHANGED <<clock, phase, session, file, fileDue, lag>>

\* The request fails, or its answer has no assessment.
AssessFailed ==
    /\ hb.pc = "assess" /\ phase # "down"
    /\ Goto("after")
    /\ UNCHANGED <<clock, phase, session, entry, file, due, fileDue, lag>>

\* A send is recorded, to this session or to another one, and persisted.
RecordSend ==
    /\ hb.pc \in {"before", "after"} /\ phase = "up"
    /\ Save
    /\ UNCHANGED <<clock, phase, session, hb, lag>>

\* Every saveIntervalTicks-th heartbeat ends with a save; one whose plugin was
\* torn down ends early and saves nothing.
FinishHeartbeat ==
    /\ hb.pc = "after" \/ (hb.pc = "before" /\ phase = "torn")
    /\ hb' = Idle
    /\ \/ phase = "up" /\ Save
       \/ UNCHANGED <<entry, file, due, fileDue>>
    /\ UNCHANGED <<clock, phase, session, lag>>

-----------------------------------------------------------------------------
(* Messages, the lifecycle and the clock. *)

\* #handleMessageAppended; while torn down nobody is subscribed.
UserMessage ==
    /\ phase = "up"
    /\ session' = "talked"
    /\ entry' = Entry(Coupled(Got(clock).need), clock)
    /\ due' = Coupled(DueNow)
    /\ UNCHANGED <<clock, phase, file, hb, fileDue, lag>>

AgentMessage ==
    /\ phase = "up" /\ session = "none"
    /\ session' = "silent"
    /\ UNCHANGED <<clock, phase, entry, file, hb, due, fileDue, lag>>

PluginInit ==
    /\ phase # "up"
    /\ phase' = "up"
    /\ entry' = Restored
    /\ due' = fileDue
    /\ UNCHANGED <<clock, session, file, hb, fileDue, lag>>

Teardown ==
    /\ phase = "up"
    /\ phase' = "torn"
    /\ LET kept == session # "none" /\ entry.known IN
       /\ file' = IF kept THEN Kept ELSE NoEntry
       /\ fileDue' = IF kept THEN due ELSE 0
    /\ entry' = NoEntry /\ due' = 0
    /\ hb' = IF hb.pc = "assess" THEN [hb EXCEPT !.old = TRUE] ELSE hb
    /\ UNCHANGED <<clock, session, lag>>

Crash ==
    /\ phase # "down"
    /\ phase' = "down"
    /\ session' = "none" /\ entry' = NoEntry /\ due' = 0
    /\ hb' = Idle
    /\ UNCHANGED <<clock, file, fileDue, lag>>

ClockTick ==
    /\ clock < MaxTime
    /\ clock' = clock + 1
    /\ due' = Evolve(due, 1) /\ fileDue' = Evolve(fileDue, 1)
    /\ lag' = lag + IF hb.pc \in {"before", "assess"} THEN 1 ELSE 0
    /\ UNCHANGED <<phase, session, entry, file, hb>>

Init ==
    /\ clock = 0 /\ phase = "down" /\ session = "none"
    /\ entry = NoEntry /\ file = NoEntry
    /\ hb = Idle
    /\ due = 0 /\ fileDue = 0 /\ lag = 0

Next ==
    \/ StartHeartbeat \/ Visit
    \/ \E assessed \in Assessments : Assessed(assessed)
    \/ AssessFailed \/ RecordSend \/ FinishHeartbeat
    \/ UserMessage \/ AgentMessage
    \/ PluginInit \/ Teardown \/ Crash
    \/ ClockTick

Spec == Init /\ [][Next]_vars

-----------------------------------------------------------------------------

Entries == [known : BOOLEAN, need : Need, at : 0..MaxTime]

\* Every variable keeps its type.
TypeOK ==
    /\ clock \in 0..MaxTime /\ phase \in {"down", "up", "torn"}
    /\ session \in {"none", "silent", "talked"}
    /\ entry \in Entries /\ file \in Entries
    /\ hb \in [pc : {"idle", "before", "assess", "after"}, now : 0..MaxTime, need : Need,
               old : BOOLEAN]
    /\ due \in Need /\ fileDue \in Need /\ lag \in 0..MaxTime

Within(need, reference) ==
    need - reference <= Growth * lag /\ reference - need <= Growth * lag

\* The urge to reach out is what the wall clock, the user's messages and the
\* assessments make it, whoever read the emotion meanwhile and for which time,
\* and whatever restarts there were: only heartbeats that keep a session waiting
\* can blur it, by no more than they lasted.  In particular a message that
\* arrives during an assessment still calms it.
NeedIsElapsed == entry.known => Within(Evolve(entry.need, clock - entry.at), due)

\* The same of what the snapshot would restore now: being down counts as time.
SavedNeedIsElapsed == file.known => Within(Evolve(file.need, clock - file.at), fileDue)
=============================================================================
