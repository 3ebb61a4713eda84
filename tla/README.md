# hermes-kairos in TLA+

hermes-kairos makes an agent reach out to its users on its own: a Node *sidecar* wakes up
every few minutes, looks at each conversation, and decides whether now is a good time to say
something; a Python *plugin* inside the hermes agent feeds it with the messages of the users and
carries its outreach back. The hard part is what happens around the awaits: a user writes while
the LLM thinks, a callback times out but the message arrives, a sidecar is killed and another one
starts on its snapshot, two hermes processes start together. This directory models those parts,
checks them with TLC and proves the central ones with TLAPS.

Paths below are relative to the repository root as `src/...`, so `src/src/core/runtime.ts` is
`src/core/runtime.ts` of the TypeScript package.

## 1. The system

| component | state it keeps | operations | talks to |
|---|---|---|---|
| Heartbeat (`proactive-chat/heartbeat.ts`) | none between ticks; its locals across up to three awaits: `now`, guardrail inputs, emotion, extras | `tick(session, now)`: guardrails, assessment, decision, promotion, generation or delegation, delivery | emotion store, send log, HOLD queue, LLM, delivery handler, `ctx.send`, `persist` |
| Plugin (`proactive-chat/index.ts`) | `#stopped`, `#heartbeatRunning`, tick counter, references to the stores | `init`, `teardown`, `#runHeartbeat`, `#save`, `#restore`, message coupling | scheduler, session manager, event bus, JSON store |
| Send log (`sends.ts`) | timestamps of sends per session | `recent` (prunes), `record`, `restore`, `clear` | — |
| HOLD queue (`delayed-queue.ts`) | stubs per session | `enqueue` (evicts), `rescore` (promotes), `restore`, `clear` | — |
| Decision gate (`decision.ts`) | none | `evaluateGuardrails`, `decide` | — |
| Emotion store (`emotion.ts`) | per session a state and its `updatedAt` | `get` (evolves), `set`, `clear` | — |
| Session manager (`session-manager.ts`) | sessions and messages in memory | `getOrCreate`, `appendMessage` | event bus |
| Runtime, registry, event bus (`core/`, `plugins/`) | `#started`, `#initialized`, the handlers of each topic | `start`, `stop`, `initAll`, `teardownAll`, `on`, `emit`, `send` | scheduler, plugins |
| Scheduler (`scheduler.ts`) | tasks, timers, running names | `registerTask`, `cancelTask`, `start`, `stop`, `#invoke` | event loop |
| JSON store (`storage.ts`) | one file per name | `read`, `write` (temporary file, rename) | file system |
| Bridge (`hermes-bridge/main.ts`, `pidfile.ts`) | the bound port, the requests in service, `sidecar.pid` | boot, recovery from EADDRINUSE, shutdown, `/health`, `/events`, `/trigger`, the callback POST | runtime, plugin, hermes |
| Kernel entry (`index.ts`) | `shuttingDown` | boot without a bridge, shutdown | runtime |
| Configuration (`config/`, `proactive-chat/config.ts`) | none | defaults, environment, file, deprecated aliases, argv, warnings | every component |
| Owner slot (`bridge.py`) | a marker file | `acquire_owner_slot`, `release_owner_slot` | other hermes processes |
| Sidecar supervision (`bridge.py`) | the child process | `start`, `_recover_orphan`, `stop`, health probe | sidecar |
| Callback listener (`bridge.py`) | one serving thread, the socket's backlog | `start`, `stop`, `dispatch`, inject and send adapters | gateway, `hermes send` |
| Session routes (`bridge.py`) | an LRU of routes, the captured session store | `record_session_route`, `resolve_*` | gateway |
| Forwarding (`bridge.py`) | failure count, `skip_until` | `_forward` in each conversation's thread | sidecar's `/events` |
| LLM provider, thought engine, prompts | none | request and text handling | — |

**What is hard, and what correct means.**

- *Heartbeat and plugin.* Guardrails are evaluated once, before the awaits. Between the check and
  the recording of the slot there can be user messages, other saves, teardown, re-initialisation,
  a crash. Correct: counted sends stay a cooldown apart and under both caps whatever happens there;
  a rejected delivery costs no slot, an accepted one does, and the slot is on disk at once or with the
  next write that succeeds; a plugin that was torn down starts nothing; the reentrancy guard is always
  released.
- *HOLD queue.* Correct: one stub per session, so eviction is never needed.
- *Emotion.* Three kinds of readers ask for three different times. Correct: the emotion is a
  function of wall-clock time, messages and assessments, not of who read it when, nor of restarts.
- *Scheduler.* Correct: intervals and registrations agree; runs do not overlap, but in the wake of a
  cancel or stop in a run; no task is blocked.
- *Processes.* Every access to a file may fail, and a failure is swallowed. Correct: one owner per host,
  the pidfile names the server, an orphan is replaced, the snapshot they share is never half written; and
  what a failure costs is no more than it must.
- *Bridge.* A request passes the token check, waits for its body, acts and waits for a heartbeat,
  while signals arrive and plugins or handlers fail. Correct: the check binds the effect; what is
  acknowledged has been handled; plugins are torn down after the last connection; a shutdown ends.
- *Configuration.* Eight layers meet in one record. Correct: the most specific usable value wins,
  falsy ones included; a value that is dropped is warned about, and settings without a warning are sane,
  with the exceptions of section 4.
- *Callback.* A request outlives its abort, and `hermes send`, a process of its own, outlives hermes.
  Correct: outreaches arrive at most once, and in order but for such a process; a failure reported is a
  failure; the delivery handler always settles.
- *Forwarding.* Correct: pauses are bounded, end, and do begin when the sidecar is down.

The full list of hazards, each at its line with the properties that cover it or the reason none
does, is in `PROJECT.json`.

## 2. The modules

| module | models | state and actions |
|---|---|---|
| `ProactiveChat` | heartbeat, plugin lifecycle, send log, HOLD queue, guardrails, snapshot, session manager | Each await of `tick` is a value of `hb.pc` (`assess`, `generate`, `deliver`, `sent`); each stretch of code between two awaits is one action: `VisitSilent`, `VisitVetoed`, `VisitCleared` (to the first await), `Assessed`, `Thought`, `DeliveryFulfilled`, `DeliveryRejected`, `RecordSent`, `FinishHeartbeat`, `AbortHeartbeat`. `Message`, `PluginInit`, `Teardown`, `Crash`, `ClockTick` and `Landed` (the transport reaches the user) interleave at every one of them. `Write` may fail wherever `#save` is called, and `StartFresh` is a `#restore` that cannot read; `forgotten` holds the timestamps such failures lose. |
| `Emotion` | emotion store, coupling, merge, save and restore of the emotion | One session. `entry.at` is `updatedAt`; `Got(t)` is `store.get`. The heartbeat is reduced to its accesses of the store: before its visit, awaiting the assessment, after. |
| `Scheduler` | `scheduler.ts` | One action per method, `Invoke` for an interval that elapses, `Settle` for a run that resolves or throws. `intervals` is what the event loop holds, `timers` what the scheduler knows; `cut` holds the tasks that a cancel or stop caught in a run. |
| `OwnerSlot` | the owner marker | One action per access to the file: `Create`, `Write`, `Read`, `Open`, `Rewrite`, `Confirm`, `Release`, `Remove`, and `FailOpen`, `FailRemove` for those that fail; a read that fails answers as if the marker were blank (`OwnerPid`). `unlinked` holds the processes whose open handle belongs to a marker that has been removed, `exposed` those that a failed access has deprived of the marker's protection. |
| `Sidecar` | boot, takeover and shutdown of sidecars, and their saves | One process state per step of `bootBridge` and of its shutdown; `Recover` is `listenWithStalePidRecovery`, `Probe` is `_recover_orphan`, `Heartbeat` and `EndRuntime` begin a save. Kills and accesses to the pidfile may fail (`Outcomes`); `unnamed` holds the sidecars that serve without an entry. Composes `JsonStore`. |
| `JsonStore` | `JsonStore.write` | One action per file-system call: `OpenTemp`, `Fill`, `Rename`, and `Abandon` for one that throws. A process that has a file open keeps it through renames. |
| `Config` | `config.ts`, `fields.ts`, the plugin's `config.ts`, argv of the bridge | Operators only: `Takes` is what a field's reader accepts; `Loaded`, `Resolved`, `Argued`, `Settings` are the layers, `Warnings` what is warned about. |
| `Runtime` | `runtime.ts`, `registry.ts`, `event-bus.ts` | One action per plugin that is initialised or torn down, each of which may fail; `Emit` reaches the handlers that do not throw. |
| `Bridge` | both entry points, from settings to exit, and the routes | Composes `Config` and `Runtime`. `stage` is where `bootBridge` and its `stop` are, `requests` where each request is: waiting for its body, for its heartbeat, `deserted` by its client (`Disconnect`) while the heartbeat goes on, answered. |
| `Outreach` | what the guardrails promise | Abstract: `Reach(s)` is enabled only if no time `s` was reached before, in the last day, is too close. `ProactiveChat` implements it twice: `Slots` maps `reached` to the slots granted, `Receipts` to the times the user received something. |
| `Delivery` | callback POST, listener, adapters, session routes | `attempt` is the awaited request, `queue` the listener's backlog, `serving` its only thread; `Abort` is the sidecar's timeout, which the listener does not notice; `SendLate` is an `hermes send` that outlived its hermes (`outlived`). |
| `Handover` | what the sidecar may rely on when it delivers | Abstract: no connections, listeners, adapters or clocks, only `Begin`, `Arrive`, `Settle` and `Outlive`. `Delivery` implements it (`HandedOver`), its `begun`, `outcome`, `arrived` and `outlived` being those of `Handover`. |
| `ForwardLatch` | the failure latch of the hooks | One action per access of a thread to the unlocked dictionary; `+= 1` is a read (`Fail`) and a write (`Add`). |

`MC*.tla` instantiate them for TLC. `*_proofs.tla` hold the theorems.

What is abstracted: the score is any value of `Scores`; the LLM's answer is a thought, a skip or a
failure; payloads are model values; sets stand for the arrays of timestamps and stubs, whose order
is never observed (the log is sorted because the clock does not run backwards; a tie between stubs
is left open). Clocks never run backwards and the day has no DST change.

How they fit together: `Bridge` starts and stops the plugins, `ProactiveChat` being one, and its
`/events` and `/trigger` are `Message` and the start of a heartbeat there; `Settings` of `Config` are
the constants of the other modules, which `SettingsPace` relates to their assumptions; the heartbeat of `ProactiveChat` is the task body of `Scheduler`; its
`deliver` await is one `attempt` of `Delivery`, whose outcomes it takes as they come — `late` is an
attempt that was aborted and arrived all the same, `false_ok` an answer 200 for an outreach that
did not; `Emotion` refines what its score is made from; `Crash` is what `Sidecar` does to a process;
`ForwardLatch` decides which `Message`s there are; `OwnerSlot` sees to it that `Sidecar` spawns one
sidecar at a time.

## 3. The runs

| run | instance | shows |
|---|---|---|
| `chat_self` | 1 session, self mode, assessment, teardown, crash, late arrivals, failing writes and reads, clock to 4, cooldown 2, hour 4, day 6 | `TypeOK`, `CooldownKept`, `OneStubHeld`, `SlotsAreDeliveries`, `RecordedIsDurable`, `NoOutreachWhileTorn` with every environment event at every await |
| `chat_lives` | 2 sessions, delegate mode, teardown and re-init, failing writes and reads, fair | `SlotsSurvive` (no slot of the last day is lost in one process, but by a failed last write or a failed read), `HeartbeatEnds` |
| `chat_caps` | 2 symmetric sessions, self mode, one life, failing writes, clock to 6, cooldown 1, hour 2 with cap 1, day 5 with cap 2, quiet hours from 4 | `CapsKept`, `DeliveriesCounted`, and the refinements `SlotsPaced`, `ReceiptsPaced` |
| `chat_restart` | delegate mode, crashes | `SlotsSurvive` **fails**: see finding 1 |
| `emotion_elapsed` | unit 1/10, growth 2, reset 1, clock to 4 | `NeedIsElapsed`, `SavedNeedIsElapsed` |
| `scheduler_runs` | 2 names, 2 bodies, up to 3 runs of a task in flight, every call at every time, fair | `RunsAreFlagged`, `NoLeakedInterval`, `TaskRunsAgain` |
| `owner_exclusive` | 3 processes, one acquisition at a time, crashes, failing creations, reads, writes and removals, reused pids | `OneOwner`, `OwnerIsNamed`, `RefusedForOwner` |
| `owner_race` | 2 processes that acquire at the same time | `OneOwner` **fails**: see finding 2 |
| `sidecar_takeover` | 3 pids; five worlds: Windows with crashes, stops, probes, foreign binders, reused pids; Windows and POSIX with stops and probes; POSIX with stops and probes of sidecars that overlap, and kills and pidfile accesses that fail; POSIX with crashes, stops and saves; fair | `PidfileNamesServer`, `RecoversAnother`, `SnapshotWhole`, `OrphanReplaced` |
| `bridge_serves` | 2 plugins, the first with a handler that throws, 2 requests of every kind, whose clients may leave, both entries; every pair of plugin settings, every garbled section, argv against file, environment against file; fair | `SettingsPreferred`, `RejectedIsWarned`, `SettingsPace`, `InServiceWhileUp`, `AcknowledgedIsHeard`, `OnlyBearersAct`, `ShutdownEnds` |
| `delivery_callback` | 3 sessions, 2 routes, backlog 2, 3 deliveries, abort after one tick, deaths on both sides, fair | `ArriveInOrder`, `FailedNeverArrives`, `LastSeenAreRouted`, the refinement `HandedOver`, `DeliverySettles` |
| `forward_pause` | 3 threads, threshold 2, latch 3, timeout 1, fair | `PauseBounded`, `PauseEnds`, `FailuresPause` |

**Bounds.** `MaxTime` stops the clock. In `chat_caps` it lets a third send follow once the day has slid past the
first, the hour slide past each, and the hourly and the daily cap each bind where the other does not
(a cooldown of its own binds in `chat_self`); in `chat_self` two sends a cooldown apart and a crash between them; in
`emotion_elapsed` a heartbeat that lasts, a save in it and a restart after it. One or two sessions
are enough because sessions meet only in the heartbeat that visits them in turn and in the snapshot
that keeps both. The unit of time is half an hour to an hour: the guardrails only compare spans.
`MaxAttempts` = 3 in `Delivery` leaves one request aborted in service, one in the backlog and one
retry; three `Runs` let an overlap happen and one more follow from it; three hooks with threshold 2 let counts be lost.
Three pids in `Sidecar` are an orphan, its successor, and a third spawned on top of a kill in progress or
to find what the two left; `ServerIsNamed` is proved for any number. In `Bridge` two plugins let one fail before and after the other and
two requests let one keep the server open while the other acts; two fields of the file out of the
ordinary at a time are enough because a setting depends on its own field, its alias, its section and
for one warning a second field; what a process runs with does not depend on settings after its boot
but for the token, so they are dropped from the state then. Texts are told apart by their source and
by being blank, numbers by sign and range. Symmetry
is used only in runs without liveness.

**Fairness.**
- `ProactiveChat!FairSpec` is weak fairness of `HeartbeatStep`: the code between awaits runs, the
  LLM request ends (`requestTimeoutMs`, `AbortSignal.timeout` in `openai-compatible.ts:76`) and so
  does the callback (`CALLBACK_TIMEOUT_MS`, `main.ts:454`). No timer and no trigger is assumed.
- `Scheduler!FairSpec`: intervals elapse and promises settle; that the heartbeat's does is
  `HeartbeatEnds`.
- `Sidecar!FairSpec`: a booting sidecar, whose code is synchronous but for the bind and the kill,
  proceeds; nothing is assumed of shutdowns, kills or probes.
- `Bridge!FairSpec`: the code runs; inits and teardowns settle (the plugin's do not await), the body
  of a request arrives or its connection is cut (Node's request timeout), a triggered heartbeat ends
  (`HeartbeatEnds`). No signal and no request need ever come.
- `Delivery!FairSpec`: the abort timer elapses and fires; nothing is assumed of the listener, whose
  adapters may hang for good.
- `ForwardLatch!FairSpec`: time passes and a thread that has begun a request, which has a timeout,
  goes on; no hook need ever come.

**Preconditions worth knowing.** Some properties hold only where a run says so, and the hazards name
each case:

- `DeliveriesCounted` within one life and with an honest transport: a teardown at the `deliver` await
  leaves an outreach without a slot.
- `SlotsPaced` and `ReceiptsPaced` in self mode and one life: delegate mode stamps its slot with the start
  of the heartbeat, so that a slot may enter the log behind the clock.
- `SlotsSurvive` in one process, but for the slots that a failed last write or a failed read loses;
  `RecordedIsDurable` with the next write that succeeds; `CooldownKept` and `CapsKept` of the slots of the
  last day that have not been so lost.
- `SlotsAreDeliveries` without false answers.
- `RunsAreFlagged` allows an overlap from a cancel or stop that catches a task in a run until none of its
  runs is in flight.
- `OneOwner` and `OwnerIsNamed` of the processes that no failed access has exposed; `RefusedForOwner` also
  allows a process that could not remove its marker.
- `PidfileNamesServer` but for a sidecar that could not write it or whose entry another one's shutdown
  removed; `RecoversAnother` without reused pids; `OrphanReplaced` where nothing crashes or fails; with a
  plugin that probes, the new sidecar may give up a port that the plugin's own kill has freed.
- `SnapshotWhole` but for saves that met another one's.
- `InServiceWhileUp` while the client is connected.
- `ArriveInOrder` but for an `hermes send` that outlived hermes.
- `SettingsPreferred`, `RejectedIsWarned`, `SettingsPace` but for what section 4 says of settings.

Each of these conditions is written in the property or is the run's constants.

`SlotsAreDeliveries` is an action property and not a count: the number of slots may exceed that of the
deliveries the model tells apart when a cooldown of zero lets two outreaches of one instant through,
which the history identifies. `SnapshotWhole` excuses the saves that *met* another one, and a save has met
another one as soon as a process is anywhere between its open and its rename, also when that process
still writes to a file renamed under it.

## 4. Findings

1. *Slots do not survive two restarts* (`chat_restart`, `index.ts:364`). Sessions live in memory and
   `#save` drops those the session manager does not know. After a restart, a save triggered by one
   session drops the timestamps of every session that has not had an event yet; a second restart
   then loses its cooldown and caps, which the README says survive.
2. *Two hermes processes can own the stack* (`owner_race`, `bridge.py:305`). Between the creation of
   the marker with `O_EXCL` and the write of the pid the marker is blank; a process that reads it
   then finds no owner and takes over.

Observed while modelling, but not kept as runs:

- The environment's `LLM_REQUEST_TIMEOUT_MS` is lost when the file's `llm` section or its timeout is
  garbled (`config.ts:271` falls back to the built-in one); every other field falls back to its own
  default.
- A deprecated alias is used also when its replacement is present but invalid; the comments at
  `proactive-chat/config.ts:110-112` and `206-208` and `proactive-chat/README.md` say "only when the
  replacement is absent". `SettingsPreferred` leaves such settings open (`Disputed`).
- A section of the plugin that is no object is dropped without a warning, with all that it holds, and so is
  a `proactiveChat` that is none: `config.ts:249` puts an empty object in its place before the plugin's own
  check (`proactive-chat/config.ts:217`) sees it. The plugin's README says that malformed fields are reported. A blank
  persona and bad time windows are dropped in silence, too.
- A cooldown longer than a day is accepted without a warning and binds for a day only, since the log
  forgets what is older.
- "Overlapping runs are skipped" (`scheduler.ts:7`, `14-15`) holds unless the task is cancelled or the
  scheduler stopped during a run; the plugin's own guard (`index.ts:261`) keeps its heartbeats apart all the
  same.
- A snapshot that cannot be written is a warning, and one that cannot be read counts as none
  (`index.ts:301-307`, `382-384`): slots may be lost with it.
- "A live owner is never dislodged" (`bridge.py:289-290`) holds unless its marker cannot be read: then it
  counts as blank. A marker that cannot be removed locks the others out while its process lives.
- `server.close` waits for connections only: the heartbeat of a `/trigger` whose client has left may be torn
  down in its course.
- An `hermes send` goes on when its hermes dies, and may arrive after its retry.
- `POST /trigger` answers 202 also when the reentrancy guard dropped the heartbeat.
- "`write` is atomic" (`storage.ts:61`) holds for one process; two that save at once share one
  temporary file and may leave a torn snapshot, until the next save.
- A user's message during the awaits does not stop the outreach (the activity guardrail is not
  evaluated again); the plugin's own sends refresh `lastActivityAt`.
- A heartbeat suspended by a teardown is not stopped if the plugin is initialised again.
- A failed boot saves the snapshot of a process that has seen nothing; a sidecar restores its
  snapshot before it kills the orphan that may still write it.
- A 200 of the listener does not mean that anything was sent.
- A heartbeat that keeps a session waiting reads its emotion for a time that is over, and the time in
  between counts twice or not at all — `NeedIsElapsed` bounds that error by the time such heartbeats
  lasted, and is not true without the bound.

## 5. What is proved

Every safety property the runs check is a theorem, for every value of the constants that satisfies the
named assumptions; the runs are where it was found out to hold, and the instances that its mutants break.

| theorem | statement | for every |
|---|---|---|
| `ProactiveChat_proofs!TypeCorrect` | `[]TypeOK` | configuration, mode, set of sessions and of events |
| `TornStartsNothing`, `OneStubAlways`, `RecordedAlwaysDurable` | `NoOutreachWhileTorn`; `[]OneStubHeld`; `RecordedIsDurable` | the same |
| `SlotsAlwaysDeliveries` | `SlotsAreDeliveries` without the event `false_ok` | the same |
| `CooldownAlwaysKept`, `CapsAlwaysKept` | `[]CooldownKept`; `[]CapsKept` | the same |
| `SlotsAlwaysSurvive` | `[]SlotsSurvive` if no process dies and the plugin is torn down in delegate mode only, with persistence (`OneProcess`) | the same |
| `SlotsRefine` | `SlotsPaced`, that is `Outreach!Spec` of the slots, in self mode under `OneProcess` | the same |
| `DeliveriesAlwaysCounted`, `ReceiptsRefine` | `[]DeliveriesCounted`; `ReceiptsPaced`, that is `Outreach!Spec` of what users receive; in self mode without teardown, crash and late arrivals (`OneLife`; false answers and failures of the storage may occur) | the same |
| `Emotion_proofs!TypeCorrect`, `NeedAlwaysElapsed`, `SavedNeedAlwaysElapsed` | `[]TypeOK`; `[]NeedIsElapsed`; `[]SavedNeedIsElapsed` | growth, reset, unit, length of a run |
| `Sidecar_proofs!ServerIsNamed`, `NeverRecoversItself`, `SnapshotAlwaysWhole` | `[]PidfileNamesServer`; `[]RecoversAnother`; `[]SnapshotWhole` | processes, worlds |
| `Delivery_proofs!ArrivalsInOrder`, `FailedStaysAway` | `[]ArriveInOrder`; `[]FailedNeverArrives` | deliveries, backlog, timeout, sessions |
| `Delivery_proofs!TransportRefines` | `HandedOver`, that is `Handover!Spec` | deliveries, backlog, timeout, sessions |
| `Delivery_proofs!LastSeenAlwaysRouted` | `[]LastSeenAreRouted` | sessions, `MAX_SESSION_ROUTES` |
| `Bridge_proofs!TypeCorrect`, `ServedWhileUp`, `Acknowledged`, `BearersAlone` | `[]TypeOK`; `[]InServiceWhileUp`; `AcknowledgedIsHeard`; `OnlyBearersAct` | plugins, requests, inputs |
| `Bridge_proofs!SettingsAlwaysPreferred`, `RejectedAlwaysWarned`, `SettingsAlwaysPace` | `[]SettingsPreferred`; `[]RejectedIsWarned`; `[]SettingsPace` | environment, file and argv |
| `Scheduler_proofs!IntervalsNeverLeak`, `RunsAlwaysFlagged` | `[]NoLeakedInterval`; `[]RunsAreFlagged` | tasks, bodies, runs |
| `OwnerSlot_proofs!SlotIsExclusive`, `OwnerAlwaysNamed`, `RefusedForOwnerOnly` | `[]OneOwner`; `[]OwnerIsNamed`; `RefusedForOwner`; if acquisitions do not overlap | processes, crashes, failing accesses |
| `ForwardLatch_proofs!PausesAreBounded` | `[]PauseBounded` | threads, thresholds, latches and timeouts below the latch |
| `ProactiveChat_proofs!HeartbeatShortens`, `Bridge_proofs!ShutdownAdvances`, `ForwardLatch_proofs!PausesRunOut` | `NothingProlongs`; `[]TeardownGoesOn` and `NeverBack`; `PauseRunsOut`: what the liveness properties rest on beside fairness | configuration; plugins and requests; threads |

*Pacing.* `CooldownKept` is not inductive: a suspended tick passed the guardrails some time ago and
will record a slot without looking again. `PacingInv` adds what makes that safe: as long as a tick is
suspended, its session's log **and the part of the snapshot a re-initialisation would bring back**
would still pass the guardrails at the tick's own time (`TickPaced`), no logged time is ahead of the
clock, a running plugin counts whatever the snapshot still counts (`LogsKept`), and the snapshot is
paced itself (`DiskKept`). All that is said of the timestamps that *count*: one that a failed write or read
has lost could not be checked against, and may come back when a later read succeeds (`Counting`). The second half of `TickPaced` is what survives teardown and `init` at an
await. The caps need that recording a time no earlier than every logged one leaves the windows of
the earlier ones unchanged. Assumption: `ConfigAssumption` (natural numbers; an hour is no longer than the
day the log keeps; a cooldown may be).

*Stubs, recording, deliveries.* `OneStubHeld` needs to know what a tick carries across its awaits:
`TickInv` adds that it carries no extras and belongs to a live process and a session it knows. With it,
a step that records a slot is one that saves, with the log it has just written, or marks the snapshot as
`behind` until a write succeeds (`CatchingUp`). `Received` says that
the outreach of a tick that has landed or was sent is among those received at the tick's time; only a
false answer grants a slot without.

*Slots.* `Outreach` counts all slots ever granted, the plugin only those its log still holds.
`SlotsInv` bridges them: what still counts is in the log of a plugin that is up and in the snapshot of
one that is torn down, or was lost by a failed last write or read (`Counted`); a session with a slot, or with a tick in flight, is one the session
manager knows, so that no save drops it (`Reachable`); and in delegate mode no slot is recorded by a
tick whose plugin is gone (`Delegating`). With `PacingInv` a grant is then a `Reach` — in self mode
the slot is stamped with the clock — and every other step a `Pass` or a stutter.

*Receipts.* What a user receives comes before its slot. `Ledger` keeps the account: since any time, a
session has received no more outreaches than it was granted slots, but for the one whose slot is due.
The `since any time` is what makes it both inductive and strong enough: `DeliveriesCounted` is the
account since the beginning, and the account of every window says that a receipt finds as few receipts
in the hour, in the day and in the cooldown before it as its guardrails found slots.

*Emotion.* A heartbeat that keeps a session waiting reads the need for a time that is over, so what an
entry says may run ahead of or behind what has elapsed. `NeedInv` bounds the two directions
separately: downwards by `Start`, the lag when the waiting heartbeat began, and upwards by `High`, which
is the same until the session is visited and the whole lag from then on, because an entry that was read
for the start counts the time since twice. `NeedIsElapsed` alone, with one bound for both, is not
inductive: an assessment stores, under the time it arrives, the need evolved back to the heartbeat's
start, and the time it so drops stays within the bound only because no more than `Start` was lost
before. The same holds of the saved entry.

*Sidecars.* `NameInv` adds to the two properties who holds the port (`PortOwned`), which is what keeps
one sidecar from writing over the entry of another that serves; a removal or a failed write that takes an
entry away is remembered (`unnamed`); and without reused pids the pidfile never names a process that still
boots (`NamesOld`). `SnapInv` is the argument for the snapshot:
two processes in the middle of a save have met; a process that has met no other has the temporary file
to itself, empty or whole as its own step says; and a snapshot that no such save has spoilt is whole
and open nowhere.

*Delivery.* `OrderInv` follows a request from its connection to its arrival: numbers increase from what
has arrived over what is served to what waits; the awaited delivery is the last one begun, is nowhere
before it is connected, and has arrived only while its own answer is still to come; a failed one is
nowhere. What an `hermes send` without a parent still sends is older than all that is handed over, and
nobody waits for it any more (`Outliving`). That a failed delivery is nowhere is why neither a refusal nor a closed listener reports a failure for what has
arrived. `RouteInv` says that the routes are the end of the sequence of sessions seen: to forget
the oldest before a session is put last is to forget them after (`NewestMoved`). That the transport
implements `Handover` needs how deliveries end (`Settlement`): only the one awaited, and those not yet
begun, are unsettled, so that one settles before the next begins; and what is still on its way is
awaited or nobody knows its end, so that nothing arrives after it was fulfilled or failed. Every step is then a `Begin`, an
`Arrive`, a `Settle`, an `Outlive` or a stutter, and no step is two of them.

*Bridge.* `InServiceWhileUp` is not inductive without where the bridge is when connections are
open (`Served`), which plugins may be down at which stage (`Staged`), and that a message is not
heard before its request is handled (`Unheard`). `OnlyBearersAct` relates two times: the token is
checked when the request comes and the effect follows after its body; `Bearing` says that meanwhile
the token is that of the launch and the request bore it. The settings are proved of the layers
themselves, field by field, from one lemma per layer (`LoadedValue`, `ResolvedValue`), and `Chosen` says
that a configured process runs with them. Assumptions: at least one plugin; the faulty ones are plugins;
`RawAssumption` (a missing and a garbled value are no value of any reader); `BridgeAssumption` (the shape of the inputs).

*Scheduler.* `timers` names every interval the event loop holds, one per name at most; then clearing
by `timers` clears them all; a task is out of `cut` only with a run, if any, that holds its flag.
*Owner slot.* A marker that names a live process is never taken by one that can read it, the marker names
whoever holds the slot and has not been exposed, and a process between two accesses has seen a marker that
still cannot name anybody else; what a removal unlinks is exposed by the read that failed before it. *Latch.* A thread at `check` holds a time no older than its request, so a pause that is
extended is extended from a time before it began at the latest.

*Towards liveness.* Three of the liveness properties have their argument proved but for fairness: a
variant that every step of the process's own lowers and nothing else raises. For a heartbeat it is the
sessions still to visit and then the await the tick is at (`Nearer`); that a message may make new sessions
meanwhile does not matter, because the heartbeat walks those it found. For a shutdown it is the stage, the
requests and the plugins that are up (`NothingBack`, `SomethingOn`), and `TeardownGoesOn` adds that the loop
over the plugins is never without a next one, whichever failed to initialise: the last that is up, which
there is because every set of natural numbers has a least one (`LeastNat`, from the library's theorem on
well-founded relations). For a pause it is what the threads have still to do and then the time left
(`NoneLater`, `SomeSooner`): a thread may put the end of a pause off, but is done with it soon.

Only model-checked, because neither fairness nor `ENABLED` is within reach of the prover: the liveness
properties `HeartbeatEnds`, `TaskRunsAgain`, `OrphanReplaced`, `ShutdownEnds`, `DeliverySettles`,
`PauseEnds` and `FailuresPause`. The two properties that fail (section 4) fail by a counterexample of TLC.

Some definitions were put in a form the prover can reason about without a change of what they
say: a request leaves the backlog, and a route its place, by its position (`RemoveAt`) rather than by
`SelectSeq`; the order of preference of `SettingsPreferred` takes the built-in value as its last resort.
The warning about the persona was corrected on the way: it is for anything that is no text.

## 6. Not modelled

Prompts, the text of directives and answers, the LLM provider's request (its outcomes are choices),
logging and log pumping, `decision.timeWindows`, `config.enabled = false` (the heartbeat returns at
once), malformed snapshots (dropped field by field), the pruning of pristine emotions from the
snapshot (no entry is pristine once its user has written), the exponential decay of valence and
arousal, a clock set back, `EventBus.once` and `clear`, `SessionManager.create`, `remove` and
metadata (no caller in the kernel), heartbeats of a sidecar that has not bound its port yet, failures of
the storage in `Emotion` (what a lost snapshot costs is said in `ProactiveChat`, of slots), a health probe that
answers late.

## 7. Plan

Done, in this order: `ProactiveChat` and its proofs, `Scheduler`, `OwnerSlot`, `Sidecar`, `Delivery`,
`ForwardLatch`, `Emotion`; then `Config`, `Runtime` and `Bridge` with its proofs, `JsonStore` composed
with `Sidecar`, `Outreach` with the refinement of `ProactiveChat` checked and proved; then the proofs of
all safety properties the runs check; then `Handover` with the refinement of `Delivery`, and the variants
under three of the liveness properties.

What is left:
1. Composition of `Delivery` with the heartbeat's slots: what a slot says about an arrival. `Handover` is
   the interface such a module would take from `Delivery`.
2. A variant under `OrphanReplaced`, where processes spawn each other. (`DeliverySettles` needs none
   beside the timer, which only its own delivery ends; `TaskRunsAgain` rests on `RunsAreFlagged`.)

An abstract lock for `OwnerSlot` to implement was considered and dropped: it would say no more than
`OneOwner`.
