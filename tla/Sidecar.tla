------------------------------- MODULE Sidecar -------------------------------
(***************************************************************************)
(* Boot, takeover and shutdown of the sidecar processes that share a data  *)
(* directory: the single-bind port, the pidfile, and the two recoveries    *)
(* from an orphan, the sidecar's own (EADDRINUSE) and that of the hermes   *)
(* plugin which spawned it (failed health probe); and their saves of the   *)
(* snapshot they share.                                                    *)
(***************************************************************************)
EXTENDS JsonStore

CONSTANT
    Worlds      \* pairs [windows, events]

\* What may happen in a world.
EventKinds == {"crash",     \* a sidecar dies
               "stop",      \* a serving sidecar is asked to stop
               "probe",     \* sidecars are spawned by a plugin, or by hand
               "reuse",     \* a pid comes back
               "foreign",   \* another program binds the port
               "overlap",   \* sidecars boot and stop next to one another
               "fails",     \* a kill, or an access to the pidfile, fails
               "persist"}   \* persistence is enabled

Free == "free"
Foreign == "foreign"
NoPid == "none"

ASSUME PidsAssumption ==
    /\ {Free, Foreign, NoPid} \cap Pids = {}
    /\ Worlds \subseteq [windows : BOOLEAN, events : SUBSET EventKinds]

VARIABLES
    world,      \* of Worlds; windows is os.name == "nt": the plugin's kill is immediate
    pc,         \* where each process is in its boot or shutdown
    port,       \* who has the port bound
    pidfile,    \* sidecar.pid
    used,       \* history: pids that have been used
    probing,    \* sidecars whose plugin has yet to probe them
    doomed,     \* processes the plugin has sent SIGTERM and will SIGKILL
    unnamed     \* history: sidecars that could not write the pidfile, or whose
                \* entry the shutdown of another one removed

plugin == <<probing, doomed>>
rest == <<used, plugin, unnamed>>
vars == <<pc, port, pidfile, rest, store, world>>

Booting == {"init", "listen", "busy", "wait", "abort", "exit", "bound"}
Stopping == {"closing", "stopping", "removing"}
States == Booting \cup Stopping \cup {"gone", "up", "bystander"}

Alive(p) == pc[p] # "gone"
Goto(p, where) == pc' = [pc EXCEPT ![p] = where]
Running(p) == pc[p] \notin {"gone", "bystander"}
Saving(p) == saving[p] # "idle"
PortWithout(p) == IF port = p THEN Free ELSE port
Outcomes == IF "fails" \in world.events THEN BOOLEAN ELSE {TRUE}

\* A pid read from the pidfile is only checked for being alive.
NamesLive == pidfile \in Pids /\ Alive(pidfile)

-----------------------------------------------------------------------------
(* Boot. *)

\* A plugin that owns the slot awaits the boot and the shutdown of its sidecar.
\* Sidecars started by hand, by plugins that failed open, or after a plugin died
\* overlap.
Calm == \A q \in Pids : pc[q] \notin Booting \cup Stopping
Spawn(p) ==
    /\ pc[p] = "gone" /\ (p \in used => "reuse" \in world.events)
    /\ "overlap" \in world.events \/ (Calm /\ probing = {} /\ doomed = {})
    /\ Goto(p, "init")
    /\ used' = used \cup {p}
    /\ unnamed' = unnamed \ {p}
    /\ probing' \in {probing} \cup IF "probe" \in world.events THEN {probing \cup {p}} ELSE {}
    /\ saving' = [saving EXCEPT ![p] = "idle"]
    /\ UNCHANGED <<port, pidfile, doomed, temp, snapshot, raced, spoilt>>

\* runtime.start, long before the port is bound.  Mutant: the pidfile is written
\* at once.
StartWritingPid(p) ==
    /\ pc[p] = "init"
    /\ pidfile' = p
    /\ Goto(p, "listen")
    /\ UNCHANGED <<port, rest>>
StartRuntime(p) ==
    /\ pc[p] = "init"
    /\ Goto(p, "listen")
    /\ UNCHANGED <<port, pidfile, rest>>

Bind(p, otherwise) ==
    IF port = Free THEN port' = p /\ Goto(p, "bound")
                   ELSE UNCHANGED port /\ Goto(p, otherwise)

Listen(p) ==
    /\ pc[p] = "listen"
    /\ Bind(p, "busy")
    /\ UNCHANGED <<pidfile, rest>>

\* EADDRINUSE: kill the live process the pidfile names, which may fail, or give up.
\* Mutant: it gives up at once.
GiveUp(p) ==
    /\ pc[p] = "busy"
    /\ Goto(p, "abort")
    /\ UNCHANGED <<port, pidfile, rest>>
Recover(p) ==
    /\ pc[p] = "busy"
    /\ IF NamesLive
       THEN \E killed \in Outcomes :
               IF killed
               THEN /\ pc' = [q \in Pids |-> CASE q = pidfile -> "gone" [] q = p -> "wait"
                                               [] OTHER -> pc[q]]
                    /\ port' = PortWithout(pidfile)
                    /\ doomed' = doomed \ {pidfile}
               ELSE Goto(p, "wait") /\ UNCHANGED <<port, doomed>>
       ELSE Goto(p, "abort") /\ UNCHANGED <<port, doomed>>
    /\ UNCHANGED <<pidfile, used, probing, unnamed>>

Retry(p) ==
    /\ pc[p] = "wait"
    /\ Bind(p, "abort")
    /\ UNCHANGED <<pidfile, rest>>

\* The runtime is stopped, which saves.
EndRuntime(p, then) ==
    /\ Goto(p, then)
    /\ IF "persist" \in world.events THEN BeginSave(p) ELSE UNCHANGED store
    /\ UNCHANGED <<port, pidfile, rest>>

\* The bind failed for good: the runtime is stopped and the process exits.
Abort(p) == pc[p] = "abort" /\ EndRuntime(p, "exit")
\* Mutant of Exit: it cleans the pidfile up.
ExitRemovingPid(p) ==
    /\ pc[p] = "exit" /\ ~Saving(p)
    /\ Goto(p, "gone")
    /\ pidfile' = NoPid
    /\ UNCHANGED <<port, rest>>
Exit(p) ==
    /\ pc[p] = "exit" /\ ~Saving(p)
    /\ Goto(p, "gone")
    /\ UNCHANGED <<port, pidfile, rest>>

\* A write that fails is logged and may have emptied the file; the sidecar serves.
WritePid(p) ==
    /\ pc[p] = "bound"
    /\ Goto(p, "up")
    /\ \E written \in Outcomes :
         IF written THEN pidfile' = p /\ UNCHANGED unnamed
                    ELSE pidfile' \in {pidfile, NoPid} /\ unnamed' = unnamed \cup {p}
    /\ UNCHANGED <<port, used, plugin>>

-----------------------------------------------------------------------------
(* Shutdown: server.close, runtime.stop, removePidFile. *)

\* The save of a heartbeat; none is due while a sidecar boots.  One may be until
\* the runtime is stopped.
Heartbeat(p) ==
    /\ "persist" \in world.events /\ pc[p] \in {"up", "closing", "stopping"} /\ ~Saving(p)
    /\ BeginSave(p)
    /\ UNCHANGED <<pc, port, pidfile, rest>>

\* A save is synchronous: until it is over a process does nothing else.
Save(p) ==
    /\ Running(p)
    /\ SaveStep(p, {q \in Pids : Running(q)})
    /\ UNCHANGED <<pc, port, pidfile, rest>>

\* What SIGTERM does: the handlers are registered once the pidfile is written.
Signalled(p) == CASE pc[p] = "up" -> "closing"
                  [] pc[p] \in Stopping -> pc[p]
                  [] OTHER -> "gone"

Stop(p) ==
    /\ "stop" \in world.events /\ pc[p] = "up"
    /\ "overlap" \in world.events \/ Calm
    /\ Goto(p, Signalled(p))
    /\ UNCHANGED <<port, pidfile, rest>>

\* The signal is handled: server.close frees the port at once, and has the runtime
\* wait for the connections that are open.
Close(p) ==
    /\ pc[p] = "closing" /\ ~Saving(p)
    /\ port' = PortWithout(p)
    /\ Goto(p, "stopping")
    /\ UNCHANGED <<pidfile, rest>>

StopRuntime(p) == pc[p] = "stopping" /\ ~Saving(p) /\ EndRuntime(p, "removing")

\* Whoever the pidfile names by then; a failure is swallowed.
RemovePid(p) ==
    /\ pc[p] = "removing" /\ ~Saving(p)
    /\ \E removed \in Outcomes :
         IF removed THEN pidfile' = NoPid /\ unnamed' = unnamed \cup ({pidfile} \ {p, NoPid})
                    ELSE UNCHANGED <<pidfile, unnamed>>
    /\ Goto(p, "gone")
    /\ doomed' = doomed \ {p}
    /\ UNCHANGED <<port, used, probing>>

-----------------------------------------------------------------------------
(* The plugin's recovery, and the environment. *)

\* The probe demands the nonce of this very boot.
Healthy(p) == pc[p] = "up"

\* SidecarProcess.start probes right after the spawn; a sidecar that does not
\* serve yet is unhealthy, and whoever else the pidfile names is killed.
Probe(p) ==
    /\ p \in probing
    /\ probing' = probing \ {p}
    /\ \E killed \in Outcomes :
         IF killed /\ ~Healthy(p) /\ NamesLive /\ pidfile # p
         THEN LET q == pidfile IN
              IF world.windows \/ Signalled(q) = "gone"
              THEN Goto(q, "gone") /\ port' = PortWithout(q) /\ UNCHANGED doomed
              ELSE Goto(q, Signalled(q)) /\ doomed' = doomed \cup {q} /\ UNCHANGED port
         ELSE UNCHANGED <<pc, port, doomed>>
    /\ UNCHANGED <<pidfile, used, unnamed>>

Die(p) ==
    /\ Goto(p, "gone")
    /\ port' = PortWithout(p)
    /\ doomed' = doomed \ {p}
    /\ UNCHANGED <<pidfile, used, probing, unnamed>>

SigKill(p) == p \in doomed /\ Die(p)
Crash(p) == "crash" \in world.events /\ pc[p] \in Booting \cup {"up"} \cup Stopping /\ Die(p)

\* An unrelated process gets the pid of a sidecar that is gone.
Reuse(p) ==
    /\ "reuse" \in world.events /\ pc[p] = "gone" /\ p \in used
    /\ Goto(p, "bystander")
    /\ UNCHANGED <<port, pidfile, rest>>

ForeignBind ==
    /\ "foreign" \in world.events
    /\ port' \in {Free, Foreign} \ {port} /\ port \in {Free, Foreign}
    /\ UNCHANGED <<pc, pidfile, rest>>

Init ==
    /\ world \in Worlds
    /\ pc = [p \in Pids |-> "gone"] /\ port = Free /\ pidfile = NoPid
    /\ used = {} /\ probing = {} /\ doomed = {} /\ unnamed = {}
    /\ StoreInit

\* What a sidecar that is booting does by itself, and other processes.
Boot(p) ==
    \/ Abort(p) \/ (pc[p] \in Booting /\ Save(p))
    \/ /\ StartRuntime(p) \/ Listen(p) \/ Recover(p) \/ Retry(p) \/ Exit(p) \/ WritePid(p)
       /\ UNCHANGED store
Other(p) ==
    \/ Stop(p) \/ Close(p) \/ RemovePid(p)
    \/ Probe(p) \/ SigKill(p) \/ Crash(p) \/ Reuse(p)

Next ==
    /\ \/ \E p \in Pids : Spawn(p) \/ Boot(p) \/ Heartbeat(p) \/ Save(p) \/ StopRuntime(p)
       \/ (ForeignBind \/ \E p \in Pids : Other(p)) /\ UNCHANGED store
    /\ UNCHANGED world

Spec == Init /\ [][Next]_vars

\* A booting sidecar that is left alone gets on with its boot.
FairSpec == Spec /\ \A p \in Pids : WF_vars(Boot(p) /\ UNCHANGED world)

-----------------------------------------------------------------------------

\* Every variable keeps its type.
TypeOK ==
    /\ pc \in [Pids -> States]
    /\ port \in Pids \cup {Free, Foreign} /\ pidfile \in Pids \cup {NoPid}
    /\ used \subseteq Pids /\ probing \subseteq Pids /\ doomed \subseteq Pids
    /\ unnamed \subseteq Pids
    /\ saving \in [Pids -> {"idle", "begin", "closed"} \cup Open]
    /\ temp \in Contents /\ snapshot \in Contents
    /\ raced \subseteq Pids /\ spoilt \in BOOLEAN

\* The pidfile names the sidecar that serves, so that the next boot can reap it,
\* unless writing it failed or another sidecar's shutdown removed the entry: no boot
\* that fails, crash, kill or reused pid takes it away.
PidfileNamesServer == \A p \in Pids : pc[p] = "up" => pidfile = p \/ p \in unnamed

\* The recovery read never observes the recovering process's own pid, which it
\* would kill, unless that pid is one that comes back.
RecoversAnother ==
    "reuse" \notin world.events => \A p \in Pids : pc[p] = "busy" => pidfile # p

\* A sidecar spawned next to an orphan that serves and is named takes the port over,
\* where nothing crashes or fails and nobody else wants the port; or its plugin's own
\* kill, between its EADDRINUSE and its look at the pidfile, has it give up a port
\* that is free by then.  It never leaves the orphan in place.
OrphanReplaced ==
    \A p, q \in Pids :
        /\ world.events \cap {"crash", "foreign", "reuse", "overlap", "fails"} = {}
        /\ pc[p] = "init" /\ port = q /\ pidfile = q /\ pc[q] = "up"
        ~> port = p \/ ("probe" \in world.events /\ pc[p] = "abort" /\ port = Free)
=============================================================================
