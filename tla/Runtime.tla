------------------------------- MODULE Runtime -------------------------------
(***************************************************************************)
(* HermesRuntime with its plugin registry and event bus.  Plugins are      *)
(* numbered in the order of their registration, which is that of their     *)
(* initialisation and subscription; each may fail without the others.      *)
(* The actions are called by the entry points, module Bridge.              *)
(***************************************************************************)
EXTENDS Integers

CONSTANTS
    N,          \* number of plugins
    Messages,
    Faulty      \* plugins whose handler of message:appended throws

Plugins == 1 .. N

ASSUME PluginsAssumption == N \in Nat \ {0} /\ Faulty \subseteq Plugins

VARIABLES
    started,    \* #started: the scheduler ticks, too
    plugins,    \* "new", or "failed", "up", "down" after an init or a teardown
    heard       \* history: the messages each plugin has handled

runtime == <<started, plugins, heard>>

RuntimeInit ==
    /\ started = FALSE
    /\ plugins = [i \in Plugins |-> "new"]
    /\ heard = [i \in Plugins |-> {}]

Start ==
    /\ started' = TRUE
    /\ UNCHANGED <<plugins, heard>>

\* The next plugin of initAll, whose init resolves or throws.
InitPlugin(i) ==
    /\ plugins[i] = "new" /\ \A j \in 1 .. i - 1 : plugins[j] # "new"
    /\ plugins' \in {[plugins EXCEPT ![i] = "up"], [plugins EXCEPT ![i] = "failed"]}
    /\ UNCHANGED <<started, heard>>

InitDone == \A i \in Plugins : plugins[i] # "new"

\* Mutant of NextDown: it waits for a later plugin whose init has failed.
NextDownAfterDown(i) == plugins[i] = "up" /\ \A j \in i + 1 .. N : plugins[j] = "down"
NextDown(i) == plugins[i] = "up" /\ \A j \in i + 1 .. N : plugins[j] # "up"

\* The next plugin of teardownAll.  Whether its teardown resolves or throws, the
\* loop goes on.
TeardownPlugin(i) ==
    /\ NextDown(i)
    /\ plugins' = [plugins EXCEPT ![i] = "down"]
    /\ UNCHANGED <<started, heard>>

TeardownDone == \A i \in Plugins : plugins[i] # "up"

Stop ==
    /\ TeardownDone
    /\ started' = FALSE
    /\ UNCHANGED <<plugins, heard>>

\* A plugin subscribes in its init and unsubscribes in its teardown.
Subscribed(i) == plugins[i] = "up"

\* emit('message:appended'): a handler that throws does not keep the message from
\* the others.  Mutant: it does, from those after it.
EmitUntilThrow(m) ==
    heard' = [i \in Plugins |-> IF Subscribed(i) /\ ~\E j \in 1 .. i : Subscribed(j) /\ j \in Faulty
                                THEN heard[i] \cup {m} ELSE heard[i]]
Emit(m) ==
    heard' = [i \in Plugins |-> IF Subscribed(i) /\ i \notin Faulty THEN heard[i] \cup {m} ELSE heard[i]]
=============================================================================
