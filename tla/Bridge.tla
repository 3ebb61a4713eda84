------------------------------- MODULE Bridge -------------------------------
(***************************************************************************)
(* The life of a process: the bridge entry (hermes-bridge/main.ts), from   *)
(* its settings to its exit, with the requests it serves; or the plain     *)
(* kernel entry (index.ts), which serves none.  Binding the port next to   *)
(* other sidecars and the pidfile are module Sidecar.                      *)
(***************************************************************************)
EXTENDS Runtime, Config

CONSTANTS
    Entries,    \* of {"bridge", "kernel"}
    Inputs,     \* environments, files and argvs
    None        \* no settings, no call

Calls ==
    [route : {"health", "user", "agent", "invalid", "trigger", "unknown"},
     bearer : {"", "file", "argv"},     \* the token it bears, if any
     json : BOOLEAN,
     size : {"small", "declared", "streamed"}]  \* or too large, as declared or as read

ASSUME BridgeAssumption ==
    /\ Entries \subseteq {"bridge", "kernel"}
    /\ \A in \in Inputs : /\ in.file.kind \in {"missing", "malformed", "object"}
                          /\ in.file.kind # "object" => in.file.junk = {}

VARIABLES
    entry, input,
    stage,      \* of Stages
    settings,   \* what is in force, and warned: what was warned about,
    warned,     \*   until the plugins are initialised
    token,      \* the bridge's token
    launch,     \* history: the token passed by the launcher, if any
    requests    \* each Message is what one request may bring

boot == <<entry, input, settings, warned, token, launch>>
vars == <<boot, stage, requests, runtime>>

Stages == {"load", "starting", "listen", "serving", "closing", "stopping", "done", "failed"}
Statuses == {200, 202, 400, 401, 404, 413, 415, 500}
Request == [pc : {"none", "body", "trigger", "deserted", "done"}, call : Calls \cup {None}, answer : {0} \cup Statuses]
Unasked == [pc |-> "none", call |-> None, answer |-> 0]
Answered(status) == [pc |-> "done", call |-> None, answer |-> status]

-----------------------------------------------------------------------------
(* Boot. *)

\* From the entry to the first await of runtime.start, in one go.
Load ==
    /\ stage = "load"
    /\ IF Refuses(entry, input)
       THEN stage' = "failed" /\ UNCHANGED <<settings, warned, token, launch, runtime>>
       ELSE /\ stage' = "starting"
            /\ settings' = Settings(entry, input)
            /\ warned' = Warnings(entry, input)
            /\ token' = settings'[<<"hermesBridge", "token">>]
            /\ launch' = input.argv[<<"hermesBridge", "token">>]
            /\ Start
    /\ UNCHANGED <<entry, input, requests>>

\* runtime.start initialises the plugins.  Of the settings only the token is read
\* again, so they are dropped.
Initialise(i) ==
    /\ stage = "starting"
    /\ InitPlugin(i)
    /\ input' = None /\ settings' = None /\ warned' = {}
    /\ UNCHANGED <<entry, token, launch, stage, requests>>

Started ==
    /\ stage = "starting" /\ InitDone
    /\ stage' = IF entry = "bridge" THEN "listen" ELSE "serving"
    /\ UNCHANGED <<boot, requests, runtime>>

\* The port is bound, or the runtime is stopped and the process fails.
Listen ==
    /\ stage = "listen"
    /\ stage' \in {"serving", "stopping"}
    /\ UNCHANGED <<boot, requests, runtime>>

-----------------------------------------------------------------------------
(* Requests. *)

\* Mutant of IsAuthorized: a request without a token passes.
IsAuthorizedOrAnonymous(call) == token = "" \/ call.bearer \in {"", token}
IsAuthorized(call) == token = "" \/ call.bearer = token

\* A connection is open.
InService(r) == requests[r].pc \in {"body", "trigger"}
Reply(r, status) == requests' = [requests EXCEPT ![r] = Answered(status)]

\* A server that closes still serves the connections that are open.
Arrive(r, call) ==
    /\ entry = "bridge" /\ stage \in {"serving", "closing"} /\ requests[r].pc = "none"
    /\ IF call.route # "health" /\ ~IsAuthorized(call) THEN Reply(r, 401)
       ELSE IF call.route \notin {"health", "unknown"} /\ ~call.json THEN Reply(r, 415)
       ELSE IF call.size = "declared" THEN Reply(r, 413)
       ELSE requests' = [requests EXCEPT ![r] = [pc |-> "body", call |-> call, answer |-> 0]]
    /\ UNCHANGED <<boot, stage, runtime>>

\* handleBridgeRequest; a trigger goes on until its heartbeat is over.
Handle(r, route) ==
    CASE route \in {"user", "agent"} -> Emit(r) /\ UNCHANGED <<started, plugins>> /\ Reply(r, 202)
      [] route = "trigger" -> /\ requests' = [requests EXCEPT ![r].pc = "trigger"]
                              /\ UNCHANGED runtime
      [] OTHER -> /\ Reply(r, CASE route = "health" -> 200 [] route = "invalid" -> 400 [] OTHER -> 404)
                  /\ UNCHANGED runtime

\* The body is complete, or too large, or the client is gone.
ReadBody(r) ==
    /\ requests[r].pc = "body"
    /\ \/ requests[r].call.size = "small" /\ Handle(r, requests[r].call.route)
       \/ requests[r].call.size = "streamed" /\ Reply(r, 413) /\ UNCHANGED runtime
       \/ Reply(r, 500) /\ UNCHANGED runtime
    /\ UNCHANGED <<boot, stage>>

\* plugin.runOnce resolves: the answer is 202, if anybody is left to read it.
Triggered(r) ==
    /\ requests[r].pc \in {"trigger", "deserted"}
    /\ Reply(r, 202)
    /\ UNCHANGED <<boot, stage, runtime>>

\* The client does not wait for the heartbeat it triggered, which goes on.
Disconnect(r) ==
    /\ requests[r].pc = "trigger"
    /\ requests' = [requests EXCEPT ![r].pc = "deserted"]
    /\ UNCHANGED <<boot, stage, runtime>>

-----------------------------------------------------------------------------
(* Shutdown. *)

\* Mutant of Shutdown: a second signal starts it anew, and finds a server that no
\* longer listens.
ShutdownAnew ==
    CASE stage = "serving" /\ entry = "bridge" -> "closing"
      [] stage = "serving" /\ entry = "kernel" -> "stopping"
      [] stage = "closing" -> "stopping"
      [] OTHER -> stage

\* One shutdown, however many signals.
Shutdown ==
    CASE stage = "serving" /\ entry = "bridge" -> "closing"
      [] stage = "serving" /\ entry = "kernel" -> "stopping"
      [] OTHER -> stage

\* The handlers are registered once the process serves.
Signal ==
    /\ stage \in {"serving", "closing", "stopping"}
    /\ stage' = Shutdown
    /\ UNCHANGED <<boot, requests, runtime>>

\* server.close waits for the open connections, not for a heartbeat whose client
\* has gone.
Close ==
    /\ stage = "closing" /\ \A r \in Messages : ~InService(r)
    /\ stage' = "stopping"
    /\ UNCHANGED <<boot, requests, runtime>>

TearDown(i) ==
    /\ stage = "stopping"
    /\ TeardownPlugin(i)
    /\ UNCHANGED <<boot, stage, requests>>

Stopped ==
    /\ stage = "stopping"
    /\ Stop
    /\ stage' = "done"
    /\ UNCHANGED <<boot, requests>>

Init ==
    /\ entry \in Entries /\ input \in Inputs
    /\ stage = "load" /\ settings = None /\ warned = {} /\ token = None /\ launch = Absent
    /\ requests = [r \in Messages |-> Unasked]
    /\ RuntimeInit

\* What goes on by itself.
Progress ==
    \/ Load \/ Started \/ Listen \/ Close \/ Stopped
    \/ \E i \in Plugins : Initialise(i) \/ TearDown(i)
    \/ \E r \in Messages : ReadBody(r) \/ Triggered(r)

Next ==
    \/ Progress \/ Signal
    \/ \E r \in Messages : Disconnect(r) \/ \E call \in Calls : Arrive(r, call)

Spec == Init /\ [][Next]_vars

\* The code of a process runs; the body of a request in service arrives or its
\* connection is cut, inits and teardowns settle, and heartbeats end.
FairSpec == Spec /\ WF_vars(Progress)

-----------------------------------------------------------------------------
(* Properties of the settings, in the one state that has them. *)

Configured == stage = "starting" /\ \A i \in Plugins : plugins[i] = "new"

First(values, otherwise) ==
    LET present == {i \in DOMAIN values : values[i] # Absent} IN
    IF present = {} THEN otherwise ELSE values[CHOOSE i \in present : \A j \in present : i <= j]
Usable(value, takes) == IF value \in takes THEN value ELSE Absent

Flag(f) == IF entry = "bridge" /\ f \in Flags THEN input.argv[f] ELSE Absent
InFile(f) == Usable(Given(input.file, f), Takes(f))
ByAlias(f) == IF f \in Aliased /\ InFile(AliasOf(f)) # Absent THEN Converted(f, InFile(AliasOf(f)))
                                                             ELSE Absent
InEnv(f) == CASE f = Timeout -> Usable(input.env[f], Takes(f))
              [] f[1] = "llm" /\ f # Timeout -> input.env[f]
              [] OTHER -> Absent

\* The file gives a deprecated alias that can be used and a replacement that cannot.
\* The code takes the alias; its comment says that an alias counts only when the
\* replacement is absent.
Disputed(f) ==
    f \in Aliased /\ InFile(AliasOf(f)) # Absent /\ Rejects(f, Given(input.file, f))

\* Every setting is what argv, else the file, else a deprecated alias, else the
\* environment says in a form that can be used, else what is built in: zero and
\* the blank text are values like others, and no section that is no object hides
\* more than its own fields.  Set apart: what an explicit launch and the bridge
\* impose; a text of the environment, which may be blank; a setting whose sources
\* are Disputed; a timeout that the file garbles, which is the built-in one and not
\* that of the environment.
SettingsPreferred ==
    Configured => \A f \in DOMAIN settings \ {Enabled, ChatMode} :
        LET garbled == f = Timeout /\ (Rejects(f, Given(input.file, f)) \/ "llm" \in input.file.junk) IN
        ~Disputed(f) =>
            settings[f] = First(<<Flag(f), InFile(f), ByAlias(f), IF garbled THEN Absent ELSE InEnv(f)>>,
                                Builtin(f))

\* A value of the file that is not what runs has been warned about, unless argv,
\* the launch or the delivery mode of the bridge replaced it, or it is blank; and so
\* has a section that is no object, unless it is one of the plugin's, which is
\* dropped in silence with all that it holds.
RejectedIsWarned ==
    Configured =>
        /\ \A f \in DOMAIN settings :
            LET given == Given(input.file, f)
                legacy == IF f \in Aliased THEN Given(input.file, AliasOf(f)) ELSE Absent
            IN  /\ \/ given \in {Absent, settings[f]}
                   \/ f \in warned
                   \/ Flag(f) # Absent
                   \/ entry = "bridge" /\ f \in {Enabled, ChatMode}
                   \/ f = <<"persona", "systemPrompt">> /\ given = ""
                /\ \/ legacy = Absent
                   \/ AliasOf(f) \in warned
                   \/ Converted(f, legacy) = settings[f]
        /\ \A section \in input.file.junk : <<section>> \in warned \/ section \in Slice

\* Neither the interval of the heartbeat nor the timeout of the LLM, on which the end
\* of a heartbeat rests, is ever zero or less, whatever was configured where; and
\* settings nobody was warned about have a cooldown, caps and bands in order.  (A
\* cooldown longer than a day passes without a warning, too, and binds for a day only:
\* module Outreach.)
SettingsPace ==
    LET decision(key) == settings[<<"decision", key>>] IN
    Configured =>
        /\ settings[<<"heartbeat", "intervalMs">>] > 0 /\ settings[Timeout] > 0
        /\ \/ \E f \in warned : f[1] \in {"decision", "proactiveChat"}
           \/ /\ decision("cooldownMinutes") > 0
              /\ decision("maxPerHour") > 0 /\ decision("maxPerDay") > 0
              /\ decision("holdThreshold") <= decision("sendThreshold")

-----------------------------------------------------------------------------
(* Properties of the service. *)

\* Every variable keeps its type.
TypeOK ==
    /\ entry \in Entries /\ stage \in Stages
    /\ requests \in [Messages -> Request]
    /\ started \in BOOLEAN
    /\ plugins \in [Plugins -> {"new", "failed", "up", "down"}]
    /\ heard \in [Plugins -> SUBSET Messages]

\* As long as its client is connected, no request sees the plugins torn down, however
\* many signals come: no message is acknowledged that nobody handles any more, and no
\* client that waits for the heartbeat it triggered is told that all was well when it
\* was torn down.  (The heartbeat of a client that left may be torn down in its course:
\* module ProactiveChat.)
InServiceWhileUp ==
    \A r \in Messages : InService(r) => \A i \in Plugins : plugins[i] \in {"failed", "up"}

\* Whoever's handler throws, an event answered 202 has been handled by every other
\* plugin that was initialised, and one answered with an error by none, so that
\* its sender may send it again.
AcknowledgedIsHeard ==
    [][\A r \in Messages, i \in Plugins \ Faulty :
        requests[r].pc = "body" /\ requests'[r].pc = "done" /\ plugins[i] # "failed" =>
            (requests'[r].answer = 202 <=> r \in heard'[i])]_vars

\* A process launched with a token obeys its bearers only, whatever the file says
\* and wherever the check and the effect of a request are separated.
OnlyBearersAct ==
    [][\A r \in Messages :
        launch \notin {Absent, ""} /\ (\/ requests'[r].pc = "trigger" /\ requests[r].pc # "trigger"
                                       \/ \E i \in Plugins : r \in heard'[i] \ heard[i])
        => requests[r].call.bearer = launch]_vars

\* A shutdown ends, whatever is in service and whichever plugins are initialised.
ShutdownEnds == stage = "closing" ~> stage = "done"
=============================================================================
