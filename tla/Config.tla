------------------------------- MODULE Config -------------------------------
(***************************************************************************)
(* How the settings a process runs with come out of the environment,       *)
(* hermes.config.json and argv.  A raw value is Absent (undefined), Junk   *)
(* (of a type its reader does not take) or of its reader's type; a field   *)
(* is a pair <<section, key>>.  Texts say where they come from, "" is the  *)
(* blank one; durations are in the unit of the code, and are integers.     *)
(***************************************************************************)
EXTENDS Integers

CONSTANTS Absent, Junk

Texts == {"", "builtin", "env", "file", "argv"}
Clocks == {"23:30", "07:00", "12:00"}
Modes == {"turn", "verbatim", "self", "delegate"}

ASSUME RawAssumption ==
    \A raw \in {Absent, Junk} : raw \notin Int /\ raw \notin BOOLEAN /\ raw \notin Texts \cup Clocks \cup Modes

Keys ==
    [llm |-> {"baseURL", "apiKey", "model", "requestTimeoutMs"},
     storage |-> {"dataDir"},
     hermesBridge |-> {"enabled", "port", "host", "token", "callbackUrl", "deliveryMode"},
     proactiveChat |-> {"enabled", "checkIntervalMs", "idleThresholdMs",
                        "maxInitiationsPerHour", "allowNewSessions"},
     heartbeat |-> {"intervalMs"},
     decision |-> {"sendThreshold", "holdThreshold", "maxPerHour", "maxPerDay",
                   "cooldownMinutes", "noSendAfterActivityMinutes"},
     quietHours |-> {"start", "end"},
     emotion |-> {"decayRatePerHour", "socialNeedGrowthPerHour", "arousalFloor", "useLlmAssessment",
                  "userMessageArousalBump", "interactionSocialNeedReset"},
     context |-> {"historyTailMessages"},
     delayedQueue |-> {"maxSize", "maxAgeHours"},
     persona |-> {"systemPrompt"},
     persistence |-> {"enabled", "saveIntervalTicks"},
     delivery |-> {"mode"}]

Sections == DOMAIN Keys \cup {"plugins"}
Kernel == {"llm", "storage", "hermesBridge"}
Slice == DOMAIN Keys \ Kernel       \* the plugin's
Fields == UNION {{<<section, key>> : key \in Keys[section]} : section \in DOMAIN Keys}

\* The fields of the plugin with a deprecated alias, at the root of its slice.
Aliased == {<<"heartbeat", "intervalMs">>, <<"decision", "noSendAfterActivityMinutes">>,
            <<"decision", "maxPerHour">>}
AliasOf(f) ==
    <<"proactiveChat", CASE f[2] = "intervalMs" -> "checkIntervalMs"
                         [] f[2] = "maxPerHour" -> "maxInitiationsPerHour"
                         [] OTHER -> "idleThresholdMs">>
Deprecated == {AliasOf(f) : f \in Aliased} \cup {<<"proactiveChat", "allowNewSessions">>}

Timeout == <<"llm", "requestTimeoutMs">>
Enabled == <<"hermesBridge", "enabled">>
BridgeMode == <<"hermesBridge", "deliveryMode">>
ChatMode == <<"delivery", "mode">>
Flags == {<<"hermesBridge", key>> : key \in {"port", "host", "token", "callbackUrl", "deliveryMode"}}
         \cup {<<"storage", "dataDir">>}

-----------------------------------------------------------------------------
(* Readers. *)

\* What the reader of a field takes.
Takes(f) ==
    LET key == f[2] IN
    CASE key \in {"enabled", "useLlmAssessment"} -> BOOLEAN
      [] key \in {"intervalMs", "checkIntervalMs", "requestTimeoutMs"} -> Nat \ {0}
      [] key \in {"baseURL", "model", "dataDir", "systemPrompt"} -> Texts \ {""}
      [] key \in {"apiKey", "host", "token", "callbackUrl"} -> Texts
      [] key \in {"start", "end"} -> Clocks
      [] key = "deliveryMode" -> {"turn", "verbatim"}
      [] key = "mode" -> {"self", "delegate"}
      [] OTHER -> Int

Read(f, value, fallback) == IF value \in Takes(f) THEN value ELSE fallback
Rejects(f, value) == value # Absent /\ value \notin Takes(f)

Builtin(f) ==
    LET key == f[2] IN
    CASE key = "enabled" -> f # Enabled
      [] key = "useLlmAssessment" -> FALSE
      [] key \in {"apiKey", "token"} -> ""
      [] key \in {"baseURL", "model", "dataDir", "systemPrompt", "host", "callbackUrl"} -> "builtin"
      [] key = "start" -> "23:30"
      [] key = "end" -> "07:00"
      [] key = "deliveryMode" -> "turn"
      [] key = "mode" -> "self"
      [] key = "port" -> 8671
      [] key = "sendThreshold" -> 6         \* in tenths, as holdThreshold
      [] key = "holdThreshold" -> 3
      [] OTHER -> 1                         \* some positive number

-----------------------------------------------------------------------------
(* The environment and the file.  A file is missing, malformed, or an object *)
(* with a value at each field and some sections that are no objects.         *)

Enclosing(section) ==
    CASE section \in Kernel -> {section}
      [] section = "quietHours" -> {"plugins", "proactiveChat", "decision", section}
      [] OTHER -> {"plugins", "proactiveChat", section}

Given(file, f) ==
    IF file.kind # "object" \/ Enclosing(f[1]) \cap file.junk # {} THEN Absent ELSE file.at[f]

\* loadConfig's defaults; a text of the environment is taken as it is.
Default(env, f) ==
    CASE f = Timeout -> Read(f, env[f], Builtin(f))
      [] f[1] = "llm" /\ f # Timeout -> IF env[f] = Absent THEN Builtin(f) ELSE env[f]
      [] OTHER -> Builtin(f)

\* deepMerge of the file over the defaults; a section that is no object takes the
\* place of its defaults, and then counts as empty.
Merged(in, f) ==
    IF f[1] \in in.file.junk THEN Absent
    ELSE IF Given(in.file, f) = Absent THEN Default(in.env, f) ELSE Given(in.file, f)

Loaded(in, f) ==
    IF in.file.kind = "missing" THEN Default(in.env, f)
    ELSE Read(f, Merged(in, f), IF f = Timeout THEN Builtin(f) ELSE Default(in.env, f))

\* idleThresholdMs is in milliseconds, what it stands in for in minutes.
Converted(f, value) == IF f[2] = "noSendAfterActivityMinutes" THEN value \div 60000 ELSE value

StandIn(file, f) ==
    LET legacy == Given(file, AliasOf(f)) IN
    IF legacy \in Takes(AliasOf(f)) THEN Converted(f, legacy) ELSE Builtin(f)

\* resolveProactiveChatConfig.
Resolved(file, f) ==
    Read(f, Given(file, f), IF f \in Aliased THEN StandIn(file, f) ELSE Builtin(f))

-----------------------------------------------------------------------------
(* argv, of the bridge entry only. *)

Malformed(in) ==
    \/ in.argv[<<"hermesBridge", "port">>] \notin (0 .. 65535) \cup {Absent}
    \/ in.argv[BridgeMode] \notin Takes(BridgeMode) \cup {Absent}
    \/ in.argv[<<"storage", "dataDir">>] = ""

\* A known flag, --nonce among them, implies a deliberate launch.
Explicit(in) == in.nonce \/ \E f \in Flags : in.argv[f] # Absent

\* Mutant of Argued: only a flag that is truthy counts.
ArguedIfTruthy(in, f) ==
    IF f = Enabled /\ Explicit(in) THEN TRUE
    ELSE IF f \in Flags /\ (IF f[2] = "port" THEN in.argv[f] \notin {0, Absent}
                                           ELSE in.argv[f] \notin {"", Absent})
    THEN in.argv[f] ELSE Loaded(in, f)
Argued(in, f) ==
    IF f = Enabled /\ Explicit(in) THEN TRUE
    ELSE IF f \in Flags /\ in.argv[f] # Absent THEN in.argv[f] ELSE Loaded(in, f)

\* The settings of a boot.  The bridge imposes its delivery mode on the plugin.
Settings(entry, in) ==
    [f \in Fields \ Deprecated |->
        CASE f[1] \in Kernel /\ entry = "bridge" -> Argued(in, f)
          [] f[1] \in Kernel /\ entry # "bridge" -> Loaded(in, f)
          [] f = ChatMode /\ entry = "bridge" ->
                IF Argued(in, BridgeMode) = "turn" THEN "delegate" ELSE "self"
          [] OTHER -> Resolved(in.file, f)]

Refuses(entry, in) ==
    \/ in.file.kind = "malformed"
    \/ entry = "bridge" /\ (Malformed(in) \/ ~Argued(in, Enabled))

-----------------------------------------------------------------------------
(* Warnings, as the set of the fields and sections warned about.  A section *)
(* of the plugin that is no object is taken for an empty one in silence.    *)

\* Values that are used all the same.  Mutant: zero passes for a cap or a cooldown.
DubiousBelowZero(in, f) ==
    LET decision(key) == Resolved(in.file, <<"decision", key>>)
    IN  \/ f = <<"hermesBridge", "port">> /\ Loaded(in, f) \notin 1 .. 65535
        \/ f = <<"decision", "sendThreshold">> /\ decision("sendThreshold") < decision("holdThreshold")
        \/ f[2] \in {"maxPerHour", "maxPerDay", "cooldownMinutes", "saveIntervalTicks"} /\ Resolved(in.file, f) < 0
Dubious(in, f) ==
    LET decision(key) == Resolved(in.file, <<"decision", key>>)
    IN  \/ f = <<"hermesBridge", "port">> /\ Loaded(in, f) \notin 1 .. 65535
        \/ f = <<"decision", "sendThreshold">> /\ decision("sendThreshold") < decision("holdThreshold")
        \/ f[2] \in {"maxPerHour", "maxPerDay", "cooldownMinutes", "saveIntervalTicks"} /\ Resolved(in.file, f) <= 0

\* An alias is ignored for a replacement that is usable, or unusable itself.
\* Mutant: it is ignored in silence.
AliasUnused(in, a) ==
    \E f \in Aliased : a = AliasOf(f) /\ Rejects(a, Given(in.file, a)) /\ Given(in.file, f) \notin Takes(f)
AliasIgnored(in, a) ==
    \E f \in Aliased :
        /\ a = AliasOf(f) /\ Given(in.file, a) # Absent
        /\ Given(in.file, f) \in Takes(f) \/ Rejects(a, Given(in.file, a))

Warns(entry, in, f) ==
    LET value == Given(in.file, f) IN
    \/ /\ f \notin Deprecated /\ Rejects(f, value)
       /\ f = <<"persona", "systemPrompt">> => value \notin Texts     \* a blank one goes unnoticed
       /\ f = ChatMode => entry # "bridge"
    \/ f = Timeout /\ Rejects(f, in.env[f])
    \/ Dubious(in, f)
    \/ AliasIgnored(in, f)
    \/ f = <<"proactiveChat", "allowNewSessions">> /\ value # Absent

Warnings(entry, in) ==
    {f \in Fields : Warns(entry, in, f)}
    \cup {<<section>> : section \in in.file.junk \ Slice}
=============================================================================
