------------------------------ MODULE MCBridge ------------------------------
(***************************************************************************)
(* Small instances of Bridge for TLC.  Of the file, two fields or one      *)
(* section are out of the ordinary at a time; the fields argv can override *)
(* meet every argv, and those of the llm section every environment.        *)
(***************************************************************************)
EXTENDS Bridge

Samples(f) ==
    CASE f[2] \in {"enabled", "useLlmAssessment"} -> {Absent, Junk, TRUE, FALSE}
      [] f[2] \in {"apiKey", "host", "token", "callbackUrl", "baseURL", "model", "dataDir", "systemPrompt"} ->
            {Absent, Junk, "", "file"}
      [] f[2] \in {"start", "end"} -> {Absent, Junk, "12:00"}
      [] f[2] = "deliveryMode" -> {Absent, Junk, "turn", "verbatim"}
      [] f[2] = "mode" -> {Absent, Junk, "self", "delegate"}
      [] f[2] = "port" -> {Absent, Junk, 0, 9000, 70000}
      [] f[2] \in {"sendThreshold", "holdThreshold"} -> {Absent, Junk, 2, 8}
      [] f[2] = "idleThresholdMs" -> {Absent, Junk, 0, 120000}
      [] OTHER -> {Absent, Junk, -1, 0, 5}

Plain == [f \in Fields |-> Absent]
File(at, junk) == [kind |-> "object", at |-> at, junk |-> junk]
NoFile == [File(Plain, {}) EXCEPT !.kind = "missing"]
BadFile == [File(Plain, {}) EXCEPT !.kind = "malformed"]
Full == [f \in Fields |-> CHOOSE v \in Samples(f) : v \in Takes(f)]

NoFlags == [f \in Flags |-> Absent]
NoEnv == [f \in {<<"llm", key>> : key \in Keys.llm} |-> Absent]
Launch(file) == [env |-> NoEnv, file |-> file, argv |-> NoFlags, nonce |-> TRUE]

Pairs ==
    UNION {{Launch(File([Plain EXCEPT ![f] = v, ![g] = w], {})) : v \in Samples(f), w \in Samples(g)} :
             f, g \in {h \in Fields : h[1] \in {"proactiveChat", "heartbeat", "decision"}}}
Singles == UNION {{Launch(File([Full EXCEPT ![f] = v], {})) : v \in Samples(f)} : f \in Fields}
Garbled == {Launch(File(Full, {section})) : section \in Sections} \cup {Launch(NoFile), Launch(BadFile)}

\* A port, a token, a mode and a directory, with or without a nonce.
Argvs ==
    {[NoFlags EXCEPT ![<<"hermesBridge", "port">>] = port, ![<<"hermesBridge", "token">>] = bearer,
                     ![BridgeMode] = mode, ![<<"storage", "dataDir">>] = dir] :
        port \in {Absent, -1, 0, 9000}, bearer \in {Absent, "", "argv"},
        mode \in {Absent, "turn", "verbatim", "other"}, dir \in {Absent, "", "argv"}}
Launched ==
    {[env |-> NoEnv, argv |-> argv, nonce |-> nonce,
      file |-> File([Plain EXCEPT ![Enabled] = enabled, ![<<"hermesBridge", "token">>] = bearer], {})] :
        argv \in Argvs, nonce \in BOOLEAN, enabled \in {Absent, TRUE}, bearer \in {Absent, "", "file"}}

Environments ==
    {[NoEnv EXCEPT ![<<"llm", "baseURL">>] = url, ![Timeout] = timeout] :
        url \in {Absent, "", "env"}, timeout \in {Absent, Junk, 0, 9}}
WithEnvironment ==
    {[Launch(NoFile) EXCEPT !.env = env] : env \in Environments}
    \cup {[Launch(File([Plain EXCEPT ![<<"llm", "baseURL">>] = url, ![Timeout] = timeout], junk)) EXCEPT !.env = env] :
            env \in Environments, url \in Samples(<<"llm", "baseURL">>), timeout \in Samples(Timeout),
            junk \in {{}, {"llm"}}}

AllInputs == Pairs \cup Singles \cup Garbled \cup Launched \cup WithEnvironment
=============================================================================
