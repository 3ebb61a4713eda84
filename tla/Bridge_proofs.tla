---------------------------- MODULE Bridge_proofs ----------------------------
(***************************************************************************)
(* While a client is connected the plugins are up, so that what is         *)
(* acknowledged is handled, and only bearers of the token are obeyed, for  *)
(* any number of plugins and requests.  The settings of a boot are what    *)
(* its inputs say, for any inputs.                                         *)
(***************************************************************************)
EXTENDS Bridge, TLAPS, WellFoundedInduction

\* Requests are taken while the bridge serves and keep it from going on.
Served == \A r \in Messages : InService(r) => entry = "bridge" /\ stage \in {"serving", "closing"}

\* Where the plugins are, by stage.
Staged ==
    /\ stage \in {"load", "starting"} => \A i \in Plugins : plugins[i] # "down"
    /\ stage \in {"listen", "serving", "closing"} => \A i \in Plugins : plugins[i] \in {"failed", "up"}

\* A message is heard when its request is handled, not before.
Unheard == \A r \in Messages : requests[r].pc \in {"none", "body"} => \A i \in Plugins : r \notin heard[i]

ServiceInv == TypeOK /\ Served /\ Staged /\ Unheard

-----------------------------------------------------------------------------

LEMMA InitService == Init => ServiceInv
<1> SUFFICES ASSUME Init PROVE ServiceInv
  OBVIOUS
<1>1. Unasked \in Request
  BY DEF Unasked, Request
<1>2. TypeOK
  BY <1>1 DEF Init, RuntimeInit, TypeOK, Stages
<1>3. Served /\ Staged /\ Unheard
  BY DEF Init, RuntimeInit, Served, Staged, Unheard, InService, Unasked
<1>4. QED BY <1>2, <1>3 DEF ServiceInv

\* An answer leaves every other request as it is.
LEMMA ReplyTypes ==
    ASSUME TypeOK, NEW r \in Messages,
           NEW status \in Statuses, Reply(r, status)
    PROVE  /\ requests' \in [Messages -> Request]
           /\ requests'[r].pc = "done" /\ requests'[r].answer = status
           /\ \A q \in Messages \ {r} : requests'[q] = requests[q]
BY DEF TypeOK, Request, Statuses, Reply, Answered

\* A message that is emitted is heard, by those subscribed that do not throw.
LEMMA EmitHeard ==
    ASSUME TypeOK, NEW r \in Messages, Emit(r)
    PROVE  /\ heard' \in [Plugins -> SUBSET Messages]
           /\ \A i \in Plugins \ Faulty : plugins[i] = "up" => r \in heard'[i]
           /\ \A i \in Plugins, q \in Messages \ {r} : q \in heard'[i] => q \in heard[i]
BY DEF TypeOK, Emit, Subscribed

LEMMA StepService ==
    ASSUME ServiceInv, [Next]_vars
    PROVE  ServiceInv'
<1> USE DEF ServiceInv, InService
<1>1. ASSUME Load PROVE ServiceInv'
  <2>1. UNCHANGED <<entry, requests, plugins, heard>> /\ stage' \in {"failed", "starting"} /\ stage = "load"
        /\ started' \in BOOLEAN
    BY <1>1 DEF Load, Start, runtime, TypeOK
  <2>2. QED BY <2>1 DEF TypeOK, Stages, Served, Staged, Unheard
<1>2. ASSUME NEW i \in Plugins, Initialise(i) PROVE ServiceInv'
  <2>1. /\ UNCHANGED <<entry, stage, requests, started, heard>> /\ stage = "starting"
        /\ plugins' \in {[plugins EXCEPT ![i] = "up"], [plugins EXCEPT ![i] = "failed"]}
    BY <1>2 DEF Initialise, InitPlugin
  <2>2. QED BY <2>1 DEF TypeOK, Served, Staged, Unheard
<1>3. ASSUME Started PROVE ServiceInv'
  <2>1. /\ UNCHANGED <<entry, requests, runtime>> /\ stage = "starting"
        /\ stage' \in {"listen", "serving"} /\ \A i \in Plugins : plugins[i] # "new"
    BY <1>3 DEF Started, InitDone, boot
  <2>2. QED BY <2>1 DEF TypeOK, Stages, Served, Staged, Unheard, runtime
<1>4. ASSUME Listen PROVE ServiceInv'
  BY <1>4 DEF Listen, boot, runtime, TypeOK, Stages, Served, Staged, Unheard
<1>5. ASSUME NEW r \in Messages, NEW call \in Calls, Arrive(r, call) PROVE ServiceInv'
  <2>0. UNCHANGED <<entry, stage, runtime>> /\ requests[r].pc = "none"
        /\ entry = "bridge" /\ stage \in {"serving", "closing"}
    BY <1>5 DEF Arrive, boot
  <2>1. ASSUME NEW status \in Statuses, Reply(r, status) PROVE ServiceInv'
    BY <2>0, <2>1, ReplyTypes DEF TypeOK, Served, Staged, Unheard, runtime
  <2>2. ASSUME requests' = [requests EXCEPT ![r] = [pc |-> "body", call |-> call, answer |-> 0]]
        PROVE  ServiceInv'
    BY <2>0, <2>2 DEF TypeOK, Request, Served, Staged, Unheard, runtime
  <2>3. QED BY <1>5, <2>1, <2>2 DEF Arrive, Statuses
<1>6. ASSUME NEW r \in Messages, ReadBody(r) PROVE ServiceInv'
  <2>0. UNCHANGED <<entry, stage>> /\ requests[r].pc = "body"
        /\ entry = "bridge" /\ stage \in {"serving", "closing"}
    BY <1>6 DEF ReadBody, boot, Served
  <2>1. ASSUME NEW status \in Statuses, Reply(r, status), UNCHANGED runtime PROVE ServiceInv'
    BY <2>0, <2>1, ReplyTypes DEF TypeOK, Served, Staged, Unheard, runtime
  <2>2. ASSUME Emit(r), UNCHANGED <<started, plugins>>, Reply(r, 202) PROVE ServiceInv'
    <3>1. 202 \in Statuses
      BY DEF Statuses
    <3>2. QED BY <2>0, <2>2, <3>1, ReplyTypes, EmitHeard DEF TypeOK, Served, Staged, Unheard
  <2>3. ASSUME requests' = [requests EXCEPT ![r].pc = "trigger"], UNCHANGED runtime PROVE ServiceInv'
    BY <2>0, <2>3 DEF TypeOK, Request, Served, Staged, Unheard, runtime
  <2>4. QED
    <3>1. CASE requests[r].call.size = "small" /\ Handle(r, requests[r].call.route)
      BY <3>1, <2>1, <2>2, <2>3 DEF Handle, Statuses
    <3>2. CASE Reply(r, 413) /\ UNCHANGED runtime
      BY <3>2, <2>1 DEF Statuses
    <3>3. CASE Reply(r, 500) /\ UNCHANGED runtime
      BY <3>3, <2>1 DEF Statuses
    <3>4. QED BY <1>6, <3>1, <3>2, <3>3 DEF ReadBody
<1>7. ASSUME NEW r \in Messages, Triggered(r) PROVE ServiceInv'
  <2>1. UNCHANGED <<entry, stage, runtime>> /\ Reply(r, 202) /\ 202 \in Statuses
    BY <1>7 DEF Triggered, boot, Statuses
  <2>2. QED BY <2>1, ReplyTypes DEF TypeOK, Served, Staged, Unheard, runtime
<1>8. ASSUME Signal PROVE ServiceInv'
  <2>1. /\ UNCHANGED <<entry, requests, runtime>>
        /\ \/ stage' = stage
           \/ stage = "serving" /\ entry = "bridge" /\ stage' = "closing"
           \/ stage = "serving" /\ entry = "kernel" /\ stage' = "stopping"
    BY <1>8 DEF Signal, Shutdown, boot
  <2>2. QED BY <2>1 DEF TypeOK, Stages, Served, Staged, Unheard, runtime
<1>9. ASSUME Close PROVE ServiceInv'
  BY <1>9 DEF Close, boot, runtime, TypeOK, Stages, Served, Staged, Unheard
<1>10. ASSUME NEW i \in Plugins, TearDown(i) PROVE ServiceInv'
  <2>1. /\ UNCHANGED <<entry, stage, requests, started, heard>> /\ stage = "stopping"
        /\ plugins' = [plugins EXCEPT ![i] = "down"]
    BY <1>10 DEF TearDown, TeardownPlugin, boot
  <2>2. QED BY <2>1 DEF TypeOK, Served, Staged, Unheard
<1>11. ASSUME Stopped PROVE ServiceInv'
  BY <1>11 DEF Stopped, Stop, boot, TypeOK, Stages, Served, Staged, Unheard
<1>12. ASSUME UNCHANGED vars PROVE ServiceInv'
  BY <1>12 DEF vars, boot, runtime, TypeOK, Served, Staged, Unheard
<1>13. ASSUME NEW r \in Messages, Disconnect(r) PROVE ServiceInv'
  <2>1. /\ UNCHANGED <<entry, stage, runtime>> /\ requests[r].pc = "trigger"
        /\ requests' = [requests EXCEPT ![r].pc = "deserted"]
    BY <1>13 DEF Disconnect, boot
  <2>2. QED BY <2>1 DEF TypeOK, Request, Served, Staged, Unheard, runtime
<1>14. QED
  BY <1>1, <1>2, <1>3, <1>4, <1>5, <1>6, <1>7, <1>8, <1>9, <1>10, <1>11, <1>12, <1>13
  DEF Next, Progress

-----------------------------------------------------------------------------

\* In every process of the bridge or the kernel, every variable keeps its type.
THEOREM TypeCorrect == Spec => []TypeOK
<1>1. ServiceInv => TypeOK
  BY DEF ServiceInv
<1>2. QED BY <1>1, InitService, StepService, PTL DEF Spec

\* While the client of a request is connected no plugin is torn down, for any number
\* of plugins, requests, signals and clients that leave.
THEOREM ServedWhileUp == Spec => []InServiceWhileUp
<1>1. ServiceInv => InServiceWhileUp
  BY DEF ServiceInv, Served, Staged, InServiceWhileUp
<1>2. QED BY <1>1, InitService, StepService, PTL DEF Spec

\* A request whose body was awaited is answered by the step that reads it.
LEMMA AnsweredByRead ==
    ASSUME ServiceInv, [Next]_vars, NEW r \in Messages,
           requests[r].pc = "body", requests'[r].pc = "done"
    PROVE  ReadBody(r)
<1>1. TypeOK
  BY DEF ServiceInv
<1>3. ASSUME NEW q \in Messages, NEW status \in Statuses, Reply(q, status) PROVE q = r
  BY <1>1, <1>3, ReplyTypes
<1>4. ASSUME NEW q \in Messages, NEW call \in Calls, Arrive(q, call) PROVE FALSE
  <2>1. requests[q].pc = "none"
    BY <1>4 DEF Arrive
  <2>2. \/ \E status \in Statuses : Reply(q, status)
        \/ requests' = [requests EXCEPT ![q] = [pc |-> "body", call |-> call, answer |-> 0]]
    BY <1>4 DEF Arrive, Statuses
  <2>3. QED BY <2>1, <2>2, <1>1, <1>3 DEF TypeOK
<1>5. ASSUME NEW q \in Messages, ReadBody(q) PROVE q = r
  <2>1. \/ \E status \in Statuses : Reply(q, status)
        \/ requests' = [requests EXCEPT ![q].pc = "trigger"]
    BY <1>5 DEF ReadBody, Handle, Statuses
  <2>2. QED BY <2>1, <1>1, <1>3 DEF TypeOK
<1>6. ASSUME NEW q \in Messages, Triggered(q) PROVE FALSE
  <2>1. Reply(q, 202) /\ requests[q].pc \in {"trigger", "deserted"} /\ 202 \in Statuses
    BY <1>6 DEF Triggered, Statuses
  <2>2. QED BY <2>1, <1>3
<1>7. ASSUME NEW q \in Messages, Disconnect(q) PROVE FALSE
  BY <1>1, <1>7 DEF Disconnect, TypeOK
<1>8. requests' # requests
  OBVIOUS
<1>9. QED
  BY <1>4, <1>5, <1>6, <1>7, <1>8 DEF Next, Progress, vars, Load, Initialise, Started, Listen, Signal,
     Close, TearDown, Stopped

\* By then it has been heard by every initialised plugin that does not throw if
\* the answer is 202, by none if not.
LEMMA StepAcknowledges ==
    ASSUME ServiceInv, [Next]_vars, NEW r \in Messages, NEW i \in Plugins \ Faulty,
           requests[r].pc = "body", requests'[r].pc = "done", plugins[i] # "failed"
    PROVE  requests'[r].answer = 202 <=> r \in heard'[i]
<1>1. TypeOK /\ plugins[i] = "up" /\ r \notin heard[i] /\ ReadBody(r)
  BY AnsweredByRead DEF ServiceInv, TypeOK, Served, Staged, Unheard, InService
<1>2. ASSUME NEW status \in Statuses \ {202}, Reply(r, status), UNCHANGED runtime
      PROVE  requests'[r].answer # 202 /\ r \notin heard'[i]
  BY <1>1, <1>2, ReplyTypes DEF runtime
<1>3. ASSUME Emit(r), Reply(r, 202) PROVE requests'[r].answer = 202 /\ r \in heard'[i]
  <2>1. 202 \in Statuses
    BY DEF Statuses
  <2>2. QED BY <1>1, <1>3, <2>1, ReplyTypes, EmitHeard
<1>4. requests' # [requests EXCEPT ![r].pc = "trigger"]
  BY <1>1 DEF TypeOK, Request
<1>5. QED BY <1>1, <1>2, <1>3, <1>4 DEF ReadBody, Handle, Statuses

\* Whoever's handler throws, an event answered 202 has been handled by every other
\* plugin that was initialised, and one answered with an error by none.
THEOREM Acknowledged == Spec => AcknowledgedIsHeard
<1>1. ServiceInv /\ [Next]_vars =>
        [\A r \in Messages, i \in Plugins \ Faulty :
            requests[r].pc = "body" /\ requests'[r].pc = "done" /\ plugins[i] # "failed" =>
                (requests'[r].answer = 202 <=> r \in heard'[i])]_vars
  BY StepAcknowledges
<1>2. QED BY <1>1, InitService, StepService, PTL DEF Spec, AcknowledgedIsHeard

-----------------------------------------------------------------------------
(* A shutdown comes nearer its end. *)

LEMMA LeastNat ==
    ASSUME NEW T, T \subseteq Nat, T # {}
    PROVE  \E n \in T : \A m \in T : n <= m
<1>1. PICK n \in T : \A m \in T : ~ (<<m, n>> \in OpToRel(<, Nat))
  BY NatLessThanWellFounded, WFMin
<1>2. \A m \in T : ~(m < n)
  BY <1>1 DEF OpToRel
<1>3. QED BY <1>2

\* The last of the plugins that are up is the next to go down.
LEMMA LastDown == TeardownDone \/ \E i \in Plugins : NextDown(i)
<1> SUFFICES ASSUME ~TeardownDone PROVE \E i \in Plugins : NextDown(i)
  OBVIOUS
<1> DEFINE T == {n \in Nat : n < N /\ plugins[N - n] = "up"}
<1>0. N \in Nat
  BY PluginsAssumption
<1>1. \A i \in Plugins : N - i \in Nat /\ N - i < N /\ N - (N - i) = i
  BY <1>0 DEF Plugins
<1>2. PICK i \in Plugins : plugins[i] = "up"
  BY DEF TeardownDone
<1>3. T # {}
  BY <1>1, <1>2
<1>4. PICK n \in T : \A m \in T : n <= m
  BY <1>3, LeastNat
<1>5. n \in Nat /\ n < N /\ plugins[N - n] = "up"
  BY <1>4
<1>6. N - n \in Plugins
  BY <1>0, <1>5 DEF Plugins
<1>7. ASSUME NEW j \in N - n + 1 .. N PROVE plugins[j] # "up"
  <2>1. j \in Plugins /\ ~(n <= N - j)
    BY <1>0, <1>5, <1>7 DEF Plugins
  <2>2. N - j \notin T
    BY <1>4, <2>1
  <2>3. QED BY <1>1, <2>1, <2>2
<1>8. NextDown(N - n)
  BY <1>5, <1>7 DEF NextDown
<1>9. QED BY <1>6, <1>8

\* How far a request and a shutdown still are from their ends.
Left == [pc \in {"none", "body", "trigger", "deserted", "done"} |->
            CASE pc = "none" -> 4 [] pc = "body" -> 3 [] pc = "trigger" -> 2
              [] pc = "deserted" -> 1 [] OTHER -> 0]
Follows == [s \in {"closing", "stopping"} |-> IF s = "closing" THEN "stopping" ELSE "done"]

ShuttingDown == stage \in {"closing", "stopping"}

\* Nothing goes back, and something goes on.
NothingBack ==
    /\ stage' \in {stage, Follows[stage]}
    /\ \A r \in Messages : Left[requests'[r].pc] <= Left[requests[r].pc]
    /\ \A i \in Plugins : plugins'[i] = "up" => plugins[i] = "up"
SomethingOn ==
    \/ stage' # stage
    \/ \E r \in Messages : Left[requests'[r].pc] < Left[requests[r].pc]
    \/ \E i \in Plugins : plugins[i] = "up" /\ plugins'[i] = "down"

LEMMA ReplyOn ==
    ASSUME TypeOK, NEW r \in Messages, requests[r].pc # "done",
           NEW status \in Statuses, Reply(r, status)
    PROVE  /\ \A q \in Messages : Left[requests'[q].pc] <= Left[requests[q].pc]
           /\ Left[requests'[r].pc] < Left[requests[r].pc]
<1>1. \A q \in Messages : requests[q].pc \in {"none", "body", "trigger", "deserted", "done"}
  BY DEF TypeOK, Request
<1>2. requests'[r].pc = "done" /\ \A q \in Messages \ {r} : requests'[q] = requests[q]
  BY ReplyTypes
<1>3. QED BY <1>1, <1>2 DEF Left

LEMMA StepOn ==
    ASSUME ServiceInv, [Next]_vars, ShuttingDown
    PROVE  NothingBack /\ (Progress => SomethingOn)
<1>0. /\ TypeOK
      /\ \A q \in Messages : /\ requests[q].pc \in {"none", "body", "trigger", "deserted", "done"}
                              /\ Left[requests[q].pc] <= Left[requests[q].pc]
  BY DEF ServiceInv, TypeOK, Request, Left
<1>1. ASSUME NEW r \in Messages, ReadBody(r) PROVE NothingBack /\ SomethingOn
  <2>0. /\ UNCHANGED stage /\ requests[r].pc = "body"
        /\ UNCHANGED plugins
    BY <1>1 DEF ReadBody, Handle, boot, runtime
  <2>1. CASE \E status \in Statuses : Reply(r, status)
    BY <1>0, <2>0, <2>1, ReplyOn DEF NothingBack, SomethingOn
  <2>2. CASE requests' = [requests EXCEPT ![r].pc = "trigger"]
    <3>1. requests'[r].pc = "trigger" /\ \A q \in Messages \ {r} : requests'[q] = requests[q]
      BY <1>0, <2>2 DEF TypeOK, Request
    <3>2. /\ \A q \in Messages : Left[requests'[q].pc] <= Left[requests[q].pc]
          /\ Left[requests'[r].pc] < Left[requests[r].pc]
      BY <1>0, <2>0, <3>1 DEF Left
    <3>3. QED BY <2>0, <3>2 DEF NothingBack, SomethingOn
  <2>3. QED BY <1>1, <2>1, <2>2 DEF ReadBody, Handle, Statuses
<1>2. ASSUME NEW r \in Messages, Triggered(r) PROVE NothingBack /\ SomethingOn
  <2>1. /\ UNCHANGED <<stage, plugins>> /\ requests[r].pc \in {"trigger", "deserted"}
        /\ Reply(r, 202) /\ 202 \in Statuses
    BY <1>2 DEF Triggered, boot, runtime, Statuses
  <2>2. QED BY <1>0, <2>1, ReplyOn DEF NothingBack, SomethingOn
<1>3. ASSUME NEW r \in Messages, NEW call \in Calls, Arrive(r, call) PROVE NothingBack
  <2>0. UNCHANGED <<stage, plugins>> /\ requests[r].pc = "none"
    BY <1>3 DEF Arrive, boot, runtime
  <2>1. CASE \E status \in Statuses : Reply(r, status)
    BY <1>0, <2>0, <2>1, ReplyOn DEF NothingBack
  <2>2. CASE requests' = [requests EXCEPT ![r] = [pc |-> "body", call |-> call, answer |-> 0]]
    <3>1. requests'[r].pc = "body" /\ \A q \in Messages \ {r} : requests'[q] = requests[q]
      BY <1>0, <2>2 DEF TypeOK
    <3>2. \A q \in Messages : Left[requests'[q].pc] <= Left[requests[q].pc]
      BY <1>0, <2>0, <3>1 DEF Left
    <3>3. QED BY <2>0, <3>2 DEF NothingBack
  <2>3. QED BY <1>3, <2>1, <2>2 DEF Arrive, Statuses
<1>4. ASSUME NEW i \in Plugins, TearDown(i) PROVE NothingBack /\ SomethingOn
  <2>1. /\ UNCHANGED <<stage, requests>> /\ plugins[i] = "up"
        /\ plugins' = [plugins EXCEPT ![i] = "down"]
    BY <1>4 DEF TearDown, TeardownPlugin, NextDown, boot
  <2>2. plugins'[i] = "down" /\ \A j \in Plugins \ {i} : plugins'[j] = plugins[j]
    BY <1>0, <2>1 DEF TypeOK
  <2>3. QED BY <1>0, <2>1, <2>2 DEF NothingBack, SomethingOn
<1>5. ASSUME Close \/ Stopped PROVE NothingBack /\ SomethingOn
  <2>1. UNCHANGED <<requests, plugins>> /\ stage' # stage /\ stage' = Follows[stage]
    BY <1>5 DEF Close, Stopped, Stop, boot, runtime, Follows
  <2>2. QED BY <1>0, <2>1 DEF NothingBack, SomethingOn
<1>6. ASSUME Signal \/ UNCHANGED vars PROVE NothingBack
  <2>1. UNCHANGED <<requests, plugins, stage>>
    BY <1>6 DEF Signal, Shutdown, ShuttingDown, vars, boot, runtime
  <2>2. QED BY <1>0, <2>1 DEF NothingBack
<1>7. ~Load /\ ~Started /\ ~Listen /\ \A i \in Plugins : ~Initialise(i)
  BY DEF Load, Started, Listen, Initialise, ShuttingDown
<1>8. ASSUME NEW r \in Messages, Disconnect(r) PROVE NothingBack
  <2>1. /\ UNCHANGED <<stage, plugins>> /\ requests[r].pc = "trigger"
        /\ requests' = [requests EXCEPT ![r].pc = "deserted"]
    BY <1>8 DEF Disconnect, boot, runtime
  <2>2. requests'[r].pc = "deserted" /\ \A q \in Messages \ {r} : requests'[q] = requests[q]
    BY <1>0, <2>1 DEF TypeOK, Request
  <2>3. \A q \in Messages : Left[requests'[q].pc] <= Left[requests[q].pc]
    BY <1>0, <2>1, <2>2 DEF Left
  <2>4. QED BY <2>1, <2>3 DEF NothingBack
<1>9. QED BY <1>1, <1>2, <1>3, <1>4, <1>5, <1>6, <1>7, <1>8 DEF Next, Progress

\* Why a shutdown ends, for any number of plugins and requests, up to fairness:
\* what goes on by itself brings the shutdown, a request or a teardown forward;
\* no further signal, request or failure takes any of them back; and the teardown
\* always has a next plugin, whichever of them failed to initialise, or is over.
NeverBack ==
    [][ShuttingDown => NothingBack /\ (Progress => SomethingOn)]_vars
TeardownGoesOn == stage = "stopping" => TeardownDone \/ \E i \in Plugins : NextDown(i)

THEOREM ShutdownAdvances == Spec => []TeardownGoesOn /\ NeverBack
<1>1. TeardownGoesOn
  BY LastDown DEF TeardownGoesOn
<1>2. ServiceInv /\ [Next]_vars =>
        (ShuttingDown => NothingBack /\ (Progress => SomethingOn))
  BY StepOn
<1>3. QED BY <1>1, <1>2, InitService, StepService, PTL DEF Spec, NeverBack

-----------------------------------------------------------------------------
(* The token. *)

Token == <<"hermesBridge", "token">>

LEMMA FieldIn ==
    ASSUME NEW section \in DOMAIN Keys, NEW key \in Keys[section]
    PROVE  <<section, key>> \in Fields
<1>1. <<section, key>> \in {<<section, k>> : k \in Keys[section]}
  OBVIOUS
<1>2. {<<section, k>> : k \in Keys[section]} \in {{<<sec, k>> : k \in Keys[sec]} : sec \in DOMAIN Keys}
  OBVIOUS
<1>3. QED BY <1>1, <1>2 DEF Fields

\* A token passed by the launcher is the bridge's, whatever the file says.
LEMMA LaunchedToken ==
    ASSUME NEW in, in.argv[Token] # Absent
    PROVE  Settings("bridge", in)[Token] = in.argv[Token]
<1>1. Token \in Fields
  BY FieldIn DEF Token, Keys
<1>2. Token \notin Deprecated
  BY DEF Token, Deprecated, Aliased, AliasOf
<1>3. Token \notin {Enabled, ChatMode} /\ Token \in Flags /\ Token[1] \in Kernel
  BY DEF Token, Enabled, ChatMode, Flags, Kernel
<1>4. Argued(in, Token) = in.argv[Token]
  BY <1>3 DEF Argued
<1>5. QED BY <1>1, <1>2, <1>3, <1>4 DEF Settings

\* What is read but not yet handled was let in with the token.
Bearing ==
    /\ entry = "bridge" /\ launch # Absent => token = launch
    /\ \A r \in Messages :
          requests[r].pc = "body" /\ requests[r].call.route # "health" => IsAuthorized(requests[r].call)

LEMMA StepBearing ==
    ASSUME ServiceInv, Bearing, [Next]_vars
    PROVE  Bearing'
<1>0. TypeOK
  BY DEF ServiceInv
<1>1. ASSUME Load PROVE Bearing'
  <2>1. UNCHANGED <<entry, requests>> /\ \A r \in Messages : requests[r].pc # "body"
    BY <1>1 DEF Load, ServiceInv, Served, InService
  <2>2. CASE UNCHANGED <<token, launch>>
    BY <2>1, <2>2 DEF Bearing
  <2>3. CASE token' = Settings(entry, input)[Token] /\ launch' = input.argv[Token]
    BY <2>1, <2>3, LaunchedToken DEF Bearing
  <2>4. QED BY <1>1, <2>2, <2>3 DEF Load, Token
<1>2. ASSUME UNCHANGED <<entry, token, launch>>,
             \A r \in Messages : requests'[r].pc = "body" => requests[r] = requests'[r]
      PROVE  Bearing'
  BY <1>2 DEF Bearing, IsAuthorized
<1>3. ASSUME NEW r \in Messages, NEW status \in Statuses, Reply(r, status), UNCHANGED boot PROVE Bearing'
  BY <1>0, <1>2, <1>3, ReplyTypes DEF boot
<1>4. ASSUME NEW r \in Messages, NEW call \in Calls, Arrive(r, call) PROVE Bearing'
  <2>1. CASE \E status \in Statuses : Reply(r, status)
    BY <1>3, <1>4, <2>1 DEF Arrive
  <2>2. CASE /\ requests' = [requests EXCEPT ![r] = [pc |-> "body", call |-> call, answer |-> 0]]
             /\ call.route # "health" => IsAuthorized(call)
    BY <1>0, <1>4, <2>2 DEF Arrive, boot, Bearing, IsAuthorized, TypeOK
  <2>3. QED BY <1>4, <2>1, <2>2 DEF Arrive, Statuses
<1>5. ASSUME NEW r \in Messages, ReadBody(r) PROVE Bearing'
  <2>1. CASE \E status \in Statuses : Reply(r, status)
    BY <1>3, <1>5, <2>1 DEF ReadBody
  <2>2. CASE requests' = [requests EXCEPT ![r].pc = "trigger"]
    BY <1>0, <1>2, <1>5, <2>2 DEF ReadBody, boot, TypeOK
  <2>3. QED BY <1>5, <2>1, <2>2 DEF ReadBody, Handle, Statuses
<1>6. ASSUME NEW r \in Messages, Triggered(r) PROVE Bearing'
  BY <1>3, <1>6 DEF Triggered, Statuses
<1>7. ASSUME NEW r \in Messages, Disconnect(r) PROVE Bearing'
  BY <1>0, <1>2, <1>7 DEF Disconnect, boot, TypeOK
<1>8. QED
  BY <1>1, <1>2, <1>4, <1>5, <1>6, <1>7 DEF Next, Progress, vars, boot, Initialise, Started, Listen, Signal,
     Close, TearDown, Stopped

\* Only the step that handles a request has an effect.
LEMMA EffectOfRead ==
    ASSUME ServiceInv, [Next]_vars, NEW r \in Messages,
           \/ requests'[r].pc = "trigger" /\ requests[r].pc # "trigger"
           \/ \E i \in Plugins : r \in heard'[i] \ heard[i]
    PROVE  requests[r].pc = "body" /\ requests[r].call.route \in {"user", "agent", "trigger"}
<1>0. TypeOK
  BY DEF ServiceInv
<1>1. ASSUME NEW q \in Messages, NEW status \in Statuses, Reply(q, status)
      PROVE  requests'[r].pc # "trigger" \/ requests'[r] = requests[r]
  BY <1>0, <1>1, ReplyTypes
<1>2. ASSUME NEW q \in Messages, ReadBody(q)
      PROVE  r = q /\ requests[q].pc = "body" /\ requests[q].call.route \in {"user", "agent", "trigger"}
  <2>1. CASE UNCHANGED runtime /\ \E status \in Statuses : Reply(q, status)
    BY <1>1, <2>1 DEF runtime
  <2>2. CASE Handle(q, requests[q].call.route)
    <3>1. CASE requests[q].call.route \in {"user", "agent"}
      <4>1. Emit(q) /\ Reply(q, 202) /\ 202 \in Statuses
        BY <2>2, <3>1 DEF Handle, Statuses
      <4>2. QED BY <1>0, <1>1, <1>2, <3>1, <4>1, EmitHeard DEF ReadBody
    <3>2. CASE requests[q].call.route = "trigger"
      <4>1. requests' = [requests EXCEPT ![q].pc = "trigger"] /\ UNCHANGED runtime
        BY <2>2, <3>2 DEF Handle
      <4>2. QED BY <1>0, <1>2, <3>2, <4>1 DEF ReadBody, TypeOK, runtime
    <3>3. CASE requests[q].call.route \notin {"user", "agent", "trigger"}
      <4>1. UNCHANGED runtime /\ \E status \in Statuses : Reply(q, status)
        BY <2>2, <3>3 DEF Handle, Statuses
      <4>2. QED BY <2>1, <4>1
    <3>4. QED BY <3>1, <3>2, <3>3
  <2>3. QED BY <1>2, <2>1, <2>2 DEF ReadBody, Statuses
<1>3. ASSUME NEW q \in Messages, NEW call \in Calls, Arrive(q, call) PROVE FALSE
  <2>1. UNCHANGED runtime /\ \/ \E status \in Statuses : Reply(q, status)
                             \/ requests' = [requests EXCEPT ![q] = [pc |-> "body", call |-> call, answer |-> 0]]
    BY <1>3 DEF Arrive, Statuses
  <2>2. QED BY <1>0, <1>1, <2>1 DEF TypeOK, runtime
<1>4. ASSUME NEW q \in Messages, Triggered(q) PROVE FALSE
  BY <1>1, <1>4 DEF Triggered, Statuses, runtime
<1>5. ASSUME NEW q \in Messages, Disconnect(q) PROVE FALSE
  BY <1>0, <1>5 DEF Disconnect, TypeOK, runtime
<1>6. QED
  BY <1>2, <1>3, <1>4, <1>5 DEF Next, Progress, vars, boot, runtime, Load, Start, Initialise, InitPlugin,
     Started, Listen, Signal, Close, TearDown, TeardownPlugin, Stopped, Stop

\* A process launched with a token obeys its bearers only, whatever the file says,
\* for any number of requests.
THEOREM BearersAlone == Spec => OnlyBearersAct
<1>1. Init => Bearing
  BY DEF Init, Bearing, Unasked
<1>2. ServiceInv /\ Bearing /\ [Next]_vars =>
        [\A r \in Messages :
            launch \notin {Absent, ""} /\ (\/ requests'[r].pc = "trigger" /\ requests[r].pc # "trigger"
                                           \/ \E i \in Plugins : r \in heard'[i] \ heard[i])
            => requests[r].call.bearer = launch]_vars
  <2> SUFFICES ASSUME ServiceInv, Bearing, [Next]_vars, NEW r \in Messages, launch \notin {Absent, ""},
                      \/ requests'[r].pc = "trigger" /\ requests[r].pc # "trigger"
                      \/ \E i \in Plugins : r \in heard'[i] \ heard[i]
               PROVE  requests[r].call.bearer = launch
    OBVIOUS
  <2>1. requests[r].pc = "body" /\ requests[r].call.route \in {"user", "agent", "trigger"}
    BY EffectOfRead
  <2>2. entry = "bridge"
    BY <2>1 DEF ServiceInv, Served, InService
  <2>3. QED BY <2>1, <2>2 DEF Bearing, IsAuthorized
<1>3. QED BY <1>1, <1>2, InitService, StepService, StepBearing, PTL DEF Spec, OnlyBearersAct

-----------------------------------------------------------------------------
(* The settings. *)

\* What is Absent is nowhere taken for a value.
LEMMA TakesKinds ==
    ASSUME NEW f
    PROVE  Takes(f) \in {BOOLEAN, Nat \ {0}, Texts \ {""}, Texts, Clocks, {"turn", "verbatim"},
                         {"self", "delegate"}, Int}
BY DEF Takes

LEMMA NoneAbsent ==
    ASSUME NEW f
    PROVE  Absent \notin Takes(f)
<1>1. Texts \ {""} \subseteq Texts /\ {"turn", "verbatim"} \subseteq Modes /\ {"self", "delegate"} \subseteq Modes
  BY DEF Modes
<1>2. Absent \notin Nat \ {0}
  BY RawAssumption
<1>3. Absent \notin Int /\ Absent \notin BOOLEAN /\ Absent \notin Texts \cup Clocks \cup Modes
  BY RawAssumption
<1>4. QED BY <1>1, <1>2, <1>3, TakesKinds, Zenon

LEMMA FirstPresent ==
    ASSUME NEW a, NEW b, NEW c, NEW d, NEW otherwise
    PROVE  First(<<a, b, c, d>>, otherwise) =
               IF a # Absent THEN a ELSE IF b # Absent THEN b
               ELSE IF c # Absent THEN c ELSE IF d # Absent THEN d ELSE otherwise
<1> DEFINE values == <<a, b, c, d>>
           present == {i \in DOMAIN values : values[i] # Absent}
<1>1. ASSUME NEW k \in present, \A j \in present : k <= j
      PROVE  First(values, otherwise) = values[k]
  <2>1. present \subseteq Int
    OBVIOUS
  <2>2. \A i \in present : (\A j \in present : i <= j) => i = k
    BY <1>1, <2>1
  <2>3. k = CHOOSE i \in present : \A j \in present : i <= j
    BY <1>1, <2>2
  <2>4. QED BY <2>3 DEF First
<1>2. CASE a # Absent
  BY <1>1, <1>2
<1>3. CASE a = Absent /\ b # Absent
  BY <1>1, <1>3
<1>4. CASE a = Absent /\ b = Absent /\ c # Absent
  BY <1>1, <1>4
<1>5. CASE a = Absent /\ b = Absent /\ c = Absent /\ d # Absent
  BY <1>1, <1>5
<1>6. CASE a = Absent /\ b = Absent /\ c = Absent /\ d = Absent
  BY <1>6 DEF First
<1>7. QED BY <1>2, <1>3, <1>4, <1>5, <1>6

LEMMA PluginSetting ==
    ASSUME NEW mode, NEW in, NEW f \in Fields \ Deprecated, f[1] \notin Kernel, f # ChatMode
    PROVE  Settings(mode, in)[f] = Resolved(in.file, f)
BY DEF Settings

LEMMA KernelSetting ==
    ASSUME NEW mode, NEW in, NEW f \in Fields \ Deprecated, f[1] \in Kernel
    PROVE  Settings(mode, in)[f] = IF mode = "bridge" THEN Argued(in, f) ELSE Loaded(in, f)
<1>1. f # ChatMode
  BY DEF ChatMode, Kernel
<1>2. QED BY <1>1 DEF Settings

Garbled(f) == f = Timeout /\ (Rejects(f, Given(input.file, f)) \/ "llm" \in input.file.junk)

LEMMA TimeoutValues ==
    /\ Timeout[1] = "llm" /\ Timeout[1] \in Kernel /\ Timeout \notin Flags /\ Timeout # Enabled
    /\ Takes(Timeout) = Nat \ {0} /\ Builtin(Timeout) = 1
BY DEF Timeout, Kernel, Flags, Enabled, Takes, Builtin

\* What the file and the environment make of a field that the entries read.
LEMMA LoadedValue ==
    ASSUME NEW f, f[1] \in Kernel, input.file.kind \in {"missing", "object"},
           input.file.kind # "object" => input.file.junk = {}
    PROVE  Loaded(input, f) = IF InFile(f) # Absent THEN InFile(f)
                              ELSE IF ~Garbled(f) /\ InEnv(f) # Absent THEN InEnv(f) ELSE Builtin(f)
<1>0. Absent \notin Takes(f)
  BY NoneAbsent
<1> DEFINE given == Given(input.file, f)
<1>1. given # Absent => /\ input.file.kind = "object" /\ f[1] \notin input.file.junk
                        /\ Merged(input, f) = given
  BY DEF Given, Enclosing, Kernel, Merged
<1>2. given = Absent => InFile(f) = Absent
  BY DEF InFile, Usable
<1>3. CASE f = Timeout
  <2>1. Default(input.env, f) = IF InEnv(f) # Absent THEN InEnv(f) ELSE 1
    BY <1>0, <1>3, TimeoutValues DEF Default, InEnv, Usable, Read
  <2>2. Default(input.env, f) \in Takes(f)
    BY <1>3, TimeoutValues DEF Default, Read
  <2>3. CASE given # Absent
    BY <1>1, <1>3, <2>3, TimeoutValues DEF Loaded, InFile, Usable, Garbled, Rejects, Read
  <2>4. CASE given = Absent /\ input.file.kind = "missing"
    BY <1>2, <1>3, <2>1, <2>4, TimeoutValues DEF Loaded, Garbled, Rejects
  <2>5. CASE given = Absent /\ input.file.kind = "object" /\ "llm" \in input.file.junk
    BY <1>0, <1>2, <1>3, <2>5, TimeoutValues DEF Loaded, Merged, Garbled, Read
  <2>6. CASE given = Absent /\ input.file.kind = "object" /\ "llm" \notin input.file.junk
    BY <1>2, <1>3, <2>1, <2>2, <2>6, TimeoutValues DEF Loaded, Merged, Garbled, Rejects, Read
  <2>7. QED BY <2>3, <2>4, <2>5, <2>6
<1>4. CASE f # Timeout
  <2>1. Default(input.env, f) = IF InEnv(f) # Absent THEN InEnv(f) ELSE Builtin(f)
    BY <1>4 DEF Default, InEnv
  <2>2. CASE input.file.kind = "missing"
    BY <1>1, <1>2, <1>4, <2>1, <2>2 DEF Loaded, Garbled
  <2>3. CASE input.file.kind = "object"
    <3>1. Loaded(input, f) = Read(f, Merged(input, f), Default(input.env, f))
      BY <1>4, <2>3 DEF Loaded
    <3>2. CASE given # Absent
      BY <1>1, <1>4, <2>1, <3>1, <3>2 DEF InFile, Usable, Garbled, Read
    <3>3. CASE given = Absent
      <4>1. Merged(input, f) \in {Absent, Default(input.env, f)}
        BY <3>3 DEF Merged
      <4>2. Loaded(input, f) = Default(input.env, f)
        BY <1>0, <3>1, <4>1 DEF Read
      <4>3. QED BY <1>2, <1>4, <2>1, <3>3, <4>2 DEF Garbled
    <3>4. QED BY <3>2, <3>3
  <2>4. QED BY <2>2, <2>3
<1>5. QED BY <1>3, <1>4

\* What the file makes of a field of the plugin.
LEMMA ResolvedValue ==
    ASSUME NEW f
    PROVE  Resolved(input.file, f) = IF InFile(f) # Absent THEN InFile(f)
                                     ELSE IF ByAlias(f) # Absent THEN ByAlias(f) ELSE Builtin(f)
<1>0. Absent \notin Takes(f) /\ Absent \notin Takes(AliasOf(f))
  BY NoneAbsent
<1>1. InFile(f) # Absent <=> Given(input.file, f) \in Takes(f)
  BY <1>0 DEF InFile, Usable
<1>2. InFile(AliasOf(f)) # Absent <=> Given(input.file, AliasOf(f)) \in Takes(AliasOf(f))
  BY <1>0 DEF InFile, Usable
<1>3. ASSUME f \in Aliased, NEW legacy \in Takes(AliasOf(f)) PROVE Converted(f, legacy) # Absent
  <2>1. CASE f[2] = "noSendAfterActivityMinutes"
    <3>1. Takes(AliasOf(f)) = Int
      BY <2>1 DEF AliasOf, Takes
    <3>2. Converted(f, legacy) \in Int
      BY <1>3, <2>1, <3>1 DEF Converted
    <3>3. QED BY <3>2, RawAssumption
  <2>2. CASE f[2] # "noSendAfterActivityMinutes"
    BY <1>0, <1>3, <2>2 DEF Converted
  <2>3. QED BY <2>1, <2>2
<1>4. CASE f \in Aliased
  <2>1. StandIn(input.file, f) = IF ByAlias(f) # Absent THEN ByAlias(f) ELSE Builtin(f)
    BY <1>2, <1>3, <1>4 DEF StandIn, ByAlias, InFile, Usable
  <2>2. QED BY <1>1, <1>4, <2>1 DEF Resolved, Read, InFile, Usable
<1>5. CASE f \notin Aliased
  BY <1>1, <1>5 DEF Resolved, Read, ByAlias, InFile, Usable
<1>6. QED BY <1>4, <1>5

\* Until the plugins are initialised, the settings are those of the inputs, and
\* what was warned about is, too.
Chosen ==
    /\ entry \in {"bridge", "kernel"}
    /\ stage = "load" => input \in Inputs
    /\ Configured => /\ input.file.kind \in {"missing", "object"}
                     /\ input.file.kind # "object" => input.file.junk = {}
                     /\ settings = Settings(entry, input)
                     /\ warned = Warnings(entry, input)

LEMMA ChosenAlways == Spec => []Chosen
<1>1. Init => Chosen
  BY BridgeAssumption DEF Init, Chosen, Configured
<1>2. TypeOK /\ Chosen /\ [Next]_vars => Chosen'
  <2> SUFFICES ASSUME TypeOK, Chosen, [Next]_vars PROVE Chosen'
    OBVIOUS
  <2>1. ASSUME Load PROVE Chosen'
    BY <2>1, BridgeAssumption DEF Load, Refuses, Chosen, Configured
  <2>2. ASSUME NEW i \in Plugins, Initialise(i) PROVE Chosen'
    <3>1. plugins'[i] # "new"
      BY <2>2 DEF Initialise, InitPlugin, TypeOK
    <3>2. UNCHANGED <<entry, stage>> /\ stage = "starting"
      BY <2>2 DEF Initialise
    <3>3. QED BY <3>1, <3>2 DEF Chosen, Configured
  <2>3. ASSUME NEW r \in Messages, ReadBody(r) PROVE Chosen'
    <3>1. UNCHANGED <<boot, stage, plugins>>
      BY <2>3 DEF ReadBody, Handle, Emit, runtime
    <3>2. QED BY <3>1 DEF Chosen, Configured, boot
  <2>4. ASSUME Started \/ Listen \/ Close \/ Stopped \/ Signal PROVE Chosen'
    BY <2>4 DEF Started, Listen, Close, Stopped, Signal, Shutdown, Chosen, Configured, boot
  <2>5. ASSUME NEW i \in Plugins, TearDown(i) PROVE Chosen'
    BY <2>5 DEF TearDown, Chosen, Configured, boot
  <2>6. ASSUME UNCHANGED <<boot, stage, plugins>> PROVE Chosen'
    BY <2>6 DEF Chosen, Configured, boot
  <2>7. QED
    BY <2>1, <2>2, <2>3, <2>4, <2>5, <2>6 DEF Next, Progress, vars, runtime, Triggered, Disconnect, Arrive
<1>3. QED BY <1>1, <1>2, TypeCorrect, PTL DEF Spec

\* Whatever the environment, the file and argv are: every setting comes from the
\* first of its sources that has it in a form that can be used, but for a timeout that
\* the file garbles and a setting whose sources are Disputed.
THEOREM SettingsAlwaysPreferred == Spec => []SettingsPreferred
<1>1. Chosen => SettingsPreferred
  <2> SUFFICES ASSUME Chosen, Configured, NEW f \in DOMAIN settings \ {Enabled, ChatMode}
               PROVE  settings[f] = First(<<Flag(f), InFile(f), ByAlias(f),
                                            IF Garbled(f) THEN Absent ELSE InEnv(f)>>, Builtin(f))
    BY DEF SettingsPreferred, Garbled
  <2>1. settings = Settings(entry, input) /\ f \in Fields \ Deprecated
    BY DEF Chosen, Settings
  <2>2. CASE f[1] \in Kernel
    <3>1. f \notin Aliased
      BY <2>2 DEF Kernel, Aliased
    <3>2. ByAlias(f) = Absent
      BY <3>1 DEF ByAlias
    <3>3. settings[f] = IF Flag(f) # Absent THEN Flag(f) ELSE Loaded(input, f)
      <4>1. settings[f] = IF entry = "bridge" THEN Argued(input, f) ELSE Loaded(input, f)
        BY <2>1, <2>2, KernelSetting
      <4>2. f # Enabled
        BY DEF Enabled
      <4>3. Argued(input, f) = IF f \in Flags /\ input.argv[f] # Absent THEN input.argv[f] ELSE Loaded(input, f)
        BY <4>2 DEF Argued
      <4>4. QED BY <4>1, <4>3 DEF Flag
    <3>4. QED BY <2>2, <3>2, <3>3, LoadedValue, FirstPresent DEF Chosen
  <2>3. CASE f[1] \notin Kernel
    <3>1. Flag(f) = Absent /\ InEnv(f) = Absent
      BY <2>3, TimeoutValues DEF Flag, Flags, Kernel, InEnv
    <3>2. settings[f] = Resolved(input.file, f)
      BY <2>1, <2>3, PluginSetting
    <3>3. QED BY <3>1, <3>2, ResolvedValue, FirstPresent
  <2>4. QED BY <2>2, <2>3
<1>2. QED BY <1>1, ChosenAlways, PTL

LEMMA AliasValues ==
    /\ \A f \in Aliased : AliasOf(f) \in Fields /\ f[1] \notin Kernel /\ f # ChatMode
    /\ {<<"heartbeat", "intervalMs">>, <<"decision", "maxPerHour">>} \subseteq Aliased
<1>1. \A key \in Keys["proactiveChat"] : <<"proactiveChat", key>> \in Fields
  BY FieldIn DEF Keys
<1>2. QED BY <1>1 DEF Aliased, AliasOf, Kernel, ChatMode, Keys

\* Whatever the inputs are: a value of the file that is not what runs is warned
\* about, and so are a deprecated alias that is not heeded and a section of the kernel
\* that is no object.
THEOREM RejectedAlwaysWarned == Spec => []RejectedIsWarned
<1>1. ASSUME Chosen, Configured, NEW f \in DOMAIN settings, f \notin warned,
             Given(input.file, f) \notin {Absent, settings[f]}, Flag(f) = Absent,
             ~(entry = "bridge" /\ f \in {Enabled, ChatMode})
      PROVE  f = <<"persona", "systemPrompt">> /\ Given(input.file, f) = ""
  <2>1. f \in Fields \ Deprecated
    BY <1>1 DEF Chosen, Settings
  <2>2. ~Warns(entry, input, f)
    BY <1>1, <2>1 DEF Chosen, Warnings
  <2>3. InFile(f) # Absent => settings[f] = InFile(f)
    <3>1. CASE f[1] \in Kernel
      <4>1. settings[f] = IF entry = "bridge" THEN Argued(input, f) ELSE Loaded(input, f)
        BY <1>1, <2>1, <3>1, KernelSetting DEF Chosen
      <4>2. entry = "bridge" => Argued(input, f) = Loaded(input, f)
        BY <1>1 DEF Argued, Flag
      <4>3. QED BY <1>1, <3>1, <4>1, <4>2, LoadedValue DEF Chosen
    <3>2. CASE f[1] \notin Kernel /\ f # ChatMode
      BY <1>1, <2>1, <3>2, PluginSetting, ResolvedValue DEF Chosen
    <3>3. CASE f = ChatMode
      <4>1. f[1] \notin Kernel /\ entry # "bridge"
        BY <1>1, <3>3 DEF ChatMode, Kernel
      <4>2. settings[f] = Resolved(input.file, f)
        BY <1>1, <2>1, <4>1 DEF Chosen, Settings
      <4>3. QED BY <4>2, ResolvedValue
    <3>4. QED BY <3>1, <3>2, <3>3
  <2>4. Rejects(f, Given(input.file, f))
    BY <1>1, <2>3 DEF InFile, Usable, Rejects
  <2>5. f = <<"persona", "systemPrompt">> /\ Given(input.file, f) \in Texts
    BY <1>1, <2>1, <2>2, <2>4 DEF Warns
  <2>6. Takes(f) = Texts \ {""}
    BY <2>5 DEF Takes
  <2>7. QED BY <2>4, <2>5, <2>6 DEF Rejects
<1>2. ASSUME Chosen, Configured, NEW f \in DOMAIN settings, f \in Aliased,
             Given(input.file, AliasOf(f)) # Absent, AliasOf(f) \notin warned
      PROVE  Converted(f, Given(input.file, AliasOf(f))) = settings[f]
  <2>1. f \in Fields \ Deprecated /\ f[1] \notin Kernel /\ f # ChatMode /\ AliasOf(f) \in Fields
    BY <1>2, AliasValues DEF Chosen, Settings
  <2>2. ~AliasIgnored(input, AliasOf(f))
    BY <1>2, <2>1 DEF Chosen, Warnings, Warns
  <2>3. /\ Given(input.file, f) \notin Takes(f)
        /\ Given(input.file, AliasOf(f)) \in Takes(AliasOf(f))
    BY <1>2, <2>2 DEF AliasIgnored, Rejects
  <2>4. settings[f] = Resolved(input.file, f)
    BY <1>2, <2>1, PluginSetting DEF Chosen
  <2>5. QED BY <1>2, <2>3, <2>4 DEF Resolved, Read, StandIn
<1>3. ASSUME Chosen, Configured, NEW section \in input.file.junk, section \notin Slice
      PROVE  <<section>> \in warned
  BY <1>3 DEF Chosen, Warnings
<1>4. Chosen => RejectedIsWarned
  BY <1>1, <1>2, <1>3 DEF RejectedIsWarned
<1>5. QED BY <1>4, ChosenAlways, PTL

\* Whatever the inputs are: the interval and the timeout are positive, and unless
\* something was warned about the guardrails are on.
THEOREM SettingsAlwaysPace == Spec => []SettingsPace
<1> SUFFICES ASSUME Chosen, Configured
             PROVE  /\ settings[<<"heartbeat", "intervalMs">>] > 0 /\ settings[Timeout] > 0
                    /\ \/ \E f \in warned : f[1] \in {"decision", "proactiveChat"}
                       \/ /\ settings[<<"decision", "cooldownMinutes">>] > 0
                          /\ settings[<<"decision", "maxPerHour">>] > 0
                          /\ settings[<<"decision", "maxPerDay">>] > 0
                          /\ settings[<<"decision", "holdThreshold">>] <= settings[<<"decision", "sendThreshold">>]
  BY ChosenAlways, PTL DEF SettingsPace
<1>1. settings[<<"heartbeat", "intervalMs">>] > 0
  <2> DEFINE f == <<"heartbeat", "intervalMs">>
  <2>1. f \in Fields
    BY FieldIn DEF Keys
  <2>2. f \notin Deprecated /\ f[1] \notin Kernel /\ f # ChatMode /\ f \in Aliased
    BY DEF Deprecated, Aliased, AliasOf, Kernel, ChatMode
  <2>3. settings[f] = Resolved(input.file, f)
    BY <2>1, <2>2, PluginSetting DEF Chosen
  <2>4. Takes(f) = Nat \ {0} /\ Takes(AliasOf(f)) = Nat \ {0} /\ Builtin(f) = 1
    BY DEF Takes, AliasOf, Builtin
  <2>5. Resolved(input.file, f) \in Nat \ {0}
    BY <2>2, <2>4 DEF Resolved, Read, StandIn, Converted
  <2>6. QED BY <2>3, <2>5
<1>2. settings[Timeout] > 0
  <2>1. Timeout \in Fields
    BY FieldIn DEF Timeout, Keys
  <2>2. Timeout \notin Deprecated
    BY DEF Timeout, Deprecated, Aliased, AliasOf
  <2>3. settings[Timeout] = Loaded(input, Timeout)
    <3>1. Argued(input, Timeout) = Loaded(input, Timeout)
      BY TimeoutValues DEF Argued
    <3>2. QED BY <2>1, <2>2, <3>1, KernelSetting, TimeoutValues DEF Chosen
  <2>4. Loaded(input, Timeout) \in Nat \ {0}
    BY TimeoutValues DEF Loaded, Default, Read
  <2>5. QED BY <2>3, <2>4
<1>3. ASSUME NEW key \in {"sendThreshold", "holdThreshold", "maxPerHour", "maxPerDay", "cooldownMinutes"}
      PROVE  /\ <<"decision", key>> \in Fields
             /\ settings[<<"decision", key>>] = Resolved(input.file, <<"decision", key>>)
             /\ settings[<<"decision", key>>] \in Int
  <2> DEFINE f == <<"decision", key>>
  <2>1. f \in Fields
    BY FieldIn DEF Keys
  <2>2. f \notin Deprecated /\ f[1] \notin Kernel /\ f # ChatMode
    BY DEF Deprecated, Aliased, AliasOf, Kernel, ChatMode
  <2>3. settings[f] = Resolved(input.file, f)
    BY <2>1, <2>2, PluginSetting DEF Chosen
  <2>4. Takes(f) = Int /\ Builtin(f) \in Int
    <3>1. CASE key = "sendThreshold"
      BY <3>1 DEF Takes, Builtin
    <3>2. CASE key = "holdThreshold"
      BY <3>2 DEF Takes, Builtin
    <3>3. CASE key = "maxPerHour"
      BY <3>3 DEF Takes, Builtin
    <3>4. CASE key = "maxPerDay"
      BY <3>4 DEF Takes, Builtin
    <3>5. CASE key = "cooldownMinutes"
      BY <3>5 DEF Takes, Builtin
    <3>6. QED BY <3>1, <3>2, <3>3, <3>4, <3>5
  <2>5. f \in Aliased => /\ Takes(AliasOf(f)) = Int
                         /\ \A legacy \in Int : Converted(f, legacy) = legacy
    BY DEF Aliased, AliasOf, Takes, Converted
  <2>6. Resolved(input.file, f) \in Int
    BY <2>4, <2>5 DEF Resolved, Read, StandIn
  <2>7. QED BY <2>1, <2>3, <2>6
<1>4. ASSUME NEW f \in Fields, f[1] = "decision", f \notin warned PROVE ~Dubious(input, f)
  BY <1>4 DEF Chosen, Warnings, Warns
<1>5. ASSUME NEW key \in {"maxPerHour", "maxPerDay", "cooldownMinutes"}, settings[<<"decision", key>>] <= 0
      PROVE  <<"decision", key>> \in warned
  <2>1. Resolved(input.file, <<"decision", key>>) <= 0
    BY <1>3, <1>5
  <2>2. Dubious(input, <<"decision", key>>)
    BY <2>1 DEF Dubious
  <2>3. QED BY <1>3, <1>4, <2>2
<1>6. ASSUME settings[<<"decision", "sendThreshold">>] < settings[<<"decision", "holdThreshold">>]
      PROVE  <<"decision", "sendThreshold">> \in warned
  <2>1. Resolved(input.file, <<"decision", "sendThreshold">>) < Resolved(input.file, <<"decision", "holdThreshold">>)
    BY <1>3, <1>6
  <2>2. Dubious(input, <<"decision", "sendThreshold">>)
    BY <2>1 DEF Dubious
  <2>3. QED BY <1>3, <1>4, <2>2
<1>7. QED BY <1>1, <1>2, <1>3, <1>5, <1>6
=============================================================================
