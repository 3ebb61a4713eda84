------------------------------ MODULE Delivery ------------------------------
(***************************************************************************)
(* The way of an outreach from the sidecar's awaited delivery handler to   *)
(* the user: POST to the callback listener of the hermes plugin, which     *)
(* serves one request at a time, and the inject and send adapters behind   *)
(* it.  The sidecar aborts a request after CALLBACK_TIMEOUT_MS; the        *)
(* listener does not know, and serves it when its turn comes.              *)
(***************************************************************************)
EXTENDS Naturals, Sequences, SequencesExt

CONSTANTS
    Sessions,
    AbortAfter,     \* CALLBACK_TIMEOUT_MS, in ticks
    Backlog,        \* connections the listening socket holds
    MaxRoutes,      \* MAX_SESSION_ROUTES
    MaxAttempts     \* bound: deliveries begun

ASSUME DeliveryAssumption ==
    /\ {AbortAfter, Backlog, MaxRoutes} \subseteq Nat \ {0}
    /\ MaxAttempts \in Nat

VARIABLES
    begun,      \* the number of deliveries begun
    attempt,    \* the delivery the heartbeat awaits
    listener,   \* the callback listener: "down", "up", or "stopping"
    queue,      \* requests connected and not yet accepted
    serving,    \* the request in the listener's only thread
    routes,     \* _SESSION_ROUTES, the least recent first
    store,      \* whether a gateway session store has been captured
    outcome,    \* history: how each delivery settled, "unknown" when the
                \*     sidecar stopped waiting for a request in flight
    arrived,    \* history: the deliveries that reached their user, in order
    outlived,   \* the deliveries whose `hermes send` outlived hermes
    seen        \* history: the sessions observed, the least recent first

plugin == <<routes, store, seen>>
vars == <<begun, attempt, listener, queue, serving, outcome, arrived, outlived, plugin>>

Deliveries == 1..MaxAttempts
Request(n, s, kind) == [n |-> n, session |-> s, kind |-> kind]

\* attempt.pc: "idle", "connect" or "await"; serving.pc: "idle", "adapter"
\* until the adapter has returned, "answer" until the reply is written.
NoAttempt == [pc |-> "idle", age |-> 0, request |-> <<>>]
NotServing == [pc |-> "idle", request |-> <<>>]

Settled(how) ==
    /\ outcome' = [outcome EXCEPT ![attempt.request.n] = how]
    /\ attempt' = NoAttempt
Awaits(request) == attempt.pc = "await" /\ attempt.request = request

-----------------------------------------------------------------------------
(* The sidecar. *)

\* The heartbeat calls the delivery handler and awaits it, one at a time.
Deliver(s, kind) ==
    /\ attempt.pc = "idle" /\ begun < MaxAttempts
    /\ begun' = begun + 1
    /\ attempt' = [pc |-> "connect", age |-> 0, request |-> Request(begun', s, kind)]
    /\ UNCHANGED <<listener, queue, serving, outcome, arrived, outlived, plugin>>

\* fetch: refused without a listener; with a full backlog it goes on trying.
Connect ==
    /\ attempt.pc = "connect"
    /\ IF listener = "down" THEN Settled("failed") /\ UNCHANGED queue
       ELSE /\ Len(queue) < Backlog
            /\ queue' = Append(queue, attempt.request)
            /\ attempt' = [attempt EXCEPT !.pc = "await"]
            /\ UNCHANGED outcome
    /\ UNCHANGED <<begun, listener, serving, arrived, outlived, plugin>>

Tick ==
    /\ attempt.pc # "idle" /\ attempt.age < AbortAfter
    /\ attempt' = [attempt EXCEPT !.age = @ + 1]
    /\ UNCHANGED <<begun, listener, queue, serving, outcome, arrived, outlived, plugin>>

\* controller.abort(): the fetch rejects, the request stays where it is.  A
\* closed connection may be reset before the listener has read it.
\* Mutant: the timer is cleared once the connection is made.
AbortUnlessConnected ==
    /\ attempt.pc = "connect" /\ attempt.age = AbortAfter
    /\ Settled("unknown")
    /\ UNCHANGED <<begun, listener, queue, serving, arrived, outlived, plugin>>
Abort ==
    /\ attempt.pc # "idle" /\ attempt.age = AbortAfter
    /\ Settled("unknown")
    /\ \/ UNCHANGED queue
       \/ \E i \in DOMAIN queue : queue[i] = attempt.request /\ queue' = RemoveAt(queue, i)
    /\ UNCHANGED <<begun, listener, serving, arrived, outlived, plugin>>

\* The sidecar dies; nobody waits for the answer any more.
SidecarCrash ==
    /\ attempt.pc # "idle"
    /\ Settled("unknown")
    /\ UNCHANGED <<begun, listener, queue, serving, arrived, outlived, plugin>>

-----------------------------------------------------------------------------
(* The callback listener. *)

\* The listener is started after the sidecar, once its health was awaited.
StartListener ==
    /\ listener = "down"
    /\ listener' = "up"
    /\ UNCHANGED <<begun, attempt, queue, serving, outcome, arrived, outlived, plugin>>

\* stop: shutdown() waits for the request being served.
StopListener ==
    /\ listener = "up"
    /\ listener' = "stopping"
    /\ UNCHANGED <<begun, attempt, queue, serving, outcome, arrived, outlived, plugin>>

\* Requests still in the backlog are reset.  Mutant: they are kept for the
\* listener of the next life.
KeepQueue ==
    /\ queue' = queue
    /\ IF attempt.pc = "await" THEN Settled("failed") ELSE UNCHANGED <<attempt, outcome>>
ResetQueue ==
    /\ queue' = <<>>
    /\ IF attempt.pc = "await" THEN Settled("failed") ELSE UNCHANGED <<attempt, outcome>>

\* server_close, once the thread is idle.
CloseListener ==
    /\ listener = "stopping" /\ serving.pc = "idle"
    /\ listener' = "down"
    /\ ResetQueue
    /\ UNCHANGED <<begun, serving, arrived, outlived, plugin>>

\* hermes dies, and with it its listener, what an adapter was doing in it, and its
\* routes.  A `hermes send` is a process of its own, which may go on.
PluginCrash ==
    /\ listener # "down"
    /\ listener' = "down"
    /\ serving' = NotServing /\ queue' = <<>>
    /\ IF attempt.pc = "await" THEN Settled("unknown") ELSE UNCHANGED <<attempt, outcome>>
    /\ \/ UNCHANGED outlived
       \/ /\ serving.pc = "adapter" /\ serving.request.kind = "send"
          /\ outlived' = outlived \cup {serving.request.n}
    /\ routes' = <<>> /\ store' = FALSE /\ seen' = <<>>
    /\ UNCHANGED <<begun, arrived>>

\* It sends, whatever was delivered in the meantime.
SendLate(n) ==
    /\ n \in outlived /\ n \notin ToSet(arrived)
    /\ arrived' = Append(arrived, n)
    /\ UNCHANGED <<begun, attempt, listener, queue, serving, outcome, outlived, plugin>>

\* http.server.HTTPServer serves connections one by one.  Mutant: the last one
\* first.
AcceptLast ==
    /\ listener = "up" /\ serving.pc = "idle" /\ queue # <<>>
    /\ serving' = [pc |-> "adapter", request |-> Last(queue)]
    /\ queue' = Front(queue)
    /\ UNCHANGED <<begun, attempt, listener, outcome, arrived, outlived, plugin>>
Accept ==
    /\ listener = "up" /\ serving.pc = "idle" /\ queue # <<>>
    /\ serving' = [pc |-> "adapter", request |-> Head(queue)]
    /\ queue' = Tail(queue)
    /\ UNCHANGED <<begun, attempt, listener, outcome, arrived, outlived, plugin>>

\* Wrong token, media type, size or shape: a status that is not 2xx.
Refuse ==
    /\ serving.pc = "adapter"
    /\ serving' = NotServing
    /\ IF Awaits(serving.request) THEN Settled("failed") ELSE UNCHANGED <<attempt, outcome>>
    /\ UNCHANGED <<begun, listener, queue, arrived, outlived, plugin>>

\* Mutant of Hand: an adapter that timed out, and may have sent, is tried again.
HandAgain(reaches) ==
    /\ serving' = [serving EXCEPT !.pc = "answer"] \/ UNCHANGED serving
    /\ arrived' = IF reaches THEN Append(arrived, serving.request.n) ELSE arrived
    /\ UNCHANGED <<begun, attempt, listener, queue, outcome, outlived, plugin>>
Hand(reaches) ==
    /\ serving' = [serving EXCEPT !.pc = "answer"]
    /\ arrived' = IF reaches THEN Append(arrived, serving.request.n) ELSE arrived
    /\ UNCHANGED <<begun, attempt, listener, queue, outcome, outlived, plugin>>

\* The route observed for the session, else the store's answer if it comes in
\* time; without either the injection goes to no gateway session.
Resolved(s, answers) == s \in ToSet(routes) \/ (store /\ answers)

Inject(answers, accepted) ==
    /\ serving.pc = "adapter" /\ serving.request.kind = "inject"
    /\ Hand(Resolved(serving.request.session, answers) /\ accepted)

\* `hermes send`, which may fail, or time out after it has sent.
Send(sent) ==
    /\ serving.pc = "adapter" /\ serving.request.kind = "send"
    /\ Hand(sent)

\* 200, whatever the adapter returned.
Answer ==
    /\ serving.pc = "answer"
    /\ serving' = NotServing
    /\ IF Awaits(serving.request) THEN Settled("fulfilled") ELSE UNCHANGED <<attempt, outcome>>
    /\ UNCHANGED <<begun, listener, queue, arrived, outlived, plugin>>

-----------------------------------------------------------------------------
(* The session routes. *)

\* A session has one place at most.
Without(log, s) ==
    IF s \in ToSet(log) THEN RemoveAt(log, CHOOSE i \in DOMAIN log : log[i] = s) ELSE log

\* Mutant of Moved: a route recorded again keeps its place.
NotMoved(log, s) == IF s \in ToSet(log) THEN log ELSE Append(log, s)
Moved(log, s) == Append(Without(log, s), s)

Newest(log, count) == SubSeq(log, IF Len(log) > count THEN Len(log) - count + 1 ELSE 1, Len(log))

\* pre_gateway_dispatch: the store is captured, and the route recorded unless
\* the conversation is so new that the store has no row of it.
Observe(s, row) ==
    /\ store' = TRUE
    /\ IF row THEN /\ routes' = Newest(Moved(routes, s), MaxRoutes)
                   /\ seen' = Append(Without(seen, s), s)
       ELSE UNCHANGED <<routes, seen>>
    /\ UNCHANGED <<begun, attempt, listener, queue, serving, outcome, arrived, outlived>>

-----------------------------------------------------------------------------

Init ==
    /\ begun = 0 /\ attempt = NoAttempt
    /\ listener = "down" /\ queue = <<>> /\ serving = NotServing
    /\ routes = <<>> /\ store = FALSE
    /\ outcome = [n \in Deliveries |-> "none"]
    /\ arrived = <<>> /\ outlived = {} /\ seen = <<>>

Next ==
    \/ \E s \in Sessions, kind \in {"inject", "send"} : Deliver(s, kind)
    \/ Connect \/ Tick \/ Abort \/ SidecarCrash
    \/ StartListener \/ StopListener \/ CloseListener \/ PluginCrash
    \/ Accept \/ Refuse \/ Answer
    \/ \E n \in Deliveries : SendLate(n)
    \/ \E answers, accepted \in BOOLEAN : Inject(answers, accepted)
    \/ \E sent \in BOOLEAN : Send(sent)
    \/ \E s \in Sessions, row \in BOOLEAN : Observe(s, row)

Spec == Init /\ [][Next]_vars

\* The abort timer elapses and fires.  Nothing is assumed of the plugin: its
\* adapters may never return.
FairSpec == Spec /\ WF_vars(Tick) /\ WF_vars(Abort)

-----------------------------------------------------------------------------

\* Outreaches reach their users in the order the heartbeat decided them, each at
\* most once: a request served late, after it was aborted, never overtakes the
\* retry that follows it and is never served again.  Only one whose `hermes send`
\* was cut loose by the death of hermes may come after those that followed it.
ArriveInOrder ==
    \A i, j \in DOMAIN arrived : i < j =>
        arrived[i] < arrived[j] \/ (arrived[j] \in outlived /\ arrived[i] # arrived[j])

\* An outreach the transport reports as failed never reaches the user, not even
\* after a restart of the listener: the retry of the next tick is no duplicate.
\* Only a request that was aborted, or cut off by a crash, may.
FailedNeverArrives == \A n \in ToSet(arrived) : outcome[n] # "failed"

\* The transport keeps the promise of module Handover, whatever is aborted, thrown
\* out of the backlog, served late or sent by a process that nobody waits for, and
\* whichever end restarts or dies.
Promise == INSTANCE Handover
HandedOver == Promise!Spec

\* The delivery handler always settles, even if an adapter hangs for good: were
\* it not, the heartbeat would stay busy and drop every later tick.
DeliverySettles == \A n \in Deliveries : begun >= n ~> outcome[n] # "none"

\* The sessions that wrote last can be routed without the store, however many
\* others there were.
LastSeenAreRouted == ToSet(Newest(seen, MaxRoutes)) \subseteq ToSet(routes)
=============================================================================
