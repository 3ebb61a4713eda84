---------------------------- MODULE ForwardLatch ----------------------------
(***************************************************************************)
(* Forwarding of hook events to the sidecar, with its failure latch: after *)
(* FORWARD_FAILURE_THRESHOLD failures events are skipped for a while.      *)
(* Hooks run in the threads of the conversations, the state of the latch   *)
(* is a dictionary without a lock, and a thread works with the time it     *)
(* read before its request.  Each access to the dictionary is an action.   *)
(* The monotonic clock is left out: times are ages and remaining times.    *)
(***************************************************************************)
EXTENDS Integers

CONSTANTS
    Hooks,          \* bound: threads that run hooks at one time
    Threshold,      \* FORWARD_FAILURE_THRESHOLD
    Latch,          \* FORWARD_LATCH_SEC
    Timeout         \* FORWARD_TIMEOUT_SEC

ASSUME LatchAssumption ==
    /\ {Threshold, Latch} \subseteq Nat \ {0}
    /\ Timeout \in Nat /\ Timeout < Latch

VARIABLES
    up,         \* whether the sidecar answers
    failures,   \* state["failures"]
    left,       \* how long state["skip_until"] is ahead, 0 when it is past
    call,       \* each thread's _forward: where it is, the age of its `current`
                \*     and the count it has read
    paused      \* history: how long the latch has been closed, up to Latch

vars == <<up, failures, left, call, paused>>

NotForwarding == [pc |-> "idle", age |-> 0, read |-> 0]
Bookkeeping == {"reset", "unlatch", "add", "check", "clear"}
Goto(h, pc) == call' = [call EXCEPT ![h].pc = pc]
Return(h) == call' = [call EXCEPT ![h] = NotForwarding]

-----------------------------------------------------------------------------
(* _forward. *)

\* A hook with an event to forward; while latched it is skipped.
\* Mutant: a skipped event starts the pause again.
ForwardExtending(h) ==
    /\ call[h].pc = "idle"
    /\ IF left > 0 THEN left' = Latch /\ UNCHANGED call
                   ELSE Goto(h, "post") /\ UNCHANGED left
    /\ UNCHANGED <<up, failures, paused>>
Forward(h) ==
    /\ call[h].pc = "idle" /\ left = 0
    /\ Goto(h, "post")
    /\ UNCHANGED <<up, failures, left, paused>>

Succeed(h) ==
    /\ call[h].pc = "post" /\ up
    /\ Goto(h, "reset")
    /\ UNCHANGED <<up, failures, left, paused>>

\* Refused, answered with an error, or timed out; the count is read.
Fail(h) ==
    /\ call[h].pc = "post"
    /\ call' = [call EXCEPT ![h].pc = "add", ![h].read = failures]
    /\ UNCHANGED <<up, failures, left, paused>>

Reset(h) ==
    /\ call[h].pc = "reset"
    /\ failures' = 0
    /\ Goto(h, "unlatch")
    /\ UNCHANGED <<up, left, paused>>

Unlatch(h) ==
    /\ call[h].pc = "unlatch"
    /\ left' = 0 /\ paused' = 0
    /\ Return(h)
    /\ UNCHANGED <<up, failures>>

\* The count saturates at the threshold: it is only compared with it.
Add(h) ==
    /\ call[h].pc = "add"
    /\ failures' = IF call[h].read < Threshold THEN call[h].read + 1 ELSE Threshold
    /\ Goto(h, "check")
    /\ UNCHANGED <<up, left, paused>>

\* Mutant of Until: the clock is read again.
UntilNow(h) == Latch
Until(h) == Latch - call[h].age

\* Mutant: the count starts again, but the latch stays open.
CheckOpen(h) ==
    /\ call[h].pc = "check"
    /\ Goto(h, IF failures >= Threshold THEN "clear" ELSE "idle")
    /\ UNCHANGED <<up, failures, left, paused>>
Check(h) ==
    /\ call[h].pc = "check"
    /\ IF failures >= Threshold THEN left' = Until(h) /\ Goto(h, "clear")
                                ELSE Return(h) /\ UNCHANGED left
    /\ UNCHANGED <<up, failures, paused>>

Clear(h) ==
    /\ call[h].pc = "clear"
    /\ failures' = 0
    /\ Return(h)
    /\ UNCHANGED <<up, left, paused>>

-----------------------------------------------------------------------------

\* Time passes for the requests and the latch, not for the bookkeeping.
Tick ==
    /\ \A h \in Hooks : call[h].pc \notin Bookkeeping
    /\ \A h \in Hooks : call[h].age < Timeout
    /\ left > 0 \/ \E h \in Hooks : call[h].pc = "post"
    /\ left' = IF left > 0 THEN left - 1 ELSE 0
    /\ call' = [h \in Hooks |-> IF call[h].pc = "post" THEN [call[h] EXCEPT !.age = @ + 1]
                                                     ELSE call[h]]
    /\ paused' = IF left' = 0 THEN 0 ELSE IF paused < Latch THEN paused + 1 ELSE Latch
    /\ UNCHANGED <<up, failures>>

\* The sidecar comes up or goes down.
Toggle ==
    /\ up' = ~up
    /\ UNCHANGED <<failures, left, call, paused>>

Init ==
    /\ up \in BOOLEAN
    /\ failures = 0 /\ left = 0 /\ paused = 0
    /\ call = [h \in Hooks |-> NotForwarding]

Proceed(h) ==
    Succeed(h) \/ Fail(h) \/ Reset(h) \/ Unlatch(h) \/ Add(h) \/ Check(h) \/ Clear(h)

Next ==
    \/ \E h \in Hooks : Forward(h) \/ Proceed(h)
    \/ Tick
    \/ Toggle

Spec == Init /\ [][Next]_vars

\* Time passes, and a thread that has begun to forward goes on: its request
\* times out and the rest does not block.
FairSpec == Spec /\ WF_vars(Tick) /\ \A h \in Hooks : WF_vars(Proceed(h))

-----------------------------------------------------------------------------

Count == 0..Threshold
Calls == [pc : {"idle", "post"} \cup Bookkeeping, age : 0..Timeout, read : Count]

\* Every variable keeps its type.
TypeOK ==
    /\ up \in BOOLEAN
    /\ failures \in Count /\ left \in 0..Latch /\ paused \in 0..Latch
    /\ call \in [Hooks -> Calls]

\* A pause never outlasts the latch, however many threads fail into it: the
\* sidecar misses at most that much of the conversations.
PauseBounded == left > 0 => paused + left <= Latch

\* Events are forwarded again in the end: hooks that come during a pause do not
\* prolong it.
PauseEnds == left > 0 ~> left = 0

\* Conversations are spared a sidecar that is down: threads lose each other's
\* counts, but requests that go on failing close the latch in the end.
FailuresPause ==
    []<>(\E h \in Hooks : call[h].pc = "add") =>
        []<>(left > 0 \/ \E h \in Hooks : call[h].pc = "reset")
=============================================================================
